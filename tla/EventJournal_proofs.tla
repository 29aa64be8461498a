------------------------- MODULE EventJournal_proofs -------------------------
(***************************************************************************)
(* The transcript of an invocation is true, proved for every nesting of    *)
(* evaluated source, calls back into the parent machine, evalc, handlers   *)
(* and errors.                                                             *)
(*                                                                         *)
(* The invariant (TextInv and Pending) has two halves.  For the texts:     *)
(* machines nest in the order of what they printed; the journal holds the  *)
(* texts since its recorder began; the outputs of the frames that collect  *)
(* output hold, between them and in order, what the machines they belong   *)
(* to printed at their capture depth.  For the errors: what is open in the *)
(* journal is on its way outward in some frame.                            *)
(*                                                                         *)
(* The lemmas speak of any stack s, journal j and history p of texts, not  *)
(* of the variables, so that each serves several steps; the steps of the   *)
(* specification follow at the end.                                        *)
(***************************************************************************)
EXTENDS EventJournal, TLAPS, WellFoundedInduction, FiniteSetTheorems, SequenceTheorems

(* Selection: the numbers of a set in ascending order, each once.           *)
Increasing(s) == \A i, j \in DOMAIN s : i < j => s[i] < s[j]
Values(s) == {s[i] : i \in DOMAIN s}

Scan(set, n, f) ==
  f = [i \in 0 .. n |-> IF i = 0 THEN <<>>
                        ELSE IF i \in set THEN Append(f[i - 1], i) ELSE f[i - 1]]

LEMMA LeastNumber ==
  ASSUME NEW S \in SUBSET Nat, S # {}
  PROVE  \E n \in S : \A m \in S : n <= m
<1>1. IsWellFoundedOn(OpToRel(<, Nat), Nat)
  BY NatLessThanWellFounded, Zenon
<1>2. PICK n \in S : \A m \in S : ~(<<m, n>> \in OpToRel(<, Nat))
  <2> DEFINE R == OpToRel(<, Nat)
  <2> HIDE DEF R
  <2>1. IsWellFoundedOn(R, Nat)
    BY <1>1, Zenon DEF R
  <2>2. \E n \in S : \A m \in S : ~(<<m, n>> \in R)
    BY <2>1, WFMin
  <2> QED BY <2>2, Zenon DEF R
<1>3. \A m \in S : n <= m
  <2> SUFFICES ASSUME NEW m \in S, m < n PROVE FALSE
    <3>1. n \in Nat /\ \A m \in S : m \in Nat
      BY <1>2
    <3> QED BY <3>1
  <2>1. <<m, n>> \in OpToRel(<, Nat)
    BY <1>2, Zenon DEF OpToRel
  <2> QED BY <1>2, <2>1, Zenon
<1> QED BY <1>2, <1>3

LEMMA ScanExists == ASSUME NEW set PROVE \A n \in Nat : \E f : Scan(set, n, f)
<1> DEFINE Without == {n \in Nat : ~ \E f : Scan(set, n, f)}
<1> SUFFICES ASSUME Without # {} PROVE FALSE
  OBVIOUS
<1> HIDE DEF Without
<1>1. PICK n \in Without : \A m \in Without : n <= m
  <2>1. Without \in SUBSET Nat
    BY DEF Without
  <2> QED BY <2>1, LeastNumber
<1>2. n \in Nat /\ ~ \E f : Scan(set, n, f)
  BY <1>1 DEF Without
<1>3. CASE n = 0
  <2>1. Scan(set, 0, [i \in 0 .. 0 |-> <<>>])
    BY DEF Scan
  <2> QED BY <1>2, <1>3, <2>1
<1>4. CASE n # 0
  <2>1. n - 1 \in Nat /\ n - 1 \notin Without
    BY <1>1, <1>2, <1>4
  <2>2. PICK f : Scan(set, n - 1, f)
    BY <2>1 DEF Without
  <2> DEFINE g == [i \in 0 .. n |-> IF i = n THEN IF n \in set THEN Append(f[n - 1], n) ELSE f[n - 1]
                                    ELSE f[i]]
  <2>3. \A i \in 0 .. n - 1 : f[i] = IF i = 0 THEN <<>>
                                     ELSE IF i \in set THEN Append(f[i - 1], i) ELSE f[i - 1]
    BY <2>2, <1>2, <2>1 DEF Scan
  <2>4. \A i \in 0 .. n - 1 : g[i] = f[i]
    BY <1>2
  <2>5. g[n] = IF n \in set THEN Append(g[n - 1], n) ELSE g[n - 1]
    BY <1>2, <1>4, <2>4
  <2>6. \A i \in 0 .. n : g[i] = IF i = 0 THEN <<>>
                                 ELSE IF i \in set THEN Append(g[i - 1], i) ELSE g[i - 1]
    BY <2>3, <2>4, <2>5, <1>2, <1>4
  <2>7. g = [i \in 0 .. n |-> g[i]]
    OBVIOUS
  <2> HIDE DEF g
  <2>8. Scan(set, n, g)
    BY <2>6, <2>7 DEF Scan
  <2> QED BY <1>2, <2>8
<1> QED BY <1>3, <1>4

LEMMA AppendLonger ==
  ASSUME NEW n \in Nat, NEW p \in Seq(1 .. n), NEW i \in 1 .. n, \A j \in DOMAIN p : p[j] < i,
         Increasing(p)
  PROVE  /\ Append(p, i) \in Seq(1 .. n)
         /\ Increasing(Append(p, i))
         /\ Values(Append(p, i)) = Values(p) \cup {i}
<1> DEFINE q == Append(p, i)
           m == Len(p)
<1>1. /\ q \in Seq(1 .. n) /\ q[m + 1] = i
      /\ \A j \in 1 .. m : q[j] = p[j]
      /\ DOMAIN p = 1 .. m /\ DOMAIN q = 1 .. m + 1 /\ m \in Nat
      /\ \A j \in 1 .. m : p[j] \in 1 .. n
  OBVIOUS
<1> HIDE DEF q, m
<1>2. \A j \in 1 .. m + 1 : j \in 1 .. m \/ j = m + 1
  BY <1>1
<1>3. \A j, k \in 1 .. m + 1 : j < k => j \in 1 .. m
  BY <1>1
<1>4. \A j, k \in 1 .. m + 1 : j < k => q[j] < q[k]
  BY <1>1, <1>2, <1>3 DEF Increasing
<1>5. Values(q) = Values(p) \cup {i}
  <2>1. \A v : (\E j \in 1 .. m + 1 : q[j] = v) <=> (\E j \in 1 .. m : p[j] = v) \/ v = i
    <3> TAKE v
    <3>1. m + 1 \in 1 .. m + 1 /\ \A j \in 1 .. m : j \in 1 .. m + 1
      BY <1>1
    <3> QED BY <1>1, <1>2, <3>1, Zenon
  <2> QED BY <2>1, <1>1 DEF Values
<1> QED BY <1>1, <1>4, <1>5 DEF Increasing, q

(* The three facts everything else uses of Ascending.                         *)
LEMMA AscendingProperties ==
  ASSUME NEW n \in Nat, NEW set \in SUBSET (1 .. n)
  PROVE  /\ Ascending(set, n) \in Seq(1 .. n)
         /\ Increasing(Ascending(set, n))
         /\ Values(Ascending(set, n)) = set
<1> DEFINE f == CHOOSE f : Scan(set, n, f)
<1>1. Scan(set, n, f)
  BY ScanExists
<1>2. Ascending(set, n) = f[n]
  BY DEF Ascending, Scan
<1> HIDE DEF f
<1>3. \A i \in 0 .. n : f[i] = IF i = 0 THEN <<>>
                               ELSE IF i \in set THEN Append(f[i - 1], i) ELSE f[i - 1]
  BY <1>1 DEF Scan
<1>0. \A k \in set : k \in 1 .. n /\ k \in Int
  OBVIOUS
<1> DEFINE Right(i) == /\ f[i] \in Seq(1 .. n)
                       /\ Increasing(f[i])
                       /\ Values(f[i]) = {k \in set : k <= i}
           Wrong == {i \in 0 .. n : ~Right(i)}
<1>4. Wrong = {}
  <2> SUFFICES ASSUME Wrong # {} PROVE FALSE
    OBVIOUS
  <2>1. PICK i \in Wrong : \A m \in Wrong : i <= m
    <3>1. Wrong \in SUBSET Nat
      OBVIOUS
    <3> HIDE DEF Wrong
    <3> QED BY <3>1, LeastNumber
  <2>2. i \in 0 .. n /\ ~Right(i)
    BY <2>1
  <2>3. CASE i = 0
    <3>1. f[0] = <<>>
      BY <1>3
    <3>3. \A k \in set : ~(k <= 0)
      BY <1>0
    <3>2. {k \in set : k <= 0} = {}
      BY <3>3
    <3>4. <<>> \in Seq(1 .. n) /\ Increasing(<<>>) /\ Values(<<>>) = {}
      BY DEF Increasing, Values
    <3>5. f[i] = <<>>
      BY <3>1, <2>3
    <3>6. Right(i)
      BY <3>2, <3>4, <3>5, <2>3
    <3> QED BY <3>6, <2>2
  <2>4. CASE i # 0
    <3>1. i - 1 \in 0 .. n /\ i - 1 \notin Wrong
      <4>1. i \in Nat /\ i - 1 \in 0 .. n /\ ~(i <= i - 1)
        BY <2>2, <2>4
      <4> HIDE DEF Wrong
      <4> QED BY <4>1, <2>1
    <3>5. Right(i - 1)
      BY <3>1
    <3> DEFINE p == f[i - 1]
    <3>2. p \in Seq(1 .. n) /\ Increasing(p) /\ Values(p) = {k \in set : k <= i - 1}
      BY <3>5
    <3> HIDE DEF p
    <3>3. CASE i \notin set
      <4>1. f[i] = p
        BY <1>3, <2>2, <2>4, <3>3 DEF p
      <4>2. \A k \in set : k <= i - 1 <=> k <= i
        BY <1>0, <2>2, <3>3
      <4>3. {k \in set : k <= i - 1} = {k \in set : k <= i}
        BY <4>2
      <4> QED BY <2>2, <3>2, <4>1, <4>3
    <3>4. CASE i \in set
      <4>1. f[i] = Append(p, i)
        BY <1>3, <2>2, <2>4, <3>4 DEF p
      <4>2. \A j \in DOMAIN p : p[j] \in Values(p)
        BY DEF Values
      <4>3. \A j \in DOMAIN p : p[j] < i
        BY <3>2, <4>2, <2>2
      <4>4. {k \in set : k <= i} = {k \in set : k <= i - 1} \cup {i}
        <5>1. \A k \in set : k <= i <=> k <= i - 1 \/ k = i
          BY <1>0, <2>2
        <5> QED BY <5>1, <3>4
      <4>5. /\ Append(p, i) \in Seq(1 .. n) /\ Increasing(Append(p, i))
            /\ Values(Append(p, i)) = Values(p) \cup {i}
        BY <3>2, <3>4, <4>3, AppendLonger
      <4> QED BY <2>2, <3>2, <4>1, <4>4, <4>5
    <3> QED BY <3>3, <3>4
  <2> QED BY <2>3, <2>4
<1>5. Right(n)
  BY <1>4
<1>6. {k \in set : k <= n} = set
  <2>1. \A k \in set : k <= n
    BY <1>0
  <2> QED BY <2>1
<1> QED BY <1>2, <1>5, <1>6

(* One of two increasing sequences cannot leave out what the other holds.  *)
LEMMA IncreasingPrefix ==
  ASSUME NEW s \in Seq(Nat), NEW t \in Seq(Nat), Increasing(s), Increasing(t), Values(s) = Values(t),
         NEW i \in 1 .. Len(s), \A j \in 1 .. i - 1 : j <= Len(t) /\ s[j] = t[j]
  PROVE  i <= Len(t) /\ s[i] = t[i]
<1> DEFINE m == Len(s)
           n == Len(t)
<1>1. /\ m \in Nat /\ n \in Nat /\ DOMAIN s = 1 .. m /\ DOMAIN t = 1 .. n
      /\ \A k \in 1 .. m : s[k] \in Nat
      /\ \A k \in 1 .. n : t[k] \in Nat
      /\ i \in 1 .. m
      /\ \A j \in 1 .. i - 1 : j <= n /\ s[j] = t[j]
  OBVIOUS
<1> HIDE DEF m, n
<1>2. /\ \A k \in 1 .. m : \E j \in 1 .. n : t[j] = s[k]
      /\ \A k \in 1 .. n : \E j \in 1 .. m : s[j] = t[k]
  BY <1>1 DEF Values
<1>3. PICK j \in 1 .. n : t[j] = s[i]
  BY <1>1, <1>2
<1>4. \A k \in 1 .. m : k < i => s[k] < s[i]
  BY <1>1 DEF Increasing
<1>5. j >= i
  <2> SUFFICES ASSUME j < i PROVE FALSE
    BY <1>1, <1>3
  <2>1. j \in 1 .. i - 1 /\ j \in 1 .. m
    BY <1>1, <1>3
  <2>2. s[j] = t[j] /\ s[j] < s[i]
    BY <2>1, <1>1, <1>4
  <2> QED BY <2>1, <2>2, <1>1, <1>3
<1>6. i \in 1 .. n
  BY <1>1, <1>3, <1>5
<1>7. PICK k \in 1 .. m : s[k] = t[i]
  BY <1>2, <1>6
<1>8. k >= i
  <2> SUFFICES ASSUME k < i PROVE FALSE
    BY <1>1, <1>7
  <2>1. k \in 1 .. i - 1 /\ k \in 1 .. n
    BY <1>1, <1>7
  <2>2. s[k] = t[k] /\ t[k] < t[i]
    BY <2>1, <1>1, <1>6, <1>7 DEF Increasing
  <2> QED BY <2>1, <2>2, <1>1, <1>6, <1>7
<1>9. s[i] <= s[k] /\ t[i] <= t[j]
  <2>1. i = k \/ i < k
    BY <1>1, <1>7, <1>8
  <2>2. i = j \/ i < j
    BY <1>1, <1>3, <1>5
  <2>3. i < k => s[i] < s[k]
    BY <1>1, <1>7 DEF Increasing
  <2>4. i < j => t[i] < t[j]
    BY <1>1, <1>3, <1>6 DEF Increasing
  <2> QED BY <2>1, <2>2, <2>3, <2>4, <1>1, <1>3, <1>6, <1>7
<1>10. s[i] \in Nat /\ t[i] \in Nat /\ s[k] \in Nat /\ t[j] \in Nat
  BY <1>1, <1>6, <1>3, <1>7
<1> QED BY <1>10, <1>9, <1>3, <1>7, <1>6, <1>1 DEF n

(* They determine the sequence.                                             *)
LEMMA IncreasingUnique ==
  ASSUME NEW s \in Seq(Nat), NEW t \in Seq(Nat), Increasing(s), Increasing(t), Values(s) = Values(t)
  PROVE  s = t
<1> DEFINE Differ == {i \in 1 .. Len(s) : ~(i <= Len(t) /\ s[i] = t[i])}
<1>1. Differ = {}
  <2> SUFFICES ASSUME Differ # {} PROVE FALSE
    OBVIOUS
  <2>1. PICK i \in Differ : \A m \in Differ : i <= m
    <3>1. Differ \in SUBSET Nat
      OBVIOUS
    <3> HIDE DEF Differ
    <3> QED BY <3>1, LeastNumber
  <2>2. i \in 1 .. Len(s) /\ Len(s) \in Nat
    BY <2>1
  <2>3. \A j \in 1 .. i - 1 : j \in 1 .. Len(s) /\ j \notin Differ
    <3>1. \A j \in 1 .. i - 1 : j \in 1 .. Len(s) /\ ~(i <= j)
      BY <2>2
    <3> HIDE DEF Differ
    <3> QED BY <3>1, <2>1
  <2>4. \A j \in 1 .. i - 1 : j <= Len(t) /\ s[j] = t[j]
    BY <2>3
  <2>5. i <= Len(t) /\ s[i] = t[i]
    BY <2>2, <2>4, IncreasingPrefix
  <2> QED BY <2>1, <2>5
<1>2. \A i \in 1 .. Len(s) : i <= Len(t) /\ s[i] = t[i]
  BY <1>1
<1> HIDE DEF Differ
<1>3. Len(s) \in Nat /\ Len(t) \in Nat
  OBVIOUS
<1>4. Len(t) <= Len(s)
  <2> SUFFICES ASSUME Len(s) < Len(t) PROVE FALSE
    BY <1>3
  <2> DEFINE i == Len(s) + 1
  <2>1. i \in 1 .. Len(t)
    BY <1>3
  <2>2. \A j \in 1 .. i - 1 : j <= Len(s) /\ t[j] = s[j]
    BY <1>2, <1>3
  <2> HIDE DEF i
  <2>3. i <= Len(s)
    BY <2>1, <2>2, IncreasingPrefix
  <2> QED BY <2>3, <1>3 DEF i
<1>5. Len(s) <= Len(t)
  <2>1. CASE Len(s) = 0
    BY <2>1, <1>3
  <2>2. CASE Len(s) # 0
    BY <2>2, <1>2, <1>3
  <2> QED BY <2>1, <2>2
<1>6. Len(s) = Len(t)
  BY <1>3, <1>4, <1>5
<1> QED BY <1>2, <1>6

LEMMA PickedProperties ==
  ASSUME NEW E, NEW s \in Seq(E), NEW indices \in SUBSET DOMAIN s
  PROVE  /\ Picked(s, indices) \in Seq(E)
         /\ indices = {} => Picked(s, indices) = <<>>
<1> DEFINE order == Ascending(indices, Len(s))
<1>1. Len(s) \in Nat /\ DOMAIN s = 1 .. Len(s)
  OBVIOUS
<1>2. order \in Seq(1 .. Len(s)) /\ Values(order) = indices
  BY <1>1, AscendingProperties
<1>3. Picked(s, indices) = [k \in DOMAIN order |-> s[order[k]]]
  BY DEF Picked
<1> HIDE DEF order
<1>4. Len(order) \in Nat /\ DOMAIN order = 1 .. Len(order) /\ \A k \in DOMAIN order : order[k] \in DOMAIN s
  BY <1>1, <1>2
<1>5. \A k \in DOMAIN order : s[order[k]] \in E
  BY <1>4
<1>6. Picked(s, indices) \in Seq(E)
  BY <1>3, <1>4, <1>5
<1>7. ASSUME indices = {} PROVE Picked(s, indices) = <<>>
  <2>1. Values(order) = {}
    BY <1>2, <1>7
  <2>2. DOMAIN order = {}
    BY <2>1, Zenon DEF Values
  <2>3. Len(order) = 0
    BY <1>4, <2>2
  <2> QED BY <1>3, <1>4, <2>2, <2>3
<1> QED BY <1>6, <1>7


-----------------------------------------------------------------------------
(* Frames of a stack.                                                       *)
Vm(s, k) == k \in DOMAIN s /\ s[k].kind = "vm"
Callback(s, k) == k \in DOMAIN s /\ s[k].kind = "callback"
Sink(s, k) == Vm(s, k) \/ Callback(s, k)
DepthAt(s, k) == Cardinality({i \in 1 .. k : s[i].capture})

Stamps == [identity : Nat, sequence : Nat]
Outputs == [text : Nat, replay : BOOLEAN, stamp : Stamps]
FrameRecords == [kind : {"vm", "callback", "try", "element"}, capture : BOOLEAN, recover : BOOLEAN,
                 owner : BOOLEAN, begin : Nat, from : Nat, output : Seq(Outputs), errors : Seq(Stamps)]
Events == [kind : {"text", "error"}, text : Nat, depth : Nat,
           disposition : {"visible", "raised", "suppressed", "caught", "unhandled"}]
Journals == [identity : Nat, events : Seq(Events)]

LEMMA DepthIsNat ==
  ASSUME NEW s, NEW k \in Nat
  PROVE  IsFiniteSet({i \in 1 .. k : s[i].capture}) /\ DepthAt(s, k) \in Nat
<1>1. IsFiniteSet(1 .. k)
  BY FS_Interval
<1>2. {i \in 1 .. k : s[i].capture} \subseteq 1 .. k
  OBVIOUS
<1>3. IsFiniteSet({i \in 1 .. k : s[i].capture})
  BY <1>1, <1>2, FS_Subset
<1> QED BY <1>3, FS_CardinalityType DEF DepthAt

LEMMA DepthSame ==
  ASSUME NEW s, NEW t, NEW k \in Nat, NEW m \in Nat,
         \A i \in 1 .. k : i \in 1 .. m \/ ~s[i].capture,
         \A i \in 1 .. m : i \in 1 .. k /\ s[i].capture = t[i].capture
  PROVE  DepthAt(s, k) = DepthAt(t, m)
<1>1. \A n : n \in {i \in 1 .. k : s[i].capture} <=> n \in {i \in 1 .. m : t[i].capture}
  OBVIOUS
<1>2. {i \in 1 .. k : s[i].capture} = {i \in 1 .. m : t[i].capture}
  BY <1>1
<1> QED BY <1>2 DEF DepthAt

LEMMA DepthStep ==
  ASSUME NEW s, NEW k \in Nat, s[k + 1].capture
  PROVE  DepthAt(s, k + 1) = DepthAt(s, k) + 1
<1> DEFINE S == {i \in 1 .. k : s[i].capture}
           T == {i \in 1 .. k + 1 : s[i].capture}
<1>1. T = S \cup {k + 1}
  <2>1. \A i : i \in 1 .. k + 1 <=> i \in 1 .. k \/ i = k + 1
    OBVIOUS
  <2> QED BY <2>1
<1>2. k + 1 \notin S /\ IsFiniteSet(S)
  <2>1. k + 1 \notin 1 .. k
    OBVIOUS
  <2>2. IsFiniteSet(S)
    BY DepthIsNat, Zenon
  <2> QED BY <2>1, <2>2
<1> HIDE DEF S, T
<1>3. Cardinality(T) = Cardinality(S) + 1
  BY <1>1, <1>2, FS_AddElement
<1> QED BY <1>3 DEF DepthAt, S, T

LEMMA DepthMonotonic ==
  ASSUME NEW s, NEW k \in Nat, NEW m \in Nat, k <= m
  PROVE  DepthAt(s, k) <= DepthAt(s, m)
<1>1. {i \in 1 .. k : s[i].capture} \subseteq {i \in 1 .. m : s[i].capture}
  <2>1. \A i \in 1 .. k : i \in 1 .. m
    OBVIOUS
  <2> QED BY <2>1
<1> QED BY <1>1, DepthIsNat, FS_Subset DEF DepthAt

LEMMA DepthOfStack ==
  ASSUME NEW E, NEW s \in Seq(E)
  PROVE  Depth(s) = DepthAt(s, Len(s))
<1>1. DOMAIN s = 1 .. Len(s)
  OBVIOUS
<1> QED BY <1>1, Zenon DEF Depth, DepthAt

-----------------------------------------------------------------------------
(* The outermost machine; only machines capture or own a recorder.          *)
Stacked(s) ==
  /\ Vm(s, 1) /\ ~s[1].capture /\ s[1].from = 1 /\ s[1].begin = 0
  /\ \A k \in DOMAIN s : s[k].capture \/ s[k].owner => s[k].kind = "vm"

(* There is one recorder while a frame owns one, and a machine or a         *)
(* callback runs within it.                                                 *)
Owned(s, j) ==
  /\ j.identity # 0 <=> \E k \in DOMAIN s : s[k].owner
  /\ j.identity = 0 => j.events = <<>>
  /\ \A k, m \in DOMAIN s : s[k].owner /\ s[m].owner => k = m
  /\ \A k \in DOMAIN s : k > 1 /\ Vm(s, k) => \E m \in 1 .. k : s[m].owner
  /\ \A k \in DOMAIN s : Callback(s, k) => \E m \in 1 .. k - 1 : s[m].owner

(* What a callback holds needs no further recording.                        *)
Recorded(o, j) == o.replay \/ (o.stamp.identity = j.identity /\ o.stamp.sequence \in DOMAIN j.events)
AllRecorded(s, j) ==
  \A k \in DOMAIN s : Callback(s, k) => \A i \in DOMAIN s[k].output : Recorded(s[k].output[i], j)

(* Machines nest in the texts they printed, at their depth or deeper.       *)
Nested(s, p) ==
  /\ \A k \in DOMAIN s : Vm(s, k) => s[k].from \in 1 .. Len(p) + 1
  /\ \A k, m \in DOMAIN s : Vm(s, k) /\ Vm(s, m) /\ k < m => s[k].from <= s[m].from
  /\ \A k \in DOMAIN s : Vm(s, k) => \A t \in s[k].from .. Len(p) : p[t] >= DepthAt(s, k)

IsText(j, i) == i \in DOMAIN j.events /\ j.events[i].kind = "text"

(* The journal's texts: as printed, in order, all since its recorder began, *)
(* and split by the events and by the texts at the same place where a       *)
(* machine began.                                                           *)
TextsKnown(j, p) ==
  \A i \in DOMAIN j.events : IsText(j, i) =>
    j.events[i].text \in 1 .. Len(p) /\ j.events[i].depth = p[j.events[i].text]

TextsSorted(j) ==
  \A i, k \in DOMAIN j.events : IsText(j, i) /\ IsText(j, k) /\ i < k => j.events[i].text < j.events[k].text

TextsComplete(s, j, p) ==
  \A m \in DOMAIN s : s[m].owner =>
    \A t \in s[m].from .. Len(p) : \E i \in DOMAIN j.events : IsText(j, i) /\ j.events[i].text = t

TextsSplit(s, j) ==
  \A m, k \in DOMAIN s : s[m].owner /\ Vm(s, k) /\ m <= k =>
    \A i \in DOMAIN j.events : IsText(j, i) => (i > s[k].begin <=> j.events[i].text >= s[k].from)

(* A machine began within its recorder's events. *)
BeginsWithin(s, j) ==
  \A m, k \in DOMAIN s : s[m].owner /\ Vm(s, k) /\ m <= k => s[k].begin \in 0 .. Len(j.events)

Transcribed(s, j, p) ==
  /\ BeginsWithin(s, j)
  /\ TextsKnown(j, p) /\ TextsSorted(j) /\ TextsComplete(s, j, p) /\ TextsSplit(s, j)

(* A machine and the callbacks that run for it hold its texts: sorted, of   *)
(* its depth, outer frames before inner ones, and none is missing.          *)
Holds(s, k, t) == \E i \in DOMAIN s[k].output : s[k].output[i].text = t
Segment(s, k, m) == k <= m /\ Vm(s, k) /\ Sink(s, m) /\ \A i \in k + 1 .. m : ~Vm(s, i)

Sorted(o) == \A i, k \in DOMAIN o : i < k => o[i].text < o[k].text
OutputsSorted(s) == \A k \in DOMAIN s : Sink(s, k) => Sorted(s[k].output)

OutputsKnown(s, p) ==
  \A k \in DOMAIN s : Sink(s, k) =>
    \A i \in DOMAIN s[k].output : s[k].output[i].text \in 1 .. Len(p) /\ p[s[k].output[i].text] = DepthAt(s, k)

OutputsApart(s) ==
  \A k, m \in DOMAIN s : Sink(s, k) /\ Sink(s, m) /\ k < m =>
    \A i \in DOMAIN s[k].output, l \in DOMAIN s[m].output : s[k].output[i].text < s[m].output[l].text

OutputsSplit(s) ==
  \A k, m \in DOMAIN s : Vm(s, m) /\ Sink(s, k) =>
    \A i \in DOMAIN s[k].output : s[k].output[i].text < s[m].from <=> k < m

OutputsComplete(s, p) ==
  \A k \in DOMAIN s : Vm(s, k) =>
    \A t \in s[k].from .. Len(p) :
      p[t] = DepthAt(s, k) /\ (\A m \in DOMAIN s : Vm(s, m) /\ k < m => t < s[m].from)
        => \E m \in DOMAIN s : Segment(s, k, m) /\ Holds(s, m, t)

Collected(s, p) ==
  OutputsSorted(s) /\ OutputsKnown(s, p) /\ OutputsApart(s) /\ OutputsSplit(s) /\ OutputsComplete(s, p)

TextInv(s, j, p) ==
  Stacked(s) /\ Owned(s, j) /\ AllRecorded(s, j) /\ Nested(s, p) /\ Transcribed(s, j, p) /\ Collected(s, p)

-----------------------------------------------------------------------------
(* What does not touch the texts.                                           *)
(* Stacks that differ in their errors only.                                 *)
SameText(f, g) ==
  /\ f.kind = g.kind /\ f.capture = g.capture /\ f.owner = g.owner
  /\ f.begin = g.begin /\ f.from = g.from /\ f.output = g.output

SameTexts(s, t) == DOMAIN s = DOMAIN t /\ \A k \in DOMAIN s : SameText(s[k], t[k])

SameEvent(e, f) == e.kind = f.kind /\ e.text = f.text /\ e.depth = f.depth

(* The events stay, whatever became of their errors, and errors follow.     *)
ErrorsFollow(i, j) ==
  /\ j.identity = i.identity
  /\ i.identity = 0 => j.events = <<>>
  /\ \A k \in DOMAIN i.events : k \in DOMAIN j.events /\ SameEvent(j.events[k], i.events[k])
  /\ \A k \in DOMAIN j.events : k \in DOMAIN i.events \/ j.events[k].kind = "error"

LEMMA SameStack ==
  ASSUME NEW s \in Seq(FrameRecords), NEW t \in Seq(FrameRecords), SameTexts(s, t)
  PROVE  /\ \A k : (Vm(s, k) <=> Vm(t, k)) /\ (Callback(s, k) <=> Callback(t, k)) /\ (Sink(s, k) <=> Sink(t, k))
         /\ \A k \in DOMAIN s : DepthAt(s, k) = DepthAt(t, k)
         /\ \A k, m : Segment(s, k, m) <=> Segment(t, k, m)
<1>1. \A k : (Vm(s, k) <=> Vm(t, k)) /\ (Callback(s, k) <=> Callback(t, k))
  BY DEF Vm, Callback, SameTexts, SameText
<1>2. \A k : Sink(s, k) <=> Sink(t, k)
  BY <1>1 DEF Sink
<1>3. \A k \in DOMAIN s : DepthAt(s, k) = DepthAt(t, k)
  <2> TAKE k \in DOMAIN s
  <2>1. k \in Nat /\ \A i \in 1 .. k : i \in DOMAIN s
    OBVIOUS
  <2>2. \A i \in 1 .. k : s[i].capture = t[i].capture
    BY <2>1 DEF SameTexts, SameText
  <2> QED BY <2>1, <2>2, DepthSame
<1>4. \A k, m : Segment(s, k, m) <=> Segment(t, k, m)
  BY <1>1, <1>2 DEF Segment
<1> QED BY <1>1, <1>2, <1>3, <1>4

(* Errors that come, go or are disposed of leave the texts alone.           *)
LEMMA TextsUntouched ==
  ASSUME NEW s \in Seq(FrameRecords), NEW t \in Seq(FrameRecords), SameTexts(s, t),
         NEW i \in Journals, NEW j \in Journals, ErrorsFollow(i, j), NEW p, TextInv(s, i, p)
  PROVE  TextInv(t, j, p)
<1>1. /\ \A k : (Vm(s, k) <=> Vm(t, k)) /\ (Callback(s, k) <=> Callback(t, k)) /\ (Sink(s, k) <=> Sink(t, k))
      /\ \A k \in DOMAIN s : DepthAt(s, k) = DepthAt(t, k)
      /\ \A k, m : Segment(s, k, m) <=> Segment(t, k, m)
  BY SameStack
<1>2. DOMAIN s = DOMAIN t /\ \A k \in DOMAIN s : SameText(s[k], t[k])
  BY DEF SameTexts
<1>3. 1 \in DOMAIN s
  BY DEF TextInv, Stacked, Vm
<1>4. Stacked(t)
  BY <1>1, <1>2, <1>3 DEF TextInv, Stacked, SameText
<1>5. Owned(t, j)
  <2>1. j.identity # 0 <=> \E k \in DOMAIN t : t[k].owner
    BY <1>2 DEF TextInv, Owned, SameText, ErrorsFollow
  <2>2. \A k \in DOMAIN s : 1 .. k \subseteq DOMAIN s /\ 1 .. k - 1 \subseteq DOMAIN s
    OBVIOUS
  <2>3. \A k \in DOMAIN t : k > 1 /\ Vm(t, k) => \E m \in 1 .. k : t[m].owner
    BY <1>1, <1>2, <2>2 DEF TextInv, Owned, SameText
  <2>4. \A k \in DOMAIN t : Callback(t, k) => \E m \in 1 .. k - 1 : t[m].owner
    BY <1>1, <1>2, <2>2 DEF TextInv, Owned, SameText
  <2>5. \A k, m \in DOMAIN t : t[k].owner /\ t[m].owner => k = m
    BY <1>2 DEF TextInv, Owned, SameText
  <2>6. j.identity = 0 => j.events = <<>>
    BY DEF ErrorsFollow
  <2> QED BY <2>1, <2>3, <2>4, <2>5, <2>6 DEF Owned
<1>6. AllRecorded(t, j)
  <2>1. AllRecorded(s, i)
    BY DEF TextInv
  <2>2. \A o : Recorded(o, i) => Recorded(o, j)
    BY DEF Recorded, ErrorsFollow
  <2> QED BY <2>1, <2>2, <1>1, <1>2 DEF AllRecorded, SameText
<1>7. Nested(t, p)
  BY <1>1, <1>2 DEF TextInv, Nested, SameText
<1>8. \A k : IsText(i, k) <=> IsText(j, k)
  BY DEF IsText, ErrorsFollow, SameEvent
<1>9. \A k \in DOMAIN i.events : j.events[k].text = i.events[k].text /\ j.events[k].depth = i.events[k].depth
  BY DEF ErrorsFollow, SameEvent
<1>10. \A k : IsText(j, k) => k \in DOMAIN i.events
  BY <1>8 DEF IsText
<1>11. Transcribed(t, j, p)
  <2>1. TextsKnown(j, p)
    BY <1>8, <1>9, <1>10 DEF TextInv, Transcribed, TextsKnown
  <2>2. TextsSorted(j)
    BY <1>8, <1>9, <1>10 DEF TextInv, Transcribed, TextsSorted
  <2>3. TextsComplete(t, j, p)
    <3>1. \A k \in DOMAIN i.events : k \in DOMAIN j.events
      BY DEF ErrorsFollow
    <3>2. TextsComplete(s, i, p)
      BY DEF TextInv, Transcribed
    <3> QED BY <1>2, <1>8, <1>9, <3>1, <3>2 DEF TextsComplete, SameText
  <2>4. TextsSplit(t, j)
    BY <1>1, <1>2, <1>8, <1>9, <1>10 DEF TextInv, Transcribed, TextsSplit, SameText
  <2>5. BeginsWithin(t, j)
    <3> DEFINE a == i.events
               b == j.events
    <3>1. Len(a) \in Nat /\ Len(b) \in Nat /\ DOMAIN a = 1 .. Len(a) /\ DOMAIN b = 1 .. Len(b)
      BY DEF Journals
    <3>2. \A k \in DOMAIN a : k \in DOMAIN b
      BY DEF ErrorsFollow
    <3> HIDE DEF a, b
    <3>3. Len(a) <= Len(b)
      <4>1. CASE Len(a) = 0
        BY <3>1, <4>1
      <4>2. CASE Len(a) # 0
        BY <3>1, <3>2, <4>2
      <4> QED BY <4>1, <4>2
    <3>4. BeginsWithin(s, i)
      BY DEF TextInv, Transcribed
    <3>5. \A k : k \in 0 .. Len(a) => k \in 0 .. Len(b)
      BY <3>1, <3>3
    <3> QED BY <1>1, <1>2, <3>4, <3>5 DEF BeginsWithin, SameText, a, b
  <2> QED BY <2>1, <2>2, <2>3, <2>4, <2>5 DEF Transcribed
<1>12. Collected(t, p)
  <2>1. \A k \in DOMAIN s : s[k].output = t[k].output /\ s[k].from = t[k].from
    BY <1>2 DEF SameText
  <2>2. OutputsSorted(t)
    BY <1>1, <1>2, <2>1 DEF TextInv, Collected, OutputsSorted
  <2>3. OutputsKnown(t, p)
    BY <1>1, <1>2, <2>1 DEF TextInv, Collected, OutputsKnown
  <2>4. OutputsApart(t)
    BY <1>1, <1>2, <2>1 DEF TextInv, Collected, OutputsApart
  <2>5. OutputsSplit(t)
    BY <1>1, <1>2, <2>1 DEF TextInv, Collected, OutputsSplit
  <2>6. OutputsComplete(t, p)
    <3> SUFFICES ASSUME NEW k \in DOMAIN t, Vm(t, k), NEW x \in t[k].from .. Len(p), p[x] = DepthAt(t, k),
                        \A m \in DOMAIN t : Vm(t, m) /\ k < m => x < t[m].from
                 PROVE  \E m \in DOMAIN t : Segment(t, k, m) /\ Holds(t, m, x)
      BY DEF OutputsComplete
    <3>1. k \in DOMAIN s /\ Vm(s, k) /\ x \in s[k].from .. Len(p) /\ p[x] = DepthAt(s, k)
      BY <1>1, <1>2, <2>1
    <3>2. \A m \in DOMAIN s : Vm(s, m) /\ k < m => x < s[m].from
      BY <1>1, <1>2, <2>1
    <3>3. PICK m \in DOMAIN s : Segment(s, k, m) /\ Holds(s, m, x)
      BY <3>1, <3>2 DEF TextInv, Collected, OutputsComplete
    <3> QED BY <3>3, <1>1, <1>2, <2>1 DEF Holds
  <2> QED BY <2>2, <2>3, <2>4, <2>5, <2>6 DEF Collected
<1> QED BY <1>4, <1>5, <1>6, <1>7, <1>11, <1>12 DEF TextInv

-----------------------------------------------------------------------------
(* A frame more on the stack.                                               *)
OnTop(s, t, f) ==
  /\ DOMAIN s = 1 .. Len(s) /\ DOMAIN t = 1 .. Len(s) + 1 /\ Len(s) \in Nat
  /\ t[Len(s) + 1] = f /\ \A k \in DOMAIN s : t[k] = s[k]

LEMMA AppendIsOnTop ==
  ASSUME NEW s \in Seq(FrameRecords), NEW f \in FrameRecords
  PROVE  OnTop(s, Append(s, f), f) /\ Append(s, f) \in Seq(FrameRecords)
BY DEF OnTop

LEMMA FrontIsBelow ==
  ASSUME NEW s \in Seq(FrameRecords), s # <<>>
  PROVE  /\ Front(s) \in Seq(FrameRecords) /\ OnTop(Front(s), s, s[Len(s)])
         /\ Len(s) = Len(Front(s)) + 1 /\ Last(s) = s[Len(s)] /\ s[Len(s)] \in FrameRecords
<1>1. Len(s) \in Nat /\ Len(s) >= 1 /\ DOMAIN s = 1 .. Len(s) /\ \A k \in DOMAIN s : s[k] \in FrameRecords
  OBVIOUS
<1>2. Front(s) = SubSeq(s, 1, Len(s) - 1) /\ Last(s) = s[Len(s)]
  BY DEF Front, Last
<1>3. /\ SubSeq(s, 1, Len(s) - 1) \in Seq(FrameRecords)
      /\ Len(SubSeq(s, 1, Len(s) - 1)) = Len(s) - 1
      /\ \A k \in 1 .. Len(s) - 1 : SubSeq(s, 1, Len(s) - 1)[k] = s[k]
      /\ DOMAIN SubSeq(s, 1, Len(s) - 1) = 1 .. Len(s) - 1
  BY <1>1
<1> QED BY <1>1, <1>2, <1>3 DEF OnTop

LEMMA OnTopFacts ==
  ASSUME NEW s, NEW t, NEW f, OnTop(s, t, f)
  PROVE  /\ \A k \in DOMAIN s : k \in DOMAIN t /\ k # Len(s) + 1 /\ k < Len(s) + 1 /\ k \in Nat
         /\ \A k \in DOMAIN t : k \in DOMAIN s \/ k = Len(s) + 1
         /\ Len(s) + 1 \in DOMAIN t
         /\ \A k \in DOMAIN s : /\ Vm(t, k) <=> Vm(s, k)
                                /\ Callback(t, k) <=> Callback(s, k)
                                /\ Sink(t, k) <=> Sink(s, k)
         /\ Vm(t, Len(s) + 1) <=> f.kind = "vm"
         /\ Callback(t, Len(s) + 1) <=> f.kind = "callback"
         /\ \A k \in DOMAIN s : DepthAt(t, k) = DepthAt(s, k)
         /\ \A k, m \in DOMAIN s : Segment(s, k, m) <=> Segment(t, k, m)
<1>1. DOMAIN s = 1 .. Len(s) /\ DOMAIN t = 1 .. Len(s) + 1 /\ Len(s) \in Nat
  BY DEF OnTop
<1>2. \A k \in DOMAIN s : k \in DOMAIN t /\ k # Len(s) + 1 /\ k < Len(s) + 1 /\ k \in Nat
  BY <1>1
<1>3. \A k \in DOMAIN t : k \in DOMAIN s \/ k = Len(s) + 1
  BY <1>1
<1>4. Len(s) + 1 \in DOMAIN t
  BY <1>1
<1>5. \A k \in DOMAIN s : Vm(t, k) <=> Vm(s, k)
  BY <1>2 DEF OnTop, Vm
<1>6. \A k \in DOMAIN s : Callback(t, k) <=> Callback(s, k)
  BY <1>2 DEF OnTop, Callback
<1>7. \A k \in DOMAIN s : Sink(t, k) <=> Sink(s, k)
  BY <1>5, <1>6 DEF Sink
<1>8. Vm(t, Len(s) + 1) <=> f.kind = "vm"
  BY <1>4 DEF Vm, OnTop
<1>9. Callback(t, Len(s) + 1) <=> f.kind = "callback"
  BY <1>4 DEF Callback, OnTop
<1>10. \A k \in DOMAIN s : DepthAt(t, k) = DepthAt(s, k)
  <2> TAKE k \in DOMAIN s
  <2>1. k \in Nat /\ \A i \in 1 .. k : i \in DOMAIN s
    BY <1>1
  <2>2. \A i \in 1 .. k : t[i].capture = s[i].capture
    BY <2>1 DEF OnTop
  <2> QED BY <2>1, <2>2, DepthSame
<1>11. \A k, m \in DOMAIN s : Segment(s, k, m) <=> Segment(t, k, m)
  <2> TAKE k, m \in DOMAIN s
  <2>1. \A i \in k + 1 .. m : i \in DOMAIN s
    BY <1>1
  <2> QED BY <2>1, <1>5, <1>7 DEF Segment
<1> QED BY <1>2, <1>3, <1>4, <1>5, <1>6, <1>7, <1>8, <1>9, <1>10, <1>11

(* A try, a call or a callback begins.                                      *)
LEMMA CallBegins ==
  ASSUME NEW s, NEW t, NEW f, OnTop(s, t, f), NEW j, NEW p, TextInv(s, j, p),
         f.kind \in {"try", "element", "callback"}, ~f.capture, ~f.owner, f.output = <<>>,
         f.kind = "callback" => \E m \in DOMAIN s : s[m].owner
  PROVE  TextInv(t, j, p)
<1> DEFINE n == Len(s) + 1
<1>1. /\ \A k \in DOMAIN s : k \in DOMAIN t /\ k # n /\ k < n /\ k \in Nat
      /\ \A k \in DOMAIN t : k \in DOMAIN s \/ k = n
      /\ n \in DOMAIN t
      /\ \A k \in DOMAIN s : /\ Vm(t, k) <=> Vm(s, k)
                             /\ Callback(t, k) <=> Callback(s, k)
                             /\ Sink(t, k) <=> Sink(s, k)
      /\ ~Vm(t, n)
      /\ Callback(t, n) <=> f.kind = "callback"
      /\ \A k \in DOMAIN s : DepthAt(t, k) = DepthAt(s, k)
      /\ \A k, m \in DOMAIN s : Segment(s, k, m) <=> Segment(t, k, m)
  BY OnTopFacts
<1>2. t[n] = f /\ (\A k \in DOMAIN s : t[k] = s[k]) /\ DOMAIN s = 1 .. n - 1 /\ n \in Nat
  BY DEF OnTop
<1> HIDE DEF n
<1>3. 1 \in DOMAIN s
  BY DEF TextInv, Stacked, Vm
<1>4. Stacked(t)
  <2>1. Vm(t, 1) /\ t[1] = s[1]
    BY <1>1, <1>2, <1>3 DEF TextInv, Stacked
  <2>2. \A k \in DOMAIN t : t[k].capture \/ t[k].owner => t[k].kind = "vm"
    BY <1>1, <1>2 DEF TextInv, Stacked
  <2> QED BY <2>1, <2>2 DEF TextInv, Stacked
<1>5. Owned(t, j)
  <2>1. \A k \in DOMAIN t : t[k].owner => k \in DOMAIN s /\ s[k].owner
    BY <1>1, <1>2
  <2>2. j.identity # 0 <=> \E k \in DOMAIN t : t[k].owner
    BY <2>1, <1>1, <1>2 DEF TextInv, Owned
  <2>3. \A k \in DOMAIN t : k > 1 /\ Vm(t, k) => \E m \in 1 .. k : t[m].owner
    <3> SUFFICES ASSUME NEW k \in DOMAIN t, k > 1, Vm(t, k) PROVE \E m \in 1 .. k : t[m].owner
      OBVIOUS
    <3>1. k \in DOMAIN s /\ Vm(s, k)
      BY <1>1
    <3>2. PICK m \in 1 .. k : s[m].owner
      BY <3>1 DEF TextInv, Owned
    <3>3. m \in DOMAIN s
      BY <3>1, <1>2
    <3> QED BY <3>2, <3>3, <1>2
  <2>4. \A k \in DOMAIN t : Callback(t, k) => \E m \in 1 .. k - 1 : t[m].owner
    <3> SUFFICES ASSUME NEW k \in DOMAIN t, Callback(t, k) PROVE \E m \in 1 .. k - 1 : t[m].owner
      OBVIOUS
    <3>1. CASE k \in DOMAIN s
      <4>1. PICK m \in 1 .. k - 1 : s[m].owner
        BY <3>1, <1>1 DEF TextInv, Owned
      <4>2. m \in DOMAIN s
        BY <3>1, <1>2
      <4> QED BY <4>1, <4>2, <1>2
    <3>2. CASE k = n
      BY <3>2, <1>1, <1>2
    <3> QED BY <3>1, <3>2, <1>1
  <2>5. \A k, m \in DOMAIN t : t[k].owner /\ t[m].owner => k = m
    BY <2>1 DEF TextInv, Owned
  <2> QED BY <2>2, <2>3, <2>4, <2>5 DEF TextInv, Owned
<1>6. AllRecorded(t, j)
  BY <1>1, <1>2 DEF TextInv, AllRecorded
<1>7. Nested(t, p)
  BY <1>1, <1>2 DEF TextInv, Nested
<1>8. Transcribed(t, j, p)
  BY <1>1, <1>2 DEF TextInv, Transcribed, TextsComplete, TextsSplit, BeginsWithin
<1>9. Collected(t, p)
  <2>1. OutputsSorted(t)
    BY <1>1, <1>2 DEF TextInv, Collected, OutputsSorted, Sorted
  <2>2. OutputsKnown(t, p)
    BY <1>1, <1>2 DEF TextInv, Collected, OutputsKnown
  <2>3. OutputsApart(t)
    BY <1>1, <1>2 DEF TextInv, Collected, OutputsApart
  <2>4. OutputsSplit(t)
    BY <1>1, <1>2 DEF TextInv, Collected, OutputsSplit
  <2>5. OutputsComplete(t, p)
    <3>1. OutputsComplete(s, p)
      BY DEF TextInv, Collected
    <3> SUFFICES ASSUME NEW k \in DOMAIN t, Vm(t, k), NEW y \in t[k].from .. Len(p), p[y] = DepthAt(t, k),
                        \A m \in DOMAIN t : Vm(t, m) /\ k < m => y < t[m].from
                 PROVE  \E m \in DOMAIN t : Segment(t, k, m) /\ Holds(t, m, y)
      BY DEF OutputsComplete
    <3>2. k \in DOMAIN s /\ Vm(s, k) /\ t[k] = s[k] /\ DepthAt(t, k) = DepthAt(s, k)
      BY <1>1, <1>2
    <3>3. \A m \in DOMAIN s : Vm(s, m) /\ k < m => y < s[m].from
      BY <1>1, <1>2
    <3>4. PICK m \in DOMAIN s : Segment(s, k, m) /\ Holds(s, m, y)
      BY <3>1, <3>2, <3>3 DEF OutputsComplete
    <3> QED BY <3>2, <3>4, <1>1, <1>2 DEF Holds
  <2> QED BY <2>1, <2>2, <2>3, <2>4, <2>5 DEF Collected
<1> QED BY <1>4, <1>5, <1>6, <1>7, <1>8, <1>9 DEF TextInv

(* A try or a call is left.                                                 *)
LEMMA CallEnds ==
  ASSUME NEW s, NEW t, NEW f, OnTop(s, t, f), NEW j, NEW p, TextInv(t, j, p),
         f.kind \in {"try", "element"}
  PROVE  TextInv(s, j, p)
<1> DEFINE n == Len(s) + 1
<1>1. /\ \A k \in DOMAIN s : k \in DOMAIN t /\ k # n /\ k < n /\ k \in Nat
      /\ \A k \in DOMAIN t : k \in DOMAIN s \/ k = n
      /\ n \in DOMAIN t
      /\ \A k \in DOMAIN s : /\ Vm(t, k) <=> Vm(s, k)
                             /\ Callback(t, k) <=> Callback(s, k)
                             /\ Sink(t, k) <=> Sink(s, k)
      /\ ~Vm(t, n) /\ ~Callback(t, n)
      /\ \A k \in DOMAIN s : DepthAt(t, k) = DepthAt(s, k)
      /\ \A k, m \in DOMAIN s : Segment(s, k, m) <=> Segment(t, k, m)
  BY OnTopFacts
<1>2. t[n] = f /\ (\A k \in DOMAIN s : t[k] = s[k]) /\ DOMAIN s = 1 .. n - 1 /\ n \in Nat
  BY DEF OnTop
<1> HIDE DEF n
<1>3. 1 \in DOMAIN s
  BY <1>1 DEF TextInv, Stacked, Vm
<1>4. Stacked(s)
  BY <1>1, <1>2, <1>3 DEF TextInv, Stacked
<1>5. Owned(s, j)
  <2>1. \A k \in DOMAIN t : t[k].owner => k \in DOMAIN s /\ s[k].owner
    BY <1>1, <1>2 DEF TextInv, Stacked
  <2>2. j.identity # 0 <=> \E k \in DOMAIN s : s[k].owner
    BY <2>1, <1>1, <1>2 DEF TextInv, Owned
  <2>3. \A k \in DOMAIN s : k > 1 /\ Vm(s, k) => \E m \in 1 .. k : s[m].owner
    <3> SUFFICES ASSUME NEW k \in DOMAIN s, k > 1, Vm(s, k) PROVE \E m \in 1 .. k : s[m].owner
      OBVIOUS
    <3>2. PICK m \in 1 .. k : t[m].owner
      BY <1>1 DEF TextInv, Owned
    <3>3. m \in DOMAIN s
      BY <1>2
    <3> QED BY <3>2, <3>3, <1>2
  <2>4. \A k \in DOMAIN s : Callback(s, k) => \E m \in 1 .. k - 1 : s[m].owner
    <3> SUFFICES ASSUME NEW k \in DOMAIN s, Callback(s, k) PROVE \E m \in 1 .. k - 1 : s[m].owner
      OBVIOUS
    <3>2. PICK m \in 1 .. k - 1 : t[m].owner
      BY <1>1 DEF TextInv, Owned
    <3>3. m \in DOMAIN s
      BY <1>2
    <3> QED BY <3>2, <3>3, <1>2
  <2>5. \A k, m \in DOMAIN s : s[k].owner /\ s[m].owner => k = m
    BY <1>1, <1>2 DEF TextInv, Owned
  <2> QED BY <2>2, <2>3, <2>4, <2>5 DEF TextInv, Owned
<1>6. AllRecorded(s, j)
  BY <1>1, <1>2 DEF TextInv, AllRecorded
<1>7. Nested(s, p)
  BY <1>1, <1>2 DEF TextInv, Nested
<1>8. Transcribed(s, j, p)
  BY <1>1, <1>2 DEF TextInv, Transcribed, TextsComplete, TextsSplit, BeginsWithin
<1>9. Collected(s, p)
  <2>1. OutputsSorted(s)
    BY <1>1, <1>2 DEF TextInv, Collected, OutputsSorted
  <2>2. OutputsKnown(s, p)
    BY <1>1, <1>2 DEF TextInv, Collected, OutputsKnown
  <2>3. OutputsApart(s)
    BY <1>1, <1>2 DEF TextInv, Collected, OutputsApart
  <2>4. OutputsSplit(s)
    BY <1>1, <1>2 DEF TextInv, Collected, OutputsSplit
  <2>5. OutputsComplete(s, p)
    <3> SUFFICES ASSUME NEW k \in DOMAIN s, Vm(s, k), NEW x \in s[k].from .. Len(p), p[x] = DepthAt(s, k),
                        \A m \in DOMAIN s : Vm(s, m) /\ k < m => x < s[m].from
                 PROVE  \E m \in DOMAIN s : Segment(s, k, m) /\ Holds(s, m, x)
      BY DEF OutputsComplete
    <3>1. PICK m \in DOMAIN t : Segment(t, k, m) /\ Holds(t, m, x)
      BY <1>1, <1>2 DEF TextInv, Collected, OutputsComplete
    <3>2. m \in DOMAIN s
      BY <3>1, <1>1 DEF Segment, Sink
    <3> QED BY <3>1, <3>2, <1>1, <1>2 DEF Holds
  <2> QED BY <2>1, <2>2, <2>3, <2>4, <2>5 DEF Collected
<1> QED BY <1>4, <1>5, <1>6, <1>7, <1>8, <1>9 DEF TextInv

(* A machine begins, with the recorder there is or one of its own.          *)
LEMMA MachineBegins ==
  ASSUME NEW s, NEW t, NEW f, OnTop(s, t, f), NEW i \in Journals, NEW j, NEW p \in Seq(Nat), TextInv(s, i, p),
         f.kind = "vm", f.output = <<>>, f.from = Len(p) + 1, f.begin = Len(i.events),
         f.owner <=> i.identity = 0, j.identity # 0, j.events = i.events, i.identity # 0 => j = i
  PROVE  TextInv(t, j, p)
<1> DEFINE n == Len(s) + 1
           last == Len(p)
<1>1. /\ \A k \in DOMAIN s : k \in DOMAIN t /\ k # n /\ k < n /\ k \in Nat
      /\ \A k \in DOMAIN t : k \in DOMAIN s \/ k = n
      /\ n \in DOMAIN t
      /\ \A k \in DOMAIN s : /\ Vm(t, k) <=> Vm(s, k)
                             /\ Callback(t, k) <=> Callback(s, k)
                             /\ Sink(t, k) <=> Sink(s, k)
      /\ Vm(t, n)
      /\ Callback(t, n) <=> f.kind = "callback"
      /\ \A k \in DOMAIN s : DepthAt(t, k) = DepthAt(s, k)
      /\ \A k, m \in DOMAIN s : Segment(s, k, m) <=> Segment(t, k, m)
  BY OnTopFacts
<1>2. t[n] = f /\ (\A k \in DOMAIN s : t[k] = s[k]) /\ DOMAIN s = 1 .. n - 1 /\ n \in Nat
  BY DEF OnTop
<1>0. last \in Nat /\ f.from = last + 1 /\ f.from .. last = {}
  OBVIOUS
<1> DEFINE events == i.events
           size == Len(i.events)
<1>17. size \in Nat /\ DOMAIN events = 1 .. size /\ f.begin = size
  BY DEF Journals
<1> HIDE DEF n, last, size, events
<1>3. 1 \in DOMAIN s
  BY DEF TextInv, Stacked, Vm
<1>4. Stacked(t)
  <2>1. Vm(t, 1) /\ t[1] = s[1]
    BY <1>1, <1>2, <1>3 DEF TextInv, Stacked
  <2>2. \A k \in DOMAIN t : t[k].capture \/ t[k].owner => t[k].kind = "vm"
    BY <1>1, <1>2 DEF TextInv, Stacked
  <2> QED BY <2>1, <2>2 DEF TextInv, Stacked
<1>10. i.identity = 0 => \A k \in DOMAIN s : ~s[k].owner
  BY DEF TextInv, Owned
<1>11. i.identity # 0 => \E k \in DOMAIN s : s[k].owner
  BY DEF TextInv, Owned
<1>12. \A k \in DOMAIN s : \A m \in 1 .. k : m \in DOMAIN s
  BY <1>2
<1>13. \A k \in DOMAIN s : \A m \in 1 .. k - 1 : m \in DOMAIN s
  BY <1>2
<1>5. Owned(t, j)
  <2>2. j.identity # 0 <=> \E k \in DOMAIN t : t[k].owner
    BY <1>11, <1>1, <1>2
  <2>3. \A k \in DOMAIN t : k > 1 /\ Vm(t, k) => \E m \in 1 .. k : t[m].owner
    <3> SUFFICES ASSUME NEW k \in DOMAIN t, k > 1, Vm(t, k) PROVE \E m \in 1 .. k : t[m].owner
      OBVIOUS
    <3>1. CASE k \in DOMAIN s
      <4>1. PICK m \in 1 .. k : s[m].owner
        BY <3>1, <1>1 DEF TextInv, Owned
      <4>2. m \in DOMAIN s
        BY <3>1, <1>12
      <4> QED BY <4>1, <4>2, <1>2
    <3>2. CASE k = n
      <4>1. PICK m \in DOMAIN t : t[m].owner
        BY <2>2
      <4>2. m \in 1 .. n
        BY <1>1, <1>2
      <4> QED BY <4>1, <4>2, <3>2
    <3> QED BY <3>1, <3>2, <1>1
  <2>4. \A k \in DOMAIN t : Callback(t, k) => \E m \in 1 .. k - 1 : t[m].owner
    <3> SUFFICES ASSUME NEW k \in DOMAIN t, Callback(t, k) PROVE \E m \in 1 .. k - 1 : t[m].owner
      OBVIOUS
    <3>1. k \in DOMAIN s /\ Callback(s, k)
      BY <1>1
    <3>2. PICK m \in 1 .. k - 1 : s[m].owner
      BY <3>1 DEF TextInv, Owned
    <3>3. m \in DOMAIN s
      BY <3>1, <1>13
    <3> QED BY <3>2, <3>3, <1>2
  <2>5. \A k, m \in DOMAIN t : t[k].owner /\ t[m].owner => k = m
    <3>1. \A k, m \in DOMAIN s : s[k].owner /\ s[m].owner => k = m
      BY DEF TextInv, Owned
    <3> QED BY <3>1, <1>1, <1>2, <1>10
  <2> QED BY <2>2, <2>3, <2>4, <2>5 DEF TextInv, Owned
<1>6. AllRecorded(t, j)
  <2>1. CASE i.identity = 0
    <3>1. \A k \in DOMAIN s : ~Callback(s, k)
      BY <2>1, <1>10, <1>13 DEF TextInv, Owned
    <3>2. \A k \in DOMAIN t : ~Callback(t, k)
      BY <3>1, <1>1
    <3> QED BY <3>2 DEF AllRecorded
  <2>2. CASE i.identity # 0
    BY <2>2, <1>1, <1>2 DEF TextInv, AllRecorded
  <2> QED BY <2>1, <2>2
<1>14. \A k \in DOMAIN s : Vm(s, k) => s[k].from \in 1 .. last + 1
  BY DEF TextInv, Nested, last
<1>7. Nested(t, p)
  <2>1. \A k \in DOMAIN t : Vm(t, k) => t[k].from \in 1 .. last + 1
    BY <1>1, <1>2, <1>0, <1>14
  <2>2. \A k, m \in DOMAIN t : Vm(t, k) /\ Vm(t, m) /\ k < m => t[k].from <= t[m].from
    <3> SUFFICES ASSUME NEW k \in DOMAIN t, NEW m \in DOMAIN t, Vm(t, k), Vm(t, m), k < m
                 PROVE  t[k].from <= t[m].from
      OBVIOUS
    <3>1. CASE m = n
      BY <3>1, <2>1, <1>0, <1>2
    <3>2. CASE m \in DOMAIN s
      <4>1. k \in DOMAIN s
        BY <3>2, <1>1, <1>2
      <4> QED BY <4>1, <3>2, <1>1, <1>2 DEF TextInv, Nested
    <3> QED BY <3>1, <3>2, <1>1
  <2>3. \A k \in DOMAIN t : Vm(t, k) => \A x \in t[k].from .. last : p[x] >= DepthAt(t, k)
    BY <1>1, <1>2, <1>0 DEF TextInv, Nested, last
  <2> QED BY <2>1, <2>2, <2>3 DEF Nested, last
<1>8. Transcribed(t, j, p)
  <2>0. \A x : IsText(j, x) <=> IsText(i, x)
    BY DEF IsText
  <2>1. BeginsWithin(t, j)
    <3>1. size \in 0 .. size
      BY <1>17
    <3>2. \A m, k \in DOMAIN s : s[m].owner /\ Vm(s, k) /\ m <= k => s[k].begin \in 0 .. size
      BY DEF TextInv, Transcribed, BeginsWithin, size
    <3>3. \A m, k \in DOMAIN t : t[m].owner /\ Vm(t, k) /\ m <= k => t[k].begin \in 0 .. size
      <4> SUFFICES ASSUME NEW m \in DOMAIN t, NEW k \in DOMAIN t, t[m].owner, Vm(t, k), m <= k
                   PROVE  t[k].begin \in 0 .. size
        OBVIOUS
      <4>1. CASE k = n
        BY <4>1, <3>1, <1>2, <1>17
      <4>2. CASE k \in DOMAIN s
        <5>1. m \in DOMAIN s
          BY <4>2, <1>1, <1>2
        <5> QED BY <5>1, <4>2, <3>2, <1>1, <1>2
      <4> QED BY <4>1, <4>2, <1>1
    <3> QED BY <3>3 DEF BeginsWithin, size
  <2>2. TextsKnown(j, p)
    BY <2>0 DEF TextInv, Transcribed, TextsKnown
  <2>3. TextsSorted(j)
    BY <2>0 DEF TextInv, Transcribed, TextsSorted
  <2>4. TextsComplete(t, j, p)
    <3>1. \A m \in DOMAIN s : s[m].owner =>
            \A x \in s[m].from .. last : \E y \in DOMAIN events : IsText(i, y) /\ events[y].text = x
      BY DEF TextInv, Transcribed, TextsComplete, last, events
    <3>2. \A m \in DOMAIN t : t[m].owner =>
            \A x \in t[m].from .. last : \E y \in DOMAIN events : IsText(i, y) /\ events[y].text = x
      BY <3>1, <1>1, <1>2, <1>0
    <3> QED BY <3>2, <2>0 DEF TextsComplete, last, events
  <2>5. TextsSplit(t, j)
    <3>1. \A m, k \in DOMAIN s : s[m].owner /\ Vm(s, k) /\ m <= k =>
            \A x \in DOMAIN events : IsText(i, x) => (x > s[k].begin <=> events[x].text >= s[k].from)
      BY DEF TextInv, Transcribed, TextsSplit, events
    <3>2. \A x \in DOMAIN events : IsText(i, x) => events[x].text \in 1 .. last
      BY DEF TextInv, Transcribed, TextsKnown, events, last
    <3>3. \A x \in DOMAIN events : IsText(i, x) => (x > f.begin <=> events[x].text >= f.from)
      BY <3>2, <1>17, <1>0
    <3>4. \A m, k \in DOMAIN t : t[m].owner /\ Vm(t, k) /\ m <= k =>
            \A x \in DOMAIN events : IsText(i, x) => (x > t[k].begin <=> events[x].text >= t[k].from)
      <4> SUFFICES ASSUME NEW m \in DOMAIN t, NEW k \in DOMAIN t, t[m].owner, Vm(t, k), m <= k
                   PROVE  \A x \in DOMAIN events : IsText(i, x) => (x > t[k].begin <=> events[x].text >= t[k].from)
        OBVIOUS
      <4>1. CASE k = n
        BY <4>1, <3>3, <1>2
      <4>2. CASE k \in DOMAIN s
        <5>1. m \in DOMAIN s
          BY <4>2, <1>1, <1>2
        <5>2. s[m].owner /\ Vm(s, k) /\ t[k] = s[k]
          BY <5>1, <4>2, <1>1, <1>2
        <5> QED BY <5>1, <5>2, <4>2, <3>1
      <4> QED BY <4>1, <4>2, <1>1
    <3> QED BY <3>4, <2>0 DEF TextsSplit, events
  <2> QED BY <2>1, <2>2, <2>3, <2>4, <2>5 DEF Transcribed
<1>9. Collected(t, p)
  <2>1. OutputsSorted(t)
    BY <1>1, <1>2 DEF TextInv, Collected, OutputsSorted, Sorted
  <2>6. \A k \in DOMAIN s : Sink(s, k) => \A x \in DOMAIN s[k].output : s[k].output[x].text \in 1 .. last
    BY DEF TextInv, Collected, OutputsKnown, last
  <2>2. OutputsKnown(t, p)
    BY <1>1, <1>2 DEF TextInv, Collected, OutputsKnown
  <2>3. OutputsApart(t)
    BY <1>1, <1>2 DEF TextInv, Collected, OutputsApart
  <2>4. OutputsSplit(t)
    <3> SUFFICES ASSUME NEW k \in DOMAIN t, NEW m \in DOMAIN t, Vm(t, m), Sink(t, k), NEW x \in DOMAIN t[k].output
                 PROVE  t[k].output[x].text < t[m].from <=> k < m
      BY DEF OutputsSplit
    <3>1. k \in DOMAIN s /\ t[k] = s[k] /\ Sink(s, k)
      BY <1>1, <1>2
    <3>2. CASE m = n
      BY <3>1, <3>2, <2>6, <1>0, <1>1, <1>2
    <3>3. CASE m \in DOMAIN s
      BY <3>1, <3>3, <1>1, <1>2 DEF TextInv, Collected, OutputsSplit
    <3> QED BY <3>2, <3>3, <1>1
  <2>5. OutputsComplete(t, p)
    <3> SUFFICES ASSUME NEW k \in DOMAIN t, Vm(t, k), NEW x \in t[k].from .. last, p[x] = DepthAt(t, k),
                        \A m \in DOMAIN t : Vm(t, m) /\ k < m => x < t[m].from
                 PROVE  \E m \in DOMAIN t : Segment(t, k, m) /\ Holds(t, m, x)
      BY DEF OutputsComplete, last
    <3>1. k \in DOMAIN s /\ Vm(s, k) /\ x \in s[k].from .. last /\ p[x] = DepthAt(s, k)
      BY <1>1, <1>2, <1>0
    <3>2. \A m \in DOMAIN s : Vm(s, m) /\ k < m => x < s[m].from
      BY <1>1, <1>2
    <3>3. PICK m \in DOMAIN s : Segment(s, k, m) /\ Holds(s, m, x)
      BY <3>1, <3>2 DEF TextInv, Collected, OutputsComplete, last
    <3> QED BY <3>1, <3>3, <1>1, <1>2 DEF Holds
  <2> QED BY <2>1, <2>2, <2>3, <2>4, <2>5 DEF Collected
<1> QED BY <1>4, <1>5, <1>6, <1>7, <1>8, <1>9 DEF TextInv

-----------------------------------------------------------------------------
(* Output goes to the innermost frame that collects it.                     *)
TopSink(s, x) == Sink(s, x) /\ \A k \in DOMAIN s : Sink(s, k) => k <= x

ShapeInv(s, j, p) == Stacked(s) /\ Owned(s, j) /\ Nested(s, p) /\ Transcribed(s, j, p)

SameShape(s, t) ==
  /\ DOMAIN s = DOMAIN t
  /\ \A k \in DOMAIN s : /\ s[k].kind = t[k].kind /\ s[k].capture = t[k].capture
                         /\ s[k].owner = t[k].owner /\ s[k].begin = t[k].begin /\ s[k].from = t[k].from

(* The output o is added to that of frame x.                                *)
Poured(s, t, x, o) ==
  /\ SameShape(s, t)
  /\ \A k \in DOMAIN s : k # x => t[k].output = s[k].output
  /\ t[x].output = s[x].output \o o

(* The output comes after everything held, and is of the frame's depth.     *)
Later(s, o) ==
  \A k \in DOMAIN s : Sink(s, k) =>
    \A l \in DOMAIN s[k].output, i \in DOMAIN o : s[k].output[l].text < o[i].text

Fits(s, x, o, q) ==
  /\ Sorted(o) /\ Later(s, o)
  /\ \A i \in DOMAIN o : o[i].text \in 1 .. Len(q) /\ q[o[i].text] = DepthAt(s, x)
  /\ \A k \in DOMAIN s : Vm(s, k) => \A i \in DOMAIN o : o[i].text \in Int /\ s[k].from <= o[i].text

(* Text y is one that machine k or a callback of it must hold: with o in    *)
(* frame x, one does.                                                       *)
Open(s, k, y, q) ==
  /\ Vm(s, k) /\ y \in s[k].from .. Len(q) /\ q[y] = DepthAt(s, k)
  /\ \A m \in DOMAIN s : Vm(s, m) /\ k < m => y < s[m].from

Fills(s, x, o, q) ==
  \A k \in DOMAIN s : \A y : Open(s, k, y, q) =>
    \/ \E m \in DOMAIN s : Segment(s, k, m) /\ Holds(s, m, y)
    \/ Segment(s, k, x) /\ \E i \in DOMAIN o : o[i].text = y

LEMMA Joined ==
  ASSUME NEW E, NEW a \in Seq(E), NEW b \in Seq(E)
  PROVE  /\ a \o b \in Seq(E)
         /\ \A i \in DOMAIN a : i \in DOMAIN (a \o b) /\ (a \o b)[i] = a[i]
         /\ \A k \in DOMAIN b : Len(a) + k \in DOMAIN (a \o b) /\ (a \o b)[Len(a) + k] = b[k]
         /\ \A i \in DOMAIN (a \o b) : i \in DOMAIN a \/ \E k \in DOMAIN b : i = Len(a) + k
<1> DEFINE m == Len(a)
           n == Len(b)
           c == a \o b
<1>1. /\ m \in Nat /\ n \in Nat /\ DOMAIN a = 1 .. m /\ DOMAIN b = 1 .. n /\ DOMAIN c = 1 .. m + n
      /\ c \in Seq(E)
      /\ \A i \in 1 .. m : c[i] = a[i]
      /\ \A k \in 1 .. n : c[m + k] = b[k]
  OBVIOUS
<1> HIDE DEF m, n, c
<1>2. \A i \in 1 .. m + n : i \in 1 .. m \/ \E k \in 1 .. n : i = m + k
  <2> TAKE i \in 1 .. m + n
  <2>1. CASE i <= m
    BY <2>1, <1>1
  <2>2. CASE i > m
    <3>1. i - m \in 1 .. n /\ i = m + (i - m)
      BY <2>2, <1>1
    <3> QED BY <3>1
  <2> QED BY <2>1, <2>2, <1>1
<1>3. \A k \in 1 .. n : m + k \in 1 .. m + n
  BY <1>1
<1>4. \A i \in 1 .. m : i \in 1 .. m + n
  BY <1>1
<1> QED BY <1>1, <1>2, <1>3, <1>4 DEF m, n, c

LEMMA SortedJoined ==
  ASSUME NEW a \in Seq(Outputs), NEW b \in Seq(Outputs), Sorted(a), Sorted(b),
         \A i \in DOMAIN a, k \in DOMAIN b : a[i].text < b[k].text
  PROVE  Sorted(a \o b)
<1> DEFINE c == a \o b
           m == Len(a)
<1>1. /\ \A i \in DOMAIN a : i \in DOMAIN c /\ c[i] = a[i]
      /\ \A k \in DOMAIN b : m + k \in DOMAIN c /\ c[m + k] = b[k]
      /\ \A i \in DOMAIN c : i \in DOMAIN a \/ \E k \in DOMAIN b : i = m + k
  BY Joined
<1>2. m \in Nat /\ DOMAIN a = 1 .. m /\ \A k \in DOMAIN b : k \in Nat /\ k >= 1
  OBVIOUS
<1> HIDE DEF c, m
<1> SUFFICES ASSUME NEW i \in DOMAIN c, NEW k \in DOMAIN c, i < k PROVE c[i].text < c[k].text
  BY DEF Sorted, c
<1>3. CASE k \in DOMAIN a
  <2>1. i \in DOMAIN a
    BY <1>1, <1>2, <1>3
  <2> QED BY <2>1, <1>1, <1>3 DEF Sorted
<1>4. CASE k \notin DOMAIN a
  <2>1. PICK l \in DOMAIN b : k = m + l
    BY <1>1, <1>4
  <2>2. CASE i \in DOMAIN a
    BY <2>1, <2>2, <1>1
  <2>3. CASE i \notin DOMAIN a
    <3>1. PICK h \in DOMAIN b : i = m + h
      BY <1>1, <2>3
    <3>2. h < l
      BY <3>1, <2>1, <1>2
    <3> QED BY <3>1, <3>2, <2>1, <1>1 DEF Sorted
  <2> QED BY <2>2, <2>3
<1> QED BY <1>3, <1>4

LEMMA ShapeIsEnough ==
  ASSUME NEW s \in Seq(FrameRecords), NEW t \in Seq(FrameRecords), SameShape(s, t)
  PROVE  /\ \A k : (Vm(s, k) <=> Vm(t, k)) /\ (Callback(s, k) <=> Callback(t, k)) /\ (Sink(s, k) <=> Sink(t, k))
         /\ \A k \in DOMAIN s : DepthAt(s, k) = DepthAt(t, k)
         /\ \A k, m : Segment(s, k, m) <=> Segment(t, k, m)
         /\ \A j, p : ShapeInv(s, j, p) => ShapeInv(t, j, p)
<1>1. \A k : (Vm(s, k) <=> Vm(t, k)) /\ (Callback(s, k) <=> Callback(t, k))
  BY DEF Vm, Callback, SameShape
<1>2. \A k : Sink(s, k) <=> Sink(t, k)
  BY <1>1 DEF Sink
<1>3. \A k \in DOMAIN s : DepthAt(s, k) = DepthAt(t, k)
  <2> TAKE k \in DOMAIN s
  <2>1. k \in Nat /\ \A i \in 1 .. k : i \in DOMAIN s
    OBVIOUS
  <2>2. \A i \in 1 .. k : s[i].capture = t[i].capture
    BY <2>1 DEF SameShape
  <2> QED BY <2>1, <2>2, DepthSame
<1>4. \A k, m : Segment(s, k, m) <=> Segment(t, k, m)
  BY <1>1, <1>2 DEF Segment
<1>5. ASSUME NEW j, NEW p, ShapeInv(s, j, p) PROVE ShapeInv(t, j, p)
  <2>1. /\ DOMAIN s = DOMAIN t
        /\ \A k \in DOMAIN s : /\ s[k].kind = t[k].kind /\ s[k].capture = t[k].capture
                               /\ s[k].owner = t[k].owner /\ s[k].begin = t[k].begin /\ s[k].from = t[k].from
    BY DEF SameShape
  <2>2. Stacked(t)
    <3>1. Stacked(s) /\ 1 \in DOMAIN s
      BY <1>5 DEF ShapeInv, Stacked, Vm
    <3> QED BY <3>1, <2>1, <1>1 DEF Stacked
  <2>3. Owned(t, j)
    <3>1. Owned(s, j)
      BY <1>5 DEF ShapeInv
    <3>2. \A k \in DOMAIN s : 1 .. k \subseteq DOMAIN s /\ 1 .. k - 1 \subseteq DOMAIN s
      OBVIOUS
    <3>3. j.identity # 0 <=> \E k \in DOMAIN t : t[k].owner
      BY <3>1, <2>1 DEF Owned
    <3>4. \A k \in DOMAIN t : k > 1 /\ Vm(t, k) => \E m \in 1 .. k : t[m].owner
      BY <3>1, <3>2, <2>1, <1>1 DEF Owned
    <3>5. \A k \in DOMAIN t : Callback(t, k) => \E m \in 1 .. k - 1 : t[m].owner
      BY <3>1, <3>2, <2>1, <1>1 DEF Owned
    <3>6. \A k, m \in DOMAIN t : t[k].owner /\ t[m].owner => k = m
      BY <3>1, <2>1 DEF Owned
    <3> QED BY <3>1, <3>3, <3>4, <3>5, <3>6 DEF Owned
  <2>4. Nested(t, p)
    BY <1>5, <2>1, <1>1, <1>3 DEF ShapeInv, Nested
  <2>5. Transcribed(t, j, p)
    BY <1>5, <2>1, <1>1 DEF ShapeInv, Transcribed, BeginsWithin, TextsComplete, TextsSplit
  <2> QED BY <2>2, <2>3, <2>4, <2>5 DEF ShapeInv
<1> QED BY <1>1, <1>2, <1>3, <1>4, <1>5

(* Output that fits and fills the gap keeps the invariant.                  *)
LEMMA OutputPoured ==
  ASSUME NEW s \in Seq(FrameRecords), NEW t \in Seq(FrameRecords), NEW x, NEW o \in Seq(Outputs),
         NEW j, NEW q, Poured(s, t, x, o), TopSink(s, x), ShapeInv(s, j, q), AllRecorded(s, j),
         Callback(s, x) => \A i \in DOMAIN o : Recorded(o[i], j),
         OutputsSorted(s), OutputsKnown(s, q), OutputsApart(s), OutputsSplit(s),
         Fits(s, x, o, q), Fills(s, x, o, q)
  PROVE  TextInv(t, j, q)
<1>1. /\ \A k : (Vm(s, k) <=> Vm(t, k)) /\ (Callback(s, k) <=> Callback(t, k)) /\ (Sink(s, k) <=> Sink(t, k))
      /\ \A k \in DOMAIN s : DepthAt(s, k) = DepthAt(t, k)
      /\ \A k, m : Segment(s, k, m) <=> Segment(t, k, m)
      /\ ShapeInv(t, j, q)
  BY ShapeIsEnough DEF Poured
<1>2. /\ DOMAIN s = DOMAIN t /\ x \in DOMAIN s
      /\ \A k \in DOMAIN s : k # x => t[k].output = s[k].output
      /\ \A k \in DOMAIN s : s[k].from = t[k].from
  BY DEF Poured, SameShape, TopSink, Sink, Vm, Callback
<1> DEFINE a == s[x].output
           b == t[x].output
           h == Len(a)
<1>3. a \in Seq(Outputs) /\ b = a \o o
  <2>1. s[x] \in FrameRecords
    BY <1>2
  <2>2. a \in Seq(Outputs)
    BY <2>1 DEF FrameRecords
  <2> QED BY <2>2 DEF Poured
<1> HIDE DEF a, b
<1>4. /\ \A i \in DOMAIN a : i \in DOMAIN b /\ b[i] = a[i]
      /\ \A k \in DOMAIN o : h + k \in DOMAIN b /\ b[h + k] = o[k]
      /\ \A i \in DOMAIN b : i \in DOMAIN a \/ \E k \in DOMAIN o : i = h + k
  BY <1>3, Joined
<1> HIDE DEF h
<1>20. \A k, m \in DOMAIN s : k \in Nat /\ m \in Nat
  OBVIOUS
<1>5. \A i \in DOMAIN b : (i \in DOMAIN a /\ b[i] = a[i]) \/ \E k \in DOMAIN o : b[i] = o[k]
  BY <1>4
<1>6. AllRecorded(t, j)
  <2> SUFFICES ASSUME NEW k \in DOMAIN t, Callback(t, k), NEW i \in DOMAIN t[k].output
               PROVE  Recorded(t[k].output[i], j)
    BY DEF AllRecorded
  <2>1. CASE k # x
    BY <2>1, <1>1, <1>2 DEF AllRecorded
  <2>2. CASE k = x
    <3>1. Callback(s, x) /\ i \in DOMAIN b
      BY <2>2, <1>1 DEF b
    <3>2. \A l \in DOMAIN a : Recorded(a[l], j)
      BY <3>1, <1>2 DEF AllRecorded, a
    <3>3. Recorded(b[i], j)
      BY <3>1, <3>2, <1>5
    <3> QED BY <3>3, <2>2 DEF b
  <2> QED BY <2>1, <2>2
<1>7. OutputsSorted(t)
  <2>1. Sorted(a) /\ Sorted(o)
    BY <1>2 DEF OutputsSorted, TopSink, Fits, a
  <2>2. \A i \in DOMAIN a, k \in DOMAIN o : a[i].text < o[k].text
    BY <1>2 DEF Fits, Later, TopSink, a
  <2>3. Sorted(b)
    BY <2>1, <2>2, <1>3, SortedJoined
  <2>4. \A k \in DOMAIN s : k # x /\ Sink(s, k) => Sorted(t[k].output)
    BY <1>2 DEF OutputsSorted
  <2> QED BY <2>3, <2>4, <1>1, <1>2 DEF OutputsSorted, b
<1>8. OutputsKnown(t, q)
  <2> SUFFICES ASSUME NEW k \in DOMAIN t, Sink(t, k), NEW i \in DOMAIN t[k].output
               PROVE  t[k].output[i].text \in 1 .. Len(q) /\ q[t[k].output[i].text] = DepthAt(t, k)
    BY DEF OutputsKnown
  <2>1. CASE k # x
    BY <2>1, <1>1, <1>2 DEF OutputsKnown
  <2>2. CASE k = x
    <3>1. i \in DOMAIN b
      BY <2>2 DEF b
    <3>2. \A l \in DOMAIN a : a[l].text \in 1 .. Len(q) /\ q[a[l].text] = DepthAt(s, x)
      BY <1>2 DEF OutputsKnown, TopSink, a
    <3>3. \A l \in DOMAIN o : o[l].text \in 1 .. Len(q) /\ q[o[l].text] = DepthAt(s, x)
      BY DEF Fits
    <3>4. b[i].text \in 1 .. Len(q) /\ q[b[i].text] = DepthAt(s, x)
      BY <3>1, <3>2, <3>3, <1>5
    <3> QED BY <3>4, <2>2, <1>1, <1>2 DEF b
  <2> QED BY <2>1, <2>2
<1>9. OutputsApart(t)
  <2> SUFFICES ASSUME NEW k \in DOMAIN t, NEW m \in DOMAIN t, Sink(t, k), Sink(t, m), k < m,
                      NEW i \in DOMAIN t[k].output, NEW l \in DOMAIN t[m].output
               PROVE  t[k].output[i].text < t[m].output[l].text
    BY DEF OutputsApart
  <2>1. k # x
    <3>1. m <= x /\ k \in Nat /\ m \in Nat /\ x \in Nat
      BY <1>1, <1>2, <1>20 DEF TopSink
    <3> QED BY <3>1
  <2>2. t[k].output = s[k].output /\ Sink(s, k) /\ Sink(s, m)
    BY <2>1, <1>1, <1>2
  <2>3. CASE m # x
    BY <2>2, <2>3, <1>2 DEF OutputsApart
  <2>4. CASE m = x
    <3>1. l \in DOMAIN b
      BY <2>4 DEF b
    <3>2. \A r \in DOMAIN a : s[k].output[i].text < a[r].text
      BY <2>2, <2>4, <1>2 DEF OutputsApart, a
    <3>3. \A r \in DOMAIN o : s[k].output[i].text < o[r].text
      BY <2>2, <1>2 DEF Fits, Later
    <3>4. s[k].output[i].text < b[l].text
      BY <3>1, <3>2, <3>3, <1>5
    <3> QED BY <3>4, <2>2, <2>4 DEF b
  <2> QED BY <2>3, <2>4
<1>10. OutputsSplit(t)
  <2> SUFFICES ASSUME NEW k \in DOMAIN t, NEW m \in DOMAIN t, Vm(t, m), Sink(t, k), NEW i \in DOMAIN t[k].output
               PROVE  t[k].output[i].text < t[m].from <=> k < m
    BY DEF OutputsSplit
  <2>1. CASE k # x
    BY <2>1, <1>1, <1>2 DEF OutputsSplit
  <2>2. CASE k = x
    <3>1. i \in DOMAIN b /\ Vm(s, m) /\ m \in DOMAIN s
      BY <2>2, <1>1, <1>2 DEF b
    <3>2. CASE i \in DOMAIN a /\ b[i] = a[i]
      <4>1. a[i].text < s[m].from <=> k < m
        BY <3>1, <3>2, <2>2, <1>2 DEF OutputsSplit, TopSink, a
      <4> QED BY <4>1, <3>1, <3>2, <2>2, <1>2 DEF b
    <3>3. CASE \E r \in DOMAIN o : b[i] = o[r]
      <4>1. PICK r \in DOMAIN o : b[i] = o[r]
        BY <3>3
      <4>2. o[r].text \in Int /\ s[m].from <= o[r].text
        BY <4>1, <3>1 DEF Fits
      <4>3. m <= x /\ s[m].from \in Int /\ x \in Nat /\ m \in Nat
        <5>1. s[m] \in FrameRecords /\ m \in Nat /\ x \in Nat
          BY <3>1, <1>2, <1>20
        <5>2. s[m].from \in Nat
          BY <5>1 DEF FrameRecords
        <5>3. m <= x
          BY <3>1 DEF TopSink, Sink
        <5> QED BY <5>1, <5>2, <5>3
      <4> QED BY <4>1, <4>2, <4>3, <3>1, <2>2, <1>2 DEF b
    <3> QED BY <3>1, <3>2, <3>3, <1>5
  <2> QED BY <2>1, <2>2
<1>11. OutputsComplete(t, q)
  <2> SUFFICES ASSUME NEW k \in DOMAIN t, Vm(t, k), NEW y \in t[k].from .. Len(q), q[y] = DepthAt(t, k),
                      \A m \in DOMAIN t : Vm(t, m) /\ k < m => y < t[m].from
               PROVE  \E m \in DOMAIN t : Segment(t, k, m) /\ Holds(t, m, y)
    BY DEF OutputsComplete
  <2>1. k \in DOMAIN s /\ Open(s, k, y, q)
    BY <1>1, <1>2 DEF Open
  <2>2. CASE \E m \in DOMAIN s : Segment(s, k, m) /\ Holds(s, m, y)
    <3>1. PICK m \in DOMAIN s : Segment(s, k, m) /\ Holds(s, m, y)
      BY <2>2
    <3>2. CASE m # x
      BY <3>1, <3>2, <1>1, <1>2 DEF Holds
    <3>3. CASE m = x
      <4>1. PICK i \in DOMAIN a : a[i].text = y
        BY <3>1, <3>3 DEF Holds, a
      <4>2. i \in DOMAIN b /\ b[i].text = y
        BY <4>1, <1>4
      <4> QED BY <4>2, <3>1, <3>3, <1>1, <1>2 DEF Holds, b
    <3> QED BY <3>2, <3>3
  <2>3. CASE Segment(s, k, x) /\ \E i \in DOMAIN o : o[i].text = y
    <3>1. PICK i \in DOMAIN o : o[i].text = y
      BY <2>3
    <3>2. h + i \in DOMAIN b /\ b[h + i].text = y
      BY <3>1, <1>4
    <3> QED BY <3>2, <2>3, <1>1, <1>2 DEF Holds, b
  <2> QED BY <2>1, <2>2, <2>3 DEF Fills
<1> QED BY <1>1, <1>6, <1>7, <1>8, <1>9, <1>10, <1>11 DEF TextInv, ShapeInv, Collected

LEMMA TopSinkDepth ==
  ASSUME NEW s \in Seq(FrameRecords), NEW x, TopSink(s, x), Stacked(s)
  PROVE  DepthAt(s, Len(s)) = DepthAt(s, x)
<1>1. Len(s) \in Nat /\ DOMAIN s = 1 .. Len(s) /\ x \in 1 .. Len(s)
  BY DEF TopSink, Sink, Vm, Callback
<1>2. \A i \in 1 .. Len(s) : i \in 1 .. x \/ ~s[i].capture
  <2> SUFFICES ASSUME NEW i \in 1 .. Len(s), s[i].capture PROVE i \in 1 .. x
    OBVIOUS
  <2>1. Sink(s, i)
    BY <1>1 DEF Stacked, Sink, Vm
  <2> QED BY <2>1, <1>1 DEF TopSink
<1>3. \A i \in 1 .. x : i \in 1 .. Len(s)
  BY <1>1
<1> QED BY <1>1, <1>2, <1>3, DepthSame

(* The text printed last.                                                   *)
Printed(p, q, d) ==
  /\ Len(p) \in Nat /\ Len(q) = Len(p) + 1
  /\ \A y \in 1 .. Len(p) : q[y] = p[y]
  /\ q[Len(p) + 1] = d

TextAdded(i, j, text, depth) ==
  /\ j.identity = i.identity
  /\ DOMAIN i.events = 1 .. Len(i.events) /\ Len(i.events) \in Nat
  /\ i.identity = 0 => j.events = i.events
  /\ i.identity # 0 =>
       /\ DOMAIN j.events = 1 .. Len(i.events) + 1 /\ Len(j.events) = Len(i.events) + 1
       /\ \A k \in DOMAIN i.events : j.events[k] = i.events[k]
       /\ j.events[Len(i.events) + 1].kind = "text"
       /\ j.events[Len(i.events) + 1].text = text
       /\ j.events[Len(i.events) + 1].depth = depth

LEMMA ShapeAfterText ==
  ASSUME NEW s \in Seq(FrameRecords), NEW i, NEW j, NEW p, NEW q, ShapeInv(s, i, p),
         Printed(p, q, DepthAt(s, Len(s))), TextAdded(i, j, Len(p) + 1, DepthAt(s, Len(s)))
  PROVE  ShapeInv(s, j, q)
<1> DEFINE new == Len(p) + 1
           d == DepthAt(s, Len(s))
           c == Len(i.events) + 1
<1>1. /\ new \in Nat /\ Len(p) = new - 1 /\ Len(q) = new /\ q[new] = d
      /\ \A y \in 1 .. new - 1 : q[y] = p[y]
  BY DEF Printed
<1>2. /\ j.identity = i.identity /\ DOMAIN i.events = 1 .. c - 1 /\ c \in Nat /\ c >= 1
      /\ Len(i.events) = c - 1
      /\ i.identity = 0 => j.events = i.events
      /\ i.identity # 0 =>
           /\ DOMAIN j.events = 1 .. c /\ Len(j.events) = c
           /\ \A k \in DOMAIN i.events : j.events[k] = i.events[k]
           /\ j.events[c].kind = "text" /\ j.events[c].text = new /\ j.events[c].depth = d
  BY DEF TextAdded
<1> HIDE DEF new, d, c
<1>3. Stacked(s) /\ Owned(s, i) /\ Nested(s, p) /\ Transcribed(s, i, p)
  BY DEF ShapeInv
<1>4. \A k \in DOMAIN s : DepthAt(s, k) <= d
  <2> TAKE k \in DOMAIN s
  <2>1. k \in Nat /\ Len(s) \in Nat /\ k <= Len(s)
    OBVIOUS
  <2> QED BY <2>1, DepthMonotonic DEF d
<1>5. \A k \in DOMAIN s : Vm(s, k) => s[k].from \in 1 .. new
  BY <1>1, <1>3 DEF Nested
<1>6. \A n \in 1 .. new : \A y \in n .. new : y = new \/ (y \in n .. new - 1 /\ y \in 1 .. new - 1)
  BY <1>1
<1>7. Owned(s, j)
  BY <1>2, <1>3 DEF Owned
<1>8. Nested(s, q)
  <2>1. \A k \in DOMAIN s : Vm(s, k) => s[k].from \in 1 .. new + 1
    BY <1>1, <1>5
  <2>2. \A k \in DOMAIN s : Vm(s, k) => \A y \in s[k].from .. new - 1 : p[y] >= DepthAt(s, k)
    BY <1>1, <1>3 DEF Nested
  <2>3. ASSUME NEW k \in DOMAIN s, Vm(s, k), NEW y \in s[k].from .. new PROVE q[y] >= DepthAt(s, k)
    <3>1. CASE y = new
      <4>1. d \in Nat /\ DepthAt(s, k) \in Nat
        <5>1. k \in Nat /\ Len(s) \in Nat
          OBVIOUS
        <5> QED BY <5>1, DepthIsNat DEF d
      <4> QED BY <4>1, <3>1, <1>1, <1>4
    <3>2. CASE y # new
      <4>1. y \in s[k].from .. new - 1 /\ y \in 1 .. new - 1
        BY <3>2, <1>5, <1>6, <2>3
      <4> QED BY <4>1, <2>2, <2>3, <1>1
    <3> QED BY <3>1, <3>2
  <2>4. \A k, m \in DOMAIN s : Vm(s, k) /\ Vm(s, m) /\ k < m => s[k].from <= s[m].from
    BY <1>3 DEF Nested
  <2> QED BY <2>1, <2>3, <2>4, <1>1 DEF Nested
<1>9. Transcribed(s, j, q)
  <2>1. CASE i.identity = 0
    <3>1. i.events = <<>> /\ j.events = <<>>
      BY <2>1, <1>2, <1>3 DEF Owned
    <3>2. DOMAIN j.events = {}
      BY <3>1
    <3>3. \A m \in DOMAIN s : ~s[m].owner
      BY <2>1, <1>3 DEF Owned
    <3> QED BY <3>2, <3>3
         DEF Transcribed, BeginsWithin, TextsKnown, TextsSorted, TextsComplete, TextsSplit, IsText
  <2>2. CASE i.identity # 0
    <3>0. /\ DOMAIN j.events = 1 .. c /\ Len(j.events) = c
          /\ \A k \in DOMAIN i.events : j.events[k] = i.events[k]
          /\ j.events[c].kind = "text" /\ j.events[c].text = new /\ j.events[c].depth = d
      BY <2>2, <1>2
    <3>1. /\ \A k \in DOMAIN j.events : k \in DOMAIN i.events \/ k = c
          /\ \A k \in DOMAIN i.events : k \in DOMAIN j.events /\ k < c /\ k # c
          /\ c \in DOMAIN j.events
      BY <3>0, <1>2
    <3>2. \A k \in DOMAIN i.events : IsText(j, k) <=> IsText(i, k)
      BY <3>0, <3>1 DEF IsText
    <3>3. \A k \in DOMAIN i.events : IsText(i, k) => i.events[k].text \in 1 .. new - 1
      BY <1>1, <1>3 DEF Transcribed, TextsKnown
    <3>4. TextsKnown(j, q)
      <4> SUFFICES ASSUME NEW k \in DOMAIN j.events, IsText(j, k)
                   PROVE  j.events[k].text \in 1 .. new /\ j.events[k].depth = q[j.events[k].text]
        BY <1>1 DEF TextsKnown
      <4>1. CASE k = c
        <5>1. new \in 1 .. new
          BY <1>1, <1>3, <1>5 DEF Stacked
        <5> QED BY <5>1, <4>1, <3>0, <1>1
      <4>2. CASE k \in DOMAIN i.events
        <5>1. i.events[k].text \in 1 .. new - 1 /\ i.events[k].depth = p[i.events[k].text]
          BY <4>2, <3>2, <3>3, <1>3 DEF Transcribed, TextsKnown
        <5>2. i.events[k].text \in 1 .. new
          BY <5>1, <1>1
        <5> QED BY <5>1, <5>2, <4>2, <3>0, <1>1
      <4> QED BY <4>1, <4>2, <3>1
    <3>5. TextsSorted(j)
      <4> SUFFICES ASSUME NEW k \in DOMAIN j.events, NEW l \in DOMAIN j.events, IsText(j, k), IsText(j, l), k < l
                   PROVE  j.events[k].text < j.events[l].text
        BY DEF TextsSorted
      <4>1. k \in DOMAIN i.events
        BY <3>0, <3>1, <1>2
      <4>2. CASE l = c
        BY <4>1, <4>2, <3>0, <3>2, <3>3, <1>1
      <4>3. CASE l \in DOMAIN i.events
        BY <4>1, <4>3, <3>0, <3>2, <1>3 DEF Transcribed, TextsSorted
      <4> QED BY <4>2, <4>3, <3>1
    <3>6. TextsComplete(s, j, q)
      <4> SUFFICES ASSUME NEW m \in DOMAIN s, s[m].owner, NEW y \in s[m].from .. new
                   PROVE  \E k \in DOMAIN j.events : IsText(j, k) /\ j.events[k].text = y
        BY <1>1 DEF TextsComplete
      <4>1. CASE y = new
        <5>1. IsText(j, c)
          BY <3>0, <3>1 DEF IsText
        <5> QED BY <5>1, <4>1, <3>0, <3>1
      <4>2. CASE y # new
        <5>1. Vm(s, m)
          BY <1>3 DEF Stacked, Vm
        <5>2. y \in s[m].from .. new - 1
          BY <5>1, <4>2, <1>5, <1>6
        <5>3. PICK k \in DOMAIN i.events : IsText(i, k) /\ i.events[k].text = y
          BY <5>2, <1>1, <1>3 DEF Transcribed, TextsComplete
        <5> QED BY <5>3, <3>0, <3>1, <3>2
      <4> QED BY <4>1, <4>2
    <3>7. \A m, k \in DOMAIN s : s[m].owner /\ Vm(s, k) /\ m <= k => s[k].begin \in 0 .. c - 1
      BY <1>2, <1>3 DEF Transcribed, BeginsWithin
    <3>8. BeginsWithin(s, j)
      <4>1. \A y \in 0 .. c - 1 : y \in 0 .. c
        BY <1>2
      <4> QED BY <4>1, <3>0, <3>7 DEF BeginsWithin
    <3>9. TextsSplit(s, j)
      <4> SUFFICES ASSUME NEW m \in DOMAIN s, NEW k \in DOMAIN s, s[m].owner, Vm(s, k), m <= k,
                          NEW l \in DOMAIN j.events, IsText(j, l)
                   PROVE  l > s[k].begin <=> j.events[l].text >= s[k].from
        BY DEF TextsSplit
      <4>1. CASE l = c
        <5>1. s[k].begin \in 0 .. c - 1 /\ s[k].from \in 1 .. new
          BY <3>7, <1>5
        <5> QED BY <5>1, <4>1, <3>0, <1>1, <1>2
      <4>2. CASE l \in DOMAIN i.events
        BY <4>2, <3>0, <3>2, <1>3 DEF Transcribed, TextsSplit
      <4> QED BY <4>1, <4>2, <3>1
    <3> QED BY <3>4, <3>5, <3>6, <3>8, <3>9 DEF Transcribed
  <2> QED BY <2>1, <2>2
<1> QED BY <1>3, <1>7, <1>8, <1>9 DEF ShapeInv

(* A text printed: recorded if there is a recorder, and held by the top.    *)
LEMMA TextPrinted ==
  ASSUME NEW s \in Seq(FrameRecords), NEW t \in Seq(FrameRecords), NEW x, NEW o \in Outputs,
         NEW i, NEW j, NEW p, NEW q, TextInv(s, i, p),
         TopSink(s, x), Poured(s, t, x, <<o>>), o.text = Len(p) + 1,
         Printed(p, q, DepthAt(s, Len(s))), TextAdded(i, j, Len(p) + 1, DepthAt(s, Len(s))),
         i.identity # 0 => o.stamp.identity = i.identity /\ o.stamp.sequence = Len(i.events) + 1
  PROVE  TextInv(t, j, q)
<1> DEFINE new == Len(p) + 1
           d == DepthAt(s, Len(s))
           outputs == <<o>>
<1>1. /\ new \in Nat /\ new >= 1 /\ Len(p) = new - 1 /\ Len(q) = new /\ q[new] = d
      /\ \A y \in 1 .. new - 1 : q[y] = p[y]
  BY DEF Printed
<1>2. outputs \in Seq(Outputs) /\ DOMAIN outputs = {1} /\ outputs[1] = o
  OBVIOUS
<1>3. ShapeInv(s, j, q)
  BY ShapeAfterText DEF TextInv, ShapeInv
<1>4. d = DepthAt(s, x)
  BY TopSinkDepth DEF TextInv
<1>5. Poured(s, t, x, outputs) /\ o.text = new
  OBVIOUS
<1> HIDE DEF new, d, outputs
<1>6. AllRecorded(s, j)
  <2>1. i.identity = 0 => j.events = i.events
    BY DEF TextAdded
  <2>2. j.identity = i.identity /\ DOMAIN i.events \subseteq DOMAIN j.events
    BY <2>1 DEF TextAdded
  <2> QED BY <2>2 DEF TextInv, AllRecorded, Recorded
<1>7. Callback(s, x) => \A k \in DOMAIN outputs : Recorded(outputs[k], j)
  <2> SUFFICES ASSUME Callback(s, x) PROVE Recorded(o, j)
    BY <1>2
  <2>1. i.identity # 0
    <3>1. x \in DOMAIN s /\ \A m \in 1 .. x - 1 : m \in DOMAIN s
      BY DEF Callback
    <3> QED BY <3>1 DEF TextInv, Owned
  <2> QED BY <2>1 DEF Recorded, TextAdded
<1>8. \A k \in DOMAIN s : Sink(s, k) =>
        \A l \in DOMAIN s[k].output : s[k].output[l].text \in 1 .. new - 1 /\ p[s[k].output[l].text] = DepthAt(s, k)
  BY <1>1 DEF TextInv, Collected, OutputsKnown
<1>9. OutputsKnown(s, q)
  <2>1. \A y \in 1 .. new - 1 : y \in 1 .. new
    BY <1>1
  <2> QED BY <1>1, <1>8, <2>1 DEF OutputsKnown
<1>14. \A k \in DOMAIN s : Vm(s, k) => s[k].from \in 1 .. new
  BY <1>1 DEF TextInv, Nested
<1>10. Fits(s, x, outputs, q)
  <2>1. Sorted(outputs)
    BY <1>2 DEF Sorted
  <2>2. Later(s, outputs)
    BY <1>1, <1>2, <1>5, <1>8 DEF Later
  <2>3. new \in 1 .. new
    BY <1>1
  <2>4. \A k \in DOMAIN outputs : outputs[k].text \in 1 .. Len(q) /\ q[outputs[k].text] = DepthAt(s, x)
    BY <2>3, <1>1, <1>2, <1>4, <1>5
  <2>5. \A k \in DOMAIN s : Vm(s, k) => \A l \in DOMAIN outputs : outputs[l].text \in Int /\ s[k].from <= outputs[l].text
    BY <1>1, <1>2, <1>5, <1>14
  <2> QED BY <2>1, <2>2, <2>4, <2>5 DEF Fits
<1>11. Fills(s, x, outputs, q)
  <2> SUFFICES ASSUME NEW k \in DOMAIN s, NEW y, Open(s, k, y, q)
               PROVE  \/ \E m \in DOMAIN s : Segment(s, k, m) /\ Holds(s, m, y)
                      \/ Segment(s, k, x) /\ \E l \in DOMAIN outputs : outputs[l].text = y
    BY DEF Fills
  <2>1. Vm(s, k) /\ y \in s[k].from .. new /\ q[y] = DepthAt(s, k)
        /\ \A m \in DOMAIN s : Vm(s, m) /\ k < m => y < s[m].from
    BY <1>1 DEF Open
  <2>2. CASE y = new
    <3>1. \A m \in DOMAIN s : Vm(s, m) => ~(k < m)
      BY <2>1, <2>2, <1>1, <1>14
    <3>2. k \in Nat /\ x \in Nat /\ k <= x /\ \A m \in k + 1 .. x : m \in DOMAIN s /\ k < m
      BY <2>1 DEF TopSink, Sink, Vm, Callback
    <3>3. Segment(s, k, x)
      BY <3>1, <3>2, <2>1 DEF Segment, TopSink
    <3> QED BY <3>3, <2>2, <1>2, <1>5
  <2>3. CASE y # new
    <3>1. y \in s[k].from .. new - 1 /\ y \in 1 .. new - 1
      BY <2>1, <2>3, <1>1, <1>14
    <3>2. p[y] = DepthAt(s, k)
      BY <3>1, <2>1, <1>1
    <3> QED BY <3>1, <3>2, <2>1, <1>1 DEF TextInv, Collected, OutputsComplete
  <2> QED BY <2>2, <2>3
<1> QED BY <1>2, <1>3, <1>5, <1>6, <1>7, <1>9, <1>10, <1>11, OutputPoured DEF TextInv, Collected

(* A frame is gone; what the recorder knows of it is settled elsewhere.     *)
LEMMA ShapeBelow ==
  ASSUME NEW s, NEW u, NEW f, OnTop(s, u, f), NEW j, NEW p, ShapeInv(u, j, p), ~f.owner, 1 \in DOMAIN s
  PROVE  ShapeInv(s, j, p)
<1> DEFINE n == Len(s) + 1
<1>1. /\ \A k \in DOMAIN s : k \in DOMAIN u /\ k # n /\ k < n /\ k \in Nat
      /\ \A k \in DOMAIN u : k \in DOMAIN s \/ k = n
      /\ \A k \in DOMAIN s : /\ Vm(u, k) <=> Vm(s, k)
                             /\ Callback(u, k) <=> Callback(s, k)
                             /\ Sink(u, k) <=> Sink(s, k)
      /\ \A k \in DOMAIN s : DepthAt(u, k) = DepthAt(s, k)
  BY OnTopFacts
<1>2. u[n] = f /\ (\A k \in DOMAIN s : u[k] = s[k]) /\ DOMAIN s = 1 .. n - 1 /\ n \in Nat
  BY DEF OnTop
<1> HIDE DEF n
<1>3. Stacked(u) /\ Owned(u, j) /\ Nested(u, p) /\ Transcribed(u, j, p)
  BY DEF ShapeInv
<1>4. \A k \in DOMAIN u : u[k].owner => k \in DOMAIN s /\ s[k].owner
  BY <1>1, <1>2
<1>5. \A k \in DOMAIN s : \A m \in 1 .. k : m \in DOMAIN s
  BY <1>2
<1>6. \A k \in DOMAIN s : \A m \in 1 .. k - 1 : m \in DOMAIN s
  BY <1>2
<1>9. \A k \in DOMAIN s : k \in DOMAIN u /\ u[k] = s[k]
  BY <1>1, <1>2
<1>10. Owned(s, j)
  <2>1. j.identity # 0 <=> \E k \in DOMAIN s : s[k].owner
    BY <1>3, <1>4, <1>9 DEF Owned
  <2>2. j.identity = 0 => j.events = <<>>
    BY <1>3 DEF Owned
  <2>3. \A k, m \in DOMAIN s : s[k].owner /\ s[m].owner => k = m
    BY <1>3, <1>9 DEF Owned
  <2>4. \A k \in DOMAIN s : k > 1 /\ Vm(s, k) => \E m \in 1 .. k : s[m].owner
    <3> SUFFICES ASSUME NEW k \in DOMAIN s, k > 1, Vm(s, k) PROVE \E m \in 1 .. k : s[m].owner
      OBVIOUS
    <3>1. PICK m \in 1 .. k : u[m].owner
      BY <1>1, <1>3 DEF Owned
    <3> QED BY <3>1, <1>5, <1>9
  <2>5. \A k \in DOMAIN s : Callback(s, k) => \E m \in 1 .. k - 1 : s[m].owner
    <3> SUFFICES ASSUME NEW k \in DOMAIN s, Callback(s, k) PROVE \E m \in 1 .. k - 1 : s[m].owner
      OBVIOUS
    <3>1. PICK m \in 1 .. k - 1 : u[m].owner
      BY <1>1, <1>3 DEF Owned
    <3> QED BY <3>1, <1>6, <1>9
  <2> QED BY <2>1, <2>2, <2>3, <2>4, <2>5 DEF Owned
<1>11. Stacked(s)
  BY <1>1, <1>3, <1>9 DEF Stacked
<1>12. Nested(s, p)
  BY <1>1, <1>3, <1>9 DEF Nested
<1>13. Transcribed(s, j, p)
  BY <1>1, <1>3, <1>9 DEF Transcribed, BeginsWithin, TextsComplete, TextsSplit
<1> QED BY <1>10, <1>11, <1>12, <1>13 DEF ShapeInv

LEMMA ShapeBelowOwner ==
  ASSUME NEW s, NEW u, NEW f, OnTop(s, u, f), NEW j, NEW p, ShapeInv(u, j, p), f.owner, 1 \in DOMAIN s,
         NEW e, e.identity = 0, e.events = <<>>
  PROVE  /\ ShapeInv(s, e, p)
         /\ \A k \in DOMAIN s : ~s[k].owner /\ ~Callback(s, k)
<1> DEFINE n == Len(s) + 1
<1>1. /\ \A k \in DOMAIN s : k \in DOMAIN u /\ k # n /\ k < n /\ k \in Nat
      /\ \A k \in DOMAIN s : /\ Vm(u, k) <=> Vm(s, k)
                             /\ Callback(u, k) <=> Callback(s, k)
      /\ \A k \in DOMAIN s : DepthAt(u, k) = DepthAt(s, k)
      /\ n \in DOMAIN u
  BY OnTopFacts
<1>2. u[n] = f /\ (\A k \in DOMAIN s : u[k] = s[k]) /\ DOMAIN s = 1 .. n - 1 /\ n \in Nat
  BY DEF OnTop
<1> HIDE DEF n
<1>3. Stacked(u) /\ Owned(u, j) /\ Nested(u, p)
  BY DEF ShapeInv
<1>9. \A k \in DOMAIN s : k \in DOMAIN u /\ u[k] = s[k]
  BY <1>1, <1>2
<1>4. \A k \in DOMAIN s : ~s[k].owner
  BY <1>1, <1>2, <1>3, <1>9 DEF Owned
<1>5. \A k \in DOMAIN s : \A m \in 1 .. k : m \in DOMAIN s /\ ~u[m].owner
  BY <1>2, <1>4, <1>9
<1>6. \A k \in DOMAIN s : \A m \in 1 .. k - 1 : m \in DOMAIN s /\ ~u[m].owner
  BY <1>2, <1>4, <1>9
<1>7. \A k \in DOMAIN s : ~(k > 1 /\ Vm(s, k))
  BY <1>1, <1>3, <1>5 DEF Owned
<1>8. \A k \in DOMAIN s : ~Callback(s, k)
  BY <1>1, <1>3, <1>6 DEF Owned
<1>10. Owned(s, e)
  BY <1>4, <1>7, <1>8 DEF Owned
<1>11. Stacked(s)
  BY <1>1, <1>3, <1>9 DEF Stacked
<1>12. Nested(s, p)
  BY <1>1, <1>3, <1>9 DEF Nested
<1>13. Transcribed(s, e, p)
  <2>1. DOMAIN e.events = {}
    OBVIOUS
  <2> QED BY <2>1, <1>4 DEF Transcribed, BeginsWithin, TextsKnown, TextsSorted, TextsComplete, TextsSplit
<1> QED BY <1>4, <1>8, <1>10, <1>11, <1>12, <1>13 DEF ShapeInv

LEMMA OutputsBelow ==
  ASSUME NEW s, NEW u, NEW f, OnTop(s, u, f), NEW p, OutputsSorted(u), OutputsKnown(u, p), OutputsApart(u),
         OutputsSplit(u)
  PROVE  /\ OutputsSorted(s) /\ OutputsKnown(s, p) /\ OutputsApart(s) /\ OutputsSplit(s)
         /\ \A j : AllRecorded(u, j) => AllRecorded(s, j)
<1> DEFINE n == Len(s) + 1
<1>1. /\ \A k \in DOMAIN s : k \in DOMAIN u
      /\ \A k \in DOMAIN s : /\ Vm(u, k) <=> Vm(s, k)
                             /\ Callback(u, k) <=> Callback(s, k)
                             /\ Sink(u, k) <=> Sink(s, k)
      /\ \A k \in DOMAIN s : DepthAt(u, k) = DepthAt(s, k)
  BY OnTopFacts
<1>2. \A k \in DOMAIN s : u[k] = s[k]
  BY DEF OnTop
<1>3. OutputsSorted(s)
  BY <1>1, <1>2 DEF OutputsSorted
<1>4. OutputsKnown(s, p)
  BY <1>1, <1>2 DEF OutputsKnown
<1>5. OutputsApart(s)
  BY <1>1, <1>2 DEF OutputsApart
<1>6. OutputsSplit(s)
  BY <1>1, <1>2 DEF OutputsSplit
<1>7. \A j : AllRecorded(u, j) => AllRecorded(s, j)
  BY <1>1, <1>2 DEF AllRecorded
<1> QED BY <1>3, <1>4, <1>5, <1>6, <1>7

(* Below a frame that does not capture the depth is that of the sink below. *)
LEMMA DepthBelow ==
  ASSUME NEW s \in Seq(FrameRecords), NEW u, NEW f, OnTop(s, u, f), NEW x, TopSink(s, x), Stacked(s)
  PROVE  /\ ~f.capture => DepthAt(u, Len(s) + 1) = DepthAt(s, x)
         /\ f.capture => DepthAt(u, Len(s) + 1) = DepthAt(s, x) + 1
<1> DEFINE n == Len(s)
<1>1. n \in Nat /\ DOMAIN s = 1 .. n /\ u[n + 1] = f /\ \A k \in 1 .. n : u[k] = s[k]
  BY DEF OnTop
<1>2. DepthAt(s, n) = DepthAt(s, x)
  BY TopSinkDepth
<1> HIDE DEF n
<1>6. \A i \in 1 .. n + 1 : i \in 1 .. n \/ i = n + 1
  BY <1>1
<1>7. \A i \in 1 .. n : i \in 1 .. n + 1
  BY <1>1
<1>3. ASSUME ~f.capture PROVE DepthAt(u, n + 1) = DepthAt(s, n)
  <2>1. n + 1 \in Nat
    BY <1>1
  <2>2. \A i \in 1 .. n + 1 : i \in 1 .. n \/ ~u[i].capture
    BY <1>1, <1>3, <1>6
  <2>3. \A i \in 1 .. n : i \in 1 .. n + 1 /\ u[i].capture = s[i].capture
    BY <1>1, <1>7
  <2> QED BY <2>1, <2>2, <2>3, <1>1, DepthSame
<1>4. DepthAt(u, n) = DepthAt(s, n)
  <2>1. \A i \in 1 .. n : u[i].capture = s[i].capture
    BY <1>1
  <2> QED BY <2>1, <1>1, DepthSame
<1>5. ASSUME f.capture PROVE DepthAt(u, n + 1) = DepthAt(u, n) + 1
  BY <1>1, <1>5, DepthStep
<1> QED BY <1>2, <1>3, <1>4, <1>5 DEF n

(* A callback returns: its output is the caller's.                          *)
LEMMA CallbackEnds ==
  ASSUME NEW s \in Seq(FrameRecords), NEW t \in Seq(FrameRecords), NEW u \in Seq(FrameRecords),
         NEW f \in FrameRecords, OnTop(s, u, f), f.kind = "callback", NEW j, NEW p, TextInv(u, j, p),
         NEW x, TopSink(s, x), Poured(s, t, x, f.output), 1 \in DOMAIN s
  PROVE  TextInv(t, j, p)
<1> DEFINE n == Len(s) + 1
           o == f.output
<1>1. /\ \A k \in DOMAIN s : k \in DOMAIN u /\ k # n /\ k < n /\ k \in Nat
      /\ \A k \in DOMAIN u : k \in DOMAIN s \/ k = n
      /\ n \in DOMAIN u
      /\ \A k \in DOMAIN s : /\ Vm(u, k) <=> Vm(s, k)
                             /\ Sink(u, k) <=> Sink(s, k)
      /\ Callback(u, n) /\ Sink(u, n)
      /\ \A k \in DOMAIN s : DepthAt(u, k) = DepthAt(s, k)
      /\ \A k, m \in DOMAIN s : Segment(s, k, m) <=> Segment(u, k, m)
  BY OnTopFacts DEF Sink
<1>2. u[n] = f /\ (\A k \in DOMAIN s : u[k] = s[k]) /\ DOMAIN s = 1 .. n - 1 /\ n \in Nat
  BY DEF OnTop
<1>3. ~f.owner /\ ~f.capture
  BY <1>1, <1>2 DEF TextInv, Stacked
<1>4. ShapeInv(s, j, p)
  BY <1>3, ShapeBelow DEF TextInv, ShapeInv
<1>5. /\ OutputsSorted(s) /\ OutputsKnown(s, p) /\ OutputsApart(s) /\ OutputsSplit(s)
      /\ AllRecorded(s, j)
  BY OutputsBelow DEF TextInv, Collected
<1>6. DepthAt(u, n) = DepthAt(s, x)
  BY <1>3, <1>4, DepthBelow DEF ShapeInv
<1>7. o \in Seq(Outputs)
  BY DEF FrameRecords
<1>8. Poured(s, t, x, o) /\ u[n].output = o
  BY <1>2
<1> HIDE DEF n, o
<1>9. \A i \in DOMAIN o : Recorded(o[i], j)
  BY <1>1, <1>8 DEF TextInv, AllRecorded
<1>10. Fits(s, x, o, p)
  <2>1. Sorted(o)
    BY <1>1, <1>8 DEF TextInv, Collected, OutputsSorted
  <2>2. Later(s, o)
    BY <1>1, <1>2, <1>8 DEF TextInv, Collected, OutputsApart, Later
  <2>3. \A i \in DOMAIN o : o[i].text \in 1 .. Len(p) /\ p[o[i].text] = DepthAt(s, x)
    BY <1>1, <1>6, <1>8 DEF TextInv, Collected, OutputsKnown
  <2>4. \A k \in DOMAIN s : Vm(s, k) => s[k].from \in 1 .. Len(p) + 1
    BY <1>4 DEF ShapeInv, Nested
  <2>5. \A k \in DOMAIN s : Vm(s, k) => \A i \in DOMAIN o : ~(o[i].text < s[k].from)
    BY <1>1, <1>2, <1>8 DEF TextInv, Collected, OutputsSplit
  <2>6. \A k \in DOMAIN s : Vm(s, k) => \A i \in DOMAIN o : o[i].text \in Int /\ s[k].from <= o[i].text
    BY <2>3, <2>4, <2>5
  <2> QED BY <2>1, <2>2, <2>3, <2>6 DEF Fits
<1>11. Fills(s, x, o, p)
  <2> SUFFICES ASSUME NEW k \in DOMAIN s, NEW y, Open(s, k, y, p)
               PROVE  \/ \E m \in DOMAIN s : Segment(s, k, m) /\ Holds(s, m, y)
                      \/ Segment(s, k, x) /\ \E l \in DOMAIN o : o[l].text = y
    BY DEF Fills
  <2>1. Vm(u, k) /\ y \in u[k].from .. Len(p) /\ p[y] = DepthAt(u, k)
        /\ \A m \in DOMAIN u : Vm(u, m) /\ k < m => y < u[m].from
    <3>1. ~Vm(u, n)
      BY <1>1 DEF Vm, Callback
    <3> QED BY <3>1, <1>1, <1>2 DEF Open
  <2>2. PICK m \in DOMAIN u : Segment(u, k, m) /\ Holds(u, m, y)
    BY <2>1, <1>1 DEF TextInv, Collected, OutputsComplete
  <2>3. CASE m \in DOMAIN s
    BY <2>2, <2>3, <1>1, <1>2 DEF Holds
  <2>4. CASE m = n
    <3>1. \E l \in DOMAIN o : o[l].text = y
      BY <2>2, <2>4, <1>8 DEF Holds
    <3>2. x \in DOMAIN s /\ Sink(s, x) /\ Vm(s, k) /\ k <= x
      BY <2>1, <1>1 DEF TopSink, Sink, Vm, Callback
    <3>3. \A i \in k + 1 .. x : i \in DOMAIN s /\ i \in k + 1 .. n
      BY <3>2, <1>2
    <3>4. Segment(s, k, x)
      BY <3>2, <3>3, <2>2, <2>4, <1>1 DEF Segment
    <3> QED BY <3>1, <3>4
  <2> QED BY <2>3, <2>4, <1>1
<1> QED BY <1>4, <1>5, <1>7, <1>8, <1>9, <1>10, <1>11, OutputPoured

(* An evaluation returns: its text is the caller's, or the string of evalc. *)
Returns(s, u, f, o, p) ==
  /\ ~f.owner => \A i \in DOMAIN o : o[i].replay
  /\ f.capture => o = <<>>
  /\ ~f.capture => /\ Sorted(o)
                   /\ \A y : (\E i \in DOMAIN o : o[i].text = y)
                               <=> y \in f.from .. Len(p) /\ p[y] = DepthAt(u, Len(s) + 1)

(* An evaluating machine ends: what it returns fits below.                  *)
LEMMA MachineEnds ==
  ASSUME NEW s \in Seq(FrameRecords), NEW t \in Seq(FrameRecords), NEW u \in Seq(FrameRecords),
         NEW f \in FrameRecords, OnTop(s, u, f), f.kind = "vm", NEW j, NEW e, NEW p, TextInv(u, j, p),
         NEW x, TopSink(s, x), NEW o \in Seq(Outputs), Poured(s, t, x, o), 1 \in DOMAIN s,
         f.owner => e.identity = 0 /\ e.events = <<>>, ~f.owner => e = j, Returns(s, u, f, o, p)
  PROVE  TextInv(t, e, p)
<1> DEFINE n == Len(s) + 1
<1>1. /\ \A k \in DOMAIN s : k \in DOMAIN u /\ k # n /\ k < n /\ k \in Nat
      /\ \A k \in DOMAIN u : k \in DOMAIN s \/ k = n
      /\ n \in DOMAIN u
      /\ \A k \in DOMAIN s : /\ Vm(u, k) <=> Vm(s, k)
                             /\ Sink(u, k) <=> Sink(s, k)
      /\ Vm(u, n)
      /\ \A k \in DOMAIN s : DepthAt(u, k) = DepthAt(s, k)
      /\ \A k, m \in DOMAIN s : Segment(s, k, m) <=> Segment(u, k, m)
  BY OnTopFacts
<1>2. u[n] = f /\ (\A k \in DOMAIN s : u[k] = s[k]) /\ DOMAIN s = 1 .. n - 1 /\ n \in Nat
  BY DEF OnTop
<1>4. ShapeInv(s, e, p) /\ (f.owner => \A k \in DOMAIN s : ~Callback(s, k))
  <2>1. ShapeInv(u, j, p)
    BY DEF TextInv, ShapeInv
  <2>2. CASE f.owner
    BY <2>1, <2>2, ShapeBelowOwner
  <2>3. CASE ~f.owner
    BY <2>1, <2>3, ShapeBelow
  <2> QED BY <2>2, <2>3
<1>5. /\ OutputsSorted(s) /\ OutputsKnown(s, p) /\ OutputsApart(s) /\ OutputsSplit(s)
      /\ AllRecorded(s, j)
  BY OutputsBelow DEF TextInv, Collected
<1>9. AllRecorded(s, e)
  BY <1>4, <1>5 DEF AllRecorded
<1>6. /\ ~f.capture => DepthAt(u, n) = DepthAt(s, x)
      /\ f.capture => DepthAt(u, n) = DepthAt(s, x) + 1
  BY <1>4, DepthBelow DEF ShapeInv
<1>7. Callback(s, x) => \A i \in DOMAIN o : Recorded(o[i], e)
  BY <1>4 DEF Recorded, Callback, Returns
<1>8. ~f.capture => \A y : (\E i \in DOMAIN o : o[i].text = y) <=> y \in f.from .. Len(p) /\ p[y] = DepthAt(s, x)
  BY <1>6 DEF Returns
<1> HIDE DEF n
<1>12. \A k \in DOMAIN s : Vm(s, k) => s[k].from \in 1 .. Len(p) + 1 /\ s[k].from <= f.from
  BY <1>1, <1>2 DEF TextInv, Nested
<1>13. f.from \in 1 .. Len(p) + 1 /\ \A y \in f.from .. Len(p) : p[y] >= DepthAt(u, n)
  BY <1>1, <1>2 DEF TextInv, Nested
<1>14. \A k \in DOMAIN s : Sink(s, k) =>
         \A l \in DOMAIN s[k].output : s[k].output[l].text < f.from /\ s[k].output[l].text \in 1 .. Len(p)
  BY <1>1, <1>2 DEF TextInv, Collected, OutputsSplit, OutputsKnown
<1>10. Fits(s, x, o, p)
  <2>1. CASE f.capture
    <3>1. o = <<>> /\ DOMAIN o = {}
      BY <2>1 DEF Returns
    <3> QED BY <3>1 DEF Fits, Sorted, Later
  <2>2. CASE ~f.capture
    <3>1. \A i \in DOMAIN o : o[i].text \in f.from .. Len(p) /\ p[o[i].text] = DepthAt(s, x)
      BY <2>2, <1>8
    <3>2. \A i \in DOMAIN o : o[i].text \in 1 .. Len(p)
      BY <3>1, <1>13
    <3>3. Later(s, o)
      BY <3>1, <1>13, <1>14 DEF Later
    <3>4. \A k \in DOMAIN s : Vm(s, k) => \A i \in DOMAIN o : o[i].text \in Int /\ s[k].from <= o[i].text
      BY <3>1, <1>12, <1>13
    <3> QED BY <2>2, <3>1, <3>2, <3>3, <3>4 DEF Fits, Returns
  <2> QED BY <2>1, <2>2
<1>15. \A k \in DOMAIN s : Vm(s, k) => DepthAt(s, k) <= DepthAt(s, x) /\ k <= x
  <2> SUFFICES ASSUME NEW k \in DOMAIN s, Vm(s, k) PROVE DepthAt(s, k) <= DepthAt(s, x) /\ k <= x
    OBVIOUS
  <2>1. k \in Nat /\ x \in Nat /\ k <= x
    BY DEF TopSink, Sink, Vm, Callback
  <2> QED BY <2>1, DepthMonotonic
<1>16. \A k \in DOMAIN s : DepthAt(s, k) \in Nat
  BY <1>1, DepthIsNat
<1>17. x \in DOMAIN s /\ Sink(s, x) /\ x \in Nat
  BY DEF TopSink, Sink, Vm, Callback
<1>11. Fills(s, x, o, p)
  <2> SUFFICES ASSUME NEW k \in DOMAIN s, NEW y, Open(s, k, y, p)
               PROVE  \/ \E m \in DOMAIN s : Segment(s, k, m) /\ Holds(s, m, y)
                      \/ Segment(s, k, x) /\ \E l \in DOMAIN o : o[l].text = y
    BY DEF Fills
  <2>1. Vm(s, k) /\ y \in s[k].from .. Len(p) /\ p[y] = DepthAt(s, k)
        /\ \A m \in DOMAIN s : Vm(s, m) /\ k < m => y < s[m].from
    BY DEF Open
  <2>2. CASE y < f.from
    <3>1. \A m \in DOMAIN u : Vm(u, m) /\ k < m => y < u[m].from
      BY <2>1, <2>2, <1>1, <1>2
    <3>2. Vm(u, k) /\ k \in DOMAIN u /\ y \in u[k].from .. Len(p) /\ p[y] = DepthAt(u, k)
      BY <2>1, <1>1, <1>2
    <3>3. PICK m \in DOMAIN u : Segment(u, k, m) /\ Holds(u, m, y)
      BY <3>1, <3>2 DEF TextInv, Collected, OutputsComplete
    <3>4. m \in DOMAIN s
      <4>1. n \in k + 1 .. n
        BY <1>1, <1>2
      <4> QED BY <4>1, <3>3, <1>1 DEF Segment
    <3> QED BY <3>3, <3>4, <1>1, <1>2 DEF Holds
  <2>3. CASE ~(y < f.from)
    <3>1. y \in f.from .. Len(p)
      BY <2>1, <2>3, <1>12, <1>13
    <3>2. p[y] >= DepthAt(u, n) /\ DepthAt(s, k) <= DepthAt(s, x)
      BY <3>1, <2>1, <1>13, <1>15
    <3>3. ~f.capture /\ p[y] = DepthAt(s, x)
      BY <3>2, <2>1, <1>6, <1>16, <1>17
    <3>4. \E l \in DOMAIN o : o[l].text = y
      BY <3>1, <3>3, <1>8
    <3>5. \A m \in k + 1 .. x : ~Vm(s, m)
      <4> SUFFICES ASSUME NEW m \in k + 1 .. x, Vm(s, m) PROVE FALSE
        OBVIOUS
      <4>1. m \in DOMAIN s /\ k < m
        BY <1>1 DEF Vm
      <4>2. y < s[m].from /\ s[m].from <= f.from /\ s[m].from \in Int
        BY <4>1, <2>1, <1>12
      <4> QED BY <4>2, <3>1, <1>13
    <3>6. Segment(s, k, x)
      BY <3>5, <2>1, <1>15, <1>17 DEF Segment
    <3> QED BY <3>4, <3>6
  <2> QED BY <2>2, <2>3
<1> QED BY <1>4, <1>5, <1>7, <1>9, <1>10, <1>11, OutputPoured

-----------------------------------------------------------------------------
(* What is rendered.                                                        *)
LEMMA IsInOrder ==
  ASSUME NEW n \in Nat, NEW r \in Seq(Nat), Increasing(r), Values(r) \subseteq 1 .. n
  PROVE  r = Ascending(Values(r), n)
<1> DEFINE o == Ascending(Values(r), n)
<1>1. o \in Seq(1 .. n) /\ Increasing(o) /\ Values(o) = Values(r)
  BY AscendingProperties
<1> HIDE DEF o
<1>2. o \in Seq(Nat)
  BY <1>1
<1>3. r = o
  BY <1>1, <1>2, IncreasingUnique
<1> QED BY <1>3 DEF o

TextsOf(o) == [i \in DOMAIN o |-> o[i].text]

LEMMA TextsInOrder ==
  ASSUME NEW n \in Nat, NEW S \in SUBSET (1 .. n), NEW o \in Seq(Outputs), Sorted(o),
         \A y : (\E i \in DOMAIN o : o[i].text = y) <=> y \in S
  PROVE  TextsOf(o) = Ascending(S, n)
<1> DEFINE r == TextsOf(o)
<1>1. DOMAIN o = 1 .. Len(o) /\ Len(o) \in Nat /\ \A i \in DOMAIN o : o[i] \in Outputs
  OBVIOUS
<1>2. \A i \in DOMAIN o : o[i].text \in Nat
  BY <1>1 DEF Outputs
<1>3. r \in Seq(Nat) /\ DOMAIN r = DOMAIN o /\ \A i \in DOMAIN o : r[i] = o[i].text
  BY <1>1, <1>2 DEF TextsOf
<1> HIDE DEF r
<1>4. Increasing(r)
  BY <1>3 DEF Increasing, Sorted
<1>5. Values(r) = S
  BY <1>3 DEF Values
<1>6. r = Ascending(S, n)
  BY <1>3, <1>4, <1>5, IsInOrder
<1> QED BY <1>6 DEF r

RenderedOf(events, begin, depth) ==
  LET texts == Picked(events, {i \in DOMAIN events : /\ i > begin
                                                       /\ events[i].kind = "text"
                                                       /\ events[i].depth = depth})
  IN [i \in DOMAIN texts |-> texts[i].text]

PrintedIn(p, from, to, depth) == {y \in from .. to : p[y] = depth}

(* The texts since `from` are those recorded after `begin`.                 *)
RecordedSince(j, p, begin, from) ==
  /\ TextsKnown(j, p) /\ TextsSorted(j)
  /\ begin \in Nat /\ from \in 1 .. Len(p) + 1
  /\ \A y \in from .. Len(p) : \E i \in DOMAIN j.events : IsText(j, i) /\ j.events[i].text = y
  /\ \A i \in DOMAIN j.events : IsText(j, i) => (i > begin <=> j.events[i].text >= from)

(* Rendering them gives the texts of that depth in the order printed.       *)
LEMMA RenderedInOrder ==
  ASSUME NEW j \in Journals, NEW p \in Seq(Nat), NEW begin, NEW from, NEW depth,
         RecordedSince(j, p, begin, from)
  PROVE  RenderedOf(j.events, begin, depth) = Ascending(PrintedIn(p, from, Len(p), depth), Len(p))
<1> DEFINE events == j.events
           indices == {i \in DOMAIN events : i > begin /\ events[i].kind = "text" /\ events[i].depth = depth}
           order == Ascending(indices, Len(events))
           S == PrintedIn(p, from, Len(p), depth)
           r == RenderedOf(events, begin, depth)
           last == Len(p)
<1>1. Len(events) \in Nat /\ DOMAIN events = 1 .. Len(events) /\ \A i \in DOMAIN events : events[i] \in Events
  BY DEF Journals
<1>2. order \in Seq(1 .. Len(events)) /\ Increasing(order) /\ Values(order) = indices
  BY <1>1, AscendingProperties
<1>3. r = [k \in DOMAIN order |-> events[order[k]].text]
  BY DEF RenderedOf, Picked
<1>10. last \in Nat /\ from \in 1 .. last + 1 /\ begin \in Nat /\ S \subseteq 1 .. last
  BY DEF RecordedSince, PrintedIn
<1>11. \A y : y \in S <=> y \in from .. last /\ p[y] = depth
  BY DEF PrintedIn
<1>12. \A i : i \in indices <=> i \in DOMAIN events /\ i > begin /\ IsText(j, i) /\ events[i].depth = depth
  BY DEF IsText
<1> HIDE DEF r, S, order, indices, last
<1>4. DOMAIN order = 1 .. Len(order) /\ Len(order) \in Nat /\ \A k \in DOMAIN order : order[k] \in indices
  BY <1>2 DEF Values
<1>5. \A i \in DOMAIN events : events[i].text \in Nat
  BY <1>1 DEF Events
<1>6. r \in Seq(Nat) /\ DOMAIN r = DOMAIN order /\ \A k \in DOMAIN order : r[k] = events[order[k]].text
  BY <1>3, <1>4, <1>5, <1>12
<1> HIDE DEF events
<1>7. Increasing(r)
  <2> SUFFICES ASSUME NEW k \in DOMAIN order, NEW m \in DOMAIN order, k < m PROVE r[k] < r[m]
    BY <1>6 DEF Increasing
  <2>1. order[k] < order[m] /\ IsText(j, order[k]) /\ IsText(j, order[m])
        /\ order[k] \in DOMAIN events /\ order[m] \in DOMAIN events
    BY <1>2, <1>4, <1>12 DEF Increasing
  <2>2. events[order[k]].text < events[order[m]].text
    BY <2>1 DEF RecordedSince, TextsSorted, events
  <2> QED BY <2>2, <1>6
<1>8. Values(r) = S
  <2>1. ASSUME NEW k \in DOMAIN order PROVE r[k] \in S
    <3>1. order[k] \in DOMAIN events /\ order[k] > begin /\ IsText(j, order[k]) /\ events[order[k]].depth = depth
      BY <1>4, <1>12
    <3>2. events[order[k]].text \in 1 .. last /\ p[events[order[k]].text] = depth /\ events[order[k]].text >= from
      BY <3>1 DEF RecordedSince, TextsKnown, events, last
    <3>3. events[order[k]].text \in from .. last
      BY <3>2, <1>10
    <3> QED BY <3>2, <3>3, <1>6, <1>11
  <2>2. ASSUME NEW y \in S PROVE \E k \in DOMAIN order : r[k] = y
    <3>1. y \in from .. last /\ p[y] = depth
      BY <1>11
    <3>2. PICK i \in DOMAIN events : IsText(j, i) /\ events[i].text = y
      BY <3>1 DEF RecordedSince, events, last
    <3>3. events[i].depth = depth
      BY <3>1, <3>2 DEF RecordedSince, TextsKnown, events
    <3>4. i > begin
      <4>1. events[i].text >= from
        BY <3>1, <3>2, <1>10
      <4> QED BY <4>1, <3>2 DEF RecordedSince, events
    <3>5. i \in Values(order)
      BY <3>2, <3>3, <3>4, <1>2, <1>12
    <3> QED BY <3>2, <3>5, <1>6 DEF Values
  <2>3. \A y : y \in S <=> \E k \in DOMAIN r : r[k] = y
    BY <2>1, <2>2, <1>6
  <2> QED BY <2>3 DEF Values
<1>9. r = Ascending(S, last)
  BY <1>6, <1>7, <1>8, <1>10, IsInOrder
<1> QED BY <1>9 DEF r, S, events, last

(* What the machine on top of the stack renders is what was printed at its  *)
(* depth since it began.                                                    *)
LEMMA MachineRenders ==
  ASSUME NEW u \in Seq(FrameRecords), NEW n \in DOMAIN u, n = Len(u), Vm(u, n), NEW j \in Journals,
         NEW p \in Seq(Nat), TextInv(u, j, p), n > 1 \/ u[1].owner
  PROVE  RenderedOf(j.events, u[n].begin, DepthAt(u, n))
           = Ascending(PrintedIn(p, u[n].from, Len(p), DepthAt(u, n)), Len(p))
<1> DEFINE begin == u[n].begin
           from == u[n].from
<1>1. PICK m \in DOMAIN u : u[m].owner /\ m <= n
  <2>1. CASE n > 1
    <3>1. \A m \in 1 .. n : m \in DOMAIN u /\ m <= n
      OBVIOUS
    <3> QED BY <2>1, <3>1 DEF TextInv, Owned
  <2>2. CASE u[1].owner
    <3>1. 1 \in DOMAIN u /\ 1 <= n
      OBVIOUS
    <3> QED BY <2>2, <3>1
  <2> QED BY <2>1, <2>2
<1>2. Vm(u, m)
  BY <1>1 DEF TextInv, Stacked, Vm
<1>3. u[n] \in FrameRecords
  OBVIOUS
<1>4. begin \in Nat
  BY <1>3 DEF FrameRecords
<1>5. from \in 1 .. Len(p) + 1 /\ u[m].from \in 1 .. Len(p) + 1
  BY <1>2 DEF TextInv, Nested
<1>6. u[m].from <= from
  <2>1. m = n \/ m < n
    BY <1>1
  <2> QED BY <2>1, <1>1, <1>2, <1>5 DEF TextInv, Nested
<1>7. \A y \in from .. Len(p) : y \in u[m].from .. Len(p)
  BY <1>5, <1>6
<1>8. \A y \in from .. Len(p) : \E i \in DOMAIN j.events : IsText(j, i) /\ j.events[i].text = y
  BY <1>1, <1>7 DEF TextInv, Transcribed, TextsComplete
<1>9. \A i \in DOMAIN j.events : IsText(j, i) => (i > begin <=> j.events[i].text >= from)
  BY <1>1 DEF TextInv, Transcribed, TextsSplit
<1>10. TextsKnown(j, p) /\ TextsSorted(j)
  BY DEF TextInv, Transcribed
<1> DEFINE d == DepthAt(u, n)
<1> HIDE DEF begin, from, d
<1>11. RenderedOf(j.events, begin, d) = Ascending(PrintedIn(p, from, Len(p), d), Len(p))
  <2>1. RecordedSince(j, p, begin, from)
    BY <1>4, <1>5, <1>8, <1>9, <1>10 DEF RecordedSince
  <2> QED BY <2>1, RenderedInOrder
<1> QED BY <1>11 DEF begin, from, d

LEMMA FrameAt ==
  ASSUME NEW u \in Seq(FrameRecords), NEW k \in DOMAIN u
  PROVE  u[k] \in FrameRecords
OBVIOUS

(* The output of the outermost machine.                                     *)
LEMMA OutermostOutput ==
  ASSUME NEW u \in Seq(FrameRecords), Len(u) = 1, NEW j, NEW p \in Seq(Nat), TextInv(u, j, p)
  PROVE  /\ TextsOf(u[1].output) = Ascending(PrintedIn(p, 1, Len(p), 0), Len(p))
         /\ DepthAt(u, 1) = 0
<1> DEFINE o == u[1].output
           S == PrintedIn(p, 1, Len(p), 0)
<1>1. Vm(u, 1) /\ ~u[1].capture /\ u[1].from = 1 /\ DOMAIN u = {1} /\ u[1] \in FrameRecords
  <2>1. DOMAIN u = {1}
    OBVIOUS
  <2>2. u[1] \in FrameRecords
    BY <2>1, FrameAt
  <2>3. Vm(u, 1) /\ ~u[1].capture /\ u[1].from = 1
    BY DEF TextInv, Stacked
  <2> QED BY <2>1, <2>2, <2>3
<1>2. {i \in 1 .. 1 : u[i].capture} = {}
  BY <1>1
<1>3. DepthAt(u, 1) = 0
  BY <1>2, FS_EmptySet DEF DepthAt
<1>4. o \in Seq(Outputs)
  BY <1>1 DEF FrameRecords
<1>5. Sorted(o)
  BY <1>1 DEF TextInv, Collected, OutputsSorted, Sink
<1>6. \A i \in DOMAIN o : o[i].text \in 1 .. Len(p) /\ p[o[i].text] = 0
  BY <1>1, <1>3 DEF TextInv, Collected, OutputsKnown, Sink
<1>7. \A y \in 1 .. Len(p) : p[y] = 0 => \E i \in DOMAIN o : o[i].text = y
  <2> SUFFICES ASSUME NEW y \in 1 .. Len(p), p[y] = 0 PROVE \E i \in DOMAIN o : o[i].text = y
    OBVIOUS
  <2>1. \A m \in DOMAIN u : ~(1 < m)
    BY <1>1
  <2>2. \E m \in DOMAIN u : Segment(u, 1, m) /\ Holds(u, m, y)
    BY <2>1, <1>1, <1>3 DEF TextInv, Collected, OutputsComplete
  <2> QED BY <2>2, <1>1 DEF Holds
<1> HIDE DEF o
<1>8. \A y : (\E i \in DOMAIN o : o[i].text = y) <=> y \in S
  BY <1>6, <1>7 DEF PrintedIn
<1>9. S \in SUBSET (1 .. Len(p)) /\ Len(p) \in Nat
  BY DEF PrintedIn
<1> HIDE DEF S
<1>10. TextsOf(o) = Ascending(S, Len(p))
  BY <1>4, <1>5, <1>8, <1>9, TextsInOrder
<1> QED BY <1>3, <1>10 DEF o, S

-----------------------------------------------------------------------------
(* The operators of the model on stacks.                                    *)
LEMMA GreatestSink ==
  ASSUME NEW s \in Seq(FrameRecords), Vm(s, 1)
  PROVE  LET sinks == {i \in DOMAIN s : s[i].kind \in {"vm", "callback"}}
         IN TopSink(s, Max(sinks))
<1> DEFINE sinks == {i \in DOMAIN s : s[i].kind \in {"vm", "callback"}}
           n == Len(s)
           T == {m \in Nat : \A k \in sinks : k <= m}
<1>1. n \in Nat /\ DOMAIN s = 1 .. n /\ 1 \in sinks
  BY DEF Vm
<1>2. \A k : k \in sinks <=> Sink(s, k)
  BY DEF Sink, Vm, Callback
<1>3. \A k \in sinks : k \in 1 .. n
  BY <1>1
<1> HIDE DEF n, sinks
<1>4. T \in SUBSET Nat /\ n \in T
  BY <1>1, <1>3
<1>7. T # {}
  BY <1>4
<1>5. PICK m \in T : \A l \in T : m <= l
  BY <1>4, <1>7, LeastNumber
<1>6. m \in sinks
  <2> SUFFICES ASSUME m \notin sinks PROVE FALSE
    OBVIOUS
  <2>1. m \in Nat /\ \A k \in sinks : k <= m
    BY <1>5
  <2>2. \A k \in sinks : k <= m - 1 /\ k \in Nat
    BY <2>1, <1>3
  <2>3. m - 1 \in Nat
    BY <2>1, <2>2, <1>1
  <2>4. m - 1 \in T
    BY <2>2, <2>3
  <2>5. m <= m - 1
    BY <1>5, <2>4
  <2> QED BY <2>5, <2>1
<1>8. \A k \in sinks : m >= k /\ k \in Nat
  BY <1>3, <1>5
<1>9. Max(sinks) \in sinks /\ \A k \in sinks : Max(sinks) >= k
  BY <1>6, <1>8 DEF Max
<1>10. \A k \in sinks : k <= Max(sinks)
  BY <1>3, <1>9
<1>11. TopSink(s, Max(sinks))
  BY <1>2, <1>9, <1>10 DEF TopSink
<1> QED BY <1>11 DEF sinks

SameErrors(s, t) ==
  /\ DOMAIN s = DOMAIN t
  /\ \A k \in DOMAIN s : s[k].errors = t[k].errors /\ s[k].kind = t[k].kind /\ s[k].recover = t[k].recover

LEMMA OutputGoesToSink ==
  ASSUME NEW s \in Seq(FrameRecords), Vm(s, 1), NEW o \in Seq(Outputs)
  PROVE  /\ WithOutput(s, o) \in Seq(FrameRecords)
         /\ \E x : TopSink(s, x) /\ Poured(s, WithOutput(s, o), x, o)
         /\ SameErrors(s, WithOutput(s, o))
         /\ DOMAIN WithOutput(s, o) = DOMAIN s
<1> DEFINE x == Max({i \in DOMAIN s : s[i].kind \in {"vm", "callback"}})
           t == WithOutput(s, o)
<1>1. TopSink(s, x)
  BY GreatestSink
<1>2. t = [s EXCEPT ![x].output = s[x].output \o o]
  BY DEF WithOutput
<1> HIDE DEF x, t
<1>3. x \in DOMAIN s
  BY <1>1 DEF TopSink, Sink, Vm, Callback
<1>4. s[x] \in FrameRecords
  BY <1>3, FrameAt
<1>5. s[x].output \o o \in Seq(Outputs)
  <2>1. s[x].output \in Seq(Outputs)
    BY <1>4 DEF FrameRecords
  <2> QED BY <2>1
<1> DEFINE b == s[x].output \o o
<1>6. t = [s EXCEPT ![x] = [s[x] EXCEPT !.output = b]]
  BY <1>2, <1>3
<1>7. b \in Seq(Outputs) /\ b = s[x].output \o o
  BY <1>5
<1> HIDE DEF b
<1>8. [s[x] EXCEPT !.output = b] \in FrameRecords
  BY <1>4, <1>7 DEF FrameRecords
<1>9. t \in Seq(FrameRecords)
  BY <1>3, <1>6, <1>8
<1>10. DOMAIN t = DOMAIN s /\ (\A k \in DOMAIN s : k # x => t[k] = s[k]) /\ t[x] = [s[x] EXCEPT !.output = b]
  BY <1>3, <1>6
<1>11. /\ t[x].kind = s[x].kind /\ t[x].capture = s[x].capture /\ t[x].recover = s[x].recover
       /\ t[x].owner = s[x].owner /\ t[x].begin = s[x].begin /\ t[x].from = s[x].from
       /\ t[x].errors = s[x].errors /\ t[x].output = b
  BY <1>4, <1>10 DEF FrameRecords
<1>12. SameErrors(s, t)
  BY <1>10, <1>11 DEF SameErrors
<1>13. Poured(s, t, x, o)
  BY <1>3, <1>7, <1>10, <1>11 DEF Poured, SameShape
<1> QED BY <1>1, <1>9, <1>10, <1>12, <1>13 DEF t

(* Errors join those of the top frame.                                      *)
ErrorsJoin(s, t, errors) ==
  /\ DOMAIN s = DOMAIN t
  /\ \A k \in DOMAIN s : s[k].kind = t[k].kind /\ s[k].recover = t[k].recover
  /\ \A k \in DOMAIN s : k # Len(s) => t[k].errors = s[k].errors
  /\ t[Len(s)].errors = s[Len(s)].errors \o errors

LEMMA FailureGoesToTop ==
  ASSUME NEW s \in Seq(FrameRecords), s # <<>>, NEW errors \in Seq(Stamps)
  PROVE  /\ WithFailure(s, errors) \in Seq(FrameRecords)
         /\ SameTexts(s, WithFailure(s, errors))
         /\ ErrorsJoin(s, WithFailure(s, errors), errors)
<1> DEFINE n == Len(s)
           b == s[n].errors \o errors
           t == WithFailure(s, errors)
<1>1. n \in DOMAIN s
  OBVIOUS
<1>2. s[n] \in FrameRecords
  BY <1>1, FrameAt
<1>3. b \in Seq(Stamps)
  <2>1. s[n].errors \in Seq(Stamps)
    BY <1>2 DEF FrameRecords
  <2> QED BY <2>1
<1>4. t = [s EXCEPT ![n] = [s[n] EXCEPT !.errors = b]]
  BY <1>1 DEF WithFailure
<1> HIDE DEF b, t
<1>5. [s[n] EXCEPT !.errors = b] \in FrameRecords
  BY <1>2, <1>3 DEF FrameRecords
<1>6. t \in Seq(FrameRecords)
  BY <1>1, <1>4, <1>5
<1>7. DOMAIN t = DOMAIN s /\ (\A k \in DOMAIN s : k # n => t[k] = s[k]) /\ t[n] = [s[n] EXCEPT !.errors = b]
  BY <1>1, <1>4
<1>8. /\ t[n].kind = s[n].kind /\ t[n].capture = s[n].capture /\ t[n].recover = s[n].recover
      /\ t[n].owner = s[n].owner /\ t[n].begin = s[n].begin /\ t[n].from = s[n].from
      /\ t[n].errors = b /\ t[n].output = s[n].output
  BY <1>2, <1>7 DEF FrameRecords
<1>9. SameTexts(s, t)
  BY <1>7, <1>8 DEF SameTexts, SameText
<1>10. ErrorsJoin(s, t, errors)
  BY <1>7, <1>8 DEF ErrorsJoin, b
<1> QED BY <1>6, <1>9, <1>10 DEF t

LEMMA NothingTouched ==
  ASSUME NEW s \in Seq(FrameRecords)
  PROVE  SameTexts(s, s)
BY DEF SameTexts, SameText

-----------------------------------------------------------------------------
(* Where an error is while nobody has disposed of it.                       *)
ErrorOf(j, e) ==
  e.identity = j.identity /\ e.sequence \in DOMAIN j.events /\ j.events[e.sequence].kind = "error"

Undisposed(j, i) == j.events[i].disposition = "raised" \/ j.events[i].disposition = "unhandled"

HeldBy(f, i) == \E l \in DOMAIN f.errors : f.errors[l].sequence = i

Pending(s, j) ==
  /\ \A k \in DOMAIN s : \A l \in DOMAIN s[k].errors : ErrorOf(j, s[k].errors[l])
  /\ \A i \in DOMAIN j.events : Undisposed(j, i) => \E k \in DOMAIN s : HeldBy(s[k], i)
  /\ \A k \in DOMAIN s : s[k].kind = "element" => ~s[k].recover

(* Nothing new is open, and the errors are the same.                        *)
NothingOpens(i, j) ==
  /\ j.identity = i.identity
  /\ \A k \in DOMAIN i.events : k \in DOMAIN j.events /\ j.events[k].kind = i.events[k].kind
  /\ \A k \in DOMAIN j.events : Undisposed(j, k) => k \in DOMAIN i.events /\ Undisposed(i, k)

LEMMA PendingStays ==
  ASSUME NEW s, NEW t, SameErrors(s, t), NEW i, NEW j, NothingOpens(i, j), Pending(s, i)
  PROVE  Pending(t, j)
<1>1. \A k \in DOMAIN t : \A l \in DOMAIN t[k].errors : ErrorOf(j, t[k].errors[l])
  BY DEF SameErrors, NothingOpens, Pending, ErrorOf
<1>2. \A e \in DOMAIN j.events : Undisposed(j, e) => \E k \in DOMAIN t : HeldBy(t[k], e)
  BY DEF SameErrors, NothingOpens, Pending, HeldBy
<1>3. \A k \in DOMAIN t : t[k].kind = "element" => ~t[k].recover
  BY DEF SameErrors, Pending
<1> QED BY <1>1, <1>2, <1>3 DEF Pending

LEMMA PendingPushed ==
  ASSUME NEW s, NEW t, NEW f, OnTop(s, t, f), f.errors = <<>>, f.kind = "element" => ~f.recover,
         NEW i, NEW j, NothingOpens(i, j), Pending(s, i)
  PROVE  Pending(t, j)
<1>1. /\ \A k \in DOMAIN t : (k \in DOMAIN s /\ t[k] = s[k]) \/ t[k] = f
      /\ \A k \in DOMAIN s : k \in DOMAIN t /\ t[k] = s[k]
  BY DEF OnTop
<1>2. DOMAIN f.errors = {}
  OBVIOUS
<1>3. \A k \in DOMAIN t : \A l \in DOMAIN t[k].errors : ErrorOf(j, t[k].errors[l])
  BY <1>1, <1>2 DEF NothingOpens, Pending, ErrorOf
<1>4. \A e \in DOMAIN j.events : Undisposed(j, e) => \E k \in DOMAIN t : HeldBy(t[k], e)
  BY <1>1 DEF NothingOpens, Pending
<1>5. \A k \in DOMAIN t : t[k].kind = "element" => ~t[k].recover
  BY <1>1 DEF Pending
<1> QED BY <1>3, <1>4, <1>5 DEF Pending

(* A frame is gone and what it held is disposed of.                         *)
LEMMA PendingSettled ==
  ASSUME NEW s, NEW t, NEW u, NEW f, OnTop(s, u, f), SameErrors(s, t), NEW i, NEW j, NothingOpens(i, j),
         \A k \in DOMAIN j.events : Undisposed(j, k) => ~HeldBy(f, k), Pending(u, i)
  PROVE  Pending(t, j)
<1>1. /\ \A k \in DOMAIN u : (k \in DOMAIN s /\ u[k] = s[k]) \/ u[k] = f
      /\ \A k \in DOMAIN s : k \in DOMAIN u /\ u[k] = s[k]
  BY DEF OnTop
<1>2. \A k \in DOMAIN t : \A l \in DOMAIN t[k].errors : ErrorOf(j, t[k].errors[l])
  BY <1>1 DEF SameErrors, NothingOpens, Pending, ErrorOf
<1>3. \A k \in DOMAIN t : t[k].kind = "element" => ~t[k].recover
  BY <1>1 DEF SameErrors, Pending
<1>4. ASSUME NEW e \in DOMAIN j.events, Undisposed(j, e) PROVE \E k \in DOMAIN t : HeldBy(t[k], e)
  <2>1. PICK k \in DOMAIN u : HeldBy(u[k], e)
    BY <1>4 DEF NothingOpens, Pending
  <2>2. k \in DOMAIN s /\ u[k] = s[k]
    BY <2>1, <1>1, <1>4
  <2> QED BY <2>1, <2>2 DEF SameErrors, HeldBy
<1> QED BY <1>2, <1>3, <1>4 DEF Pending

(* Errors of a frame that is gone, or new ones, are held by the top.        *)
Carried(s, errors, j) ==
  /\ \A k \in DOMAIN s : \A l \in DOMAIN s[k].errors : ErrorOf(j, s[k].errors[l])
  /\ \A l \in DOMAIN errors : ErrorOf(j, errors[l])
  /\ \A i \in DOMAIN j.events : Undisposed(j, i) =>
       (\E k \in DOMAIN s : HeldBy(s[k], i)) \/ \E l \in DOMAIN errors : errors[l].sequence = i
  /\ \A k \in DOMAIN s : s[k].kind = "element" => ~s[k].recover

LEMMA PendingHeld ==
  ASSUME NEW s \in Seq(FrameRecords), NEW t, NEW errors \in Seq(Stamps), ErrorsJoin(s, t, errors), s # <<>>,
         NEW j, Carried(s, errors, j)
  PROVE  Pending(t, j)
<1> DEFINE n == Len(s)
           a == s[n].errors
           b == t[n].errors
           h == Len(a)
<1>1. n \in DOMAIN s
  OBVIOUS
<1>2. a \in Seq(Stamps)
  <2>1. s[n] \in FrameRecords
    BY <1>1, FrameAt
  <2> QED BY <2>1 DEF FrameRecords
<1>3. /\ DOMAIN s = DOMAIN t /\ b = a \o errors
      /\ \A k \in DOMAIN s : s[k].kind = t[k].kind /\ s[k].recover = t[k].recover
      /\ \A k \in DOMAIN s : k # n => t[k].errors = s[k].errors
  BY DEF ErrorsJoin
<1> HIDE DEF n, a, b
<1>4. /\ \A i \in DOMAIN a : i \in DOMAIN b /\ b[i] = a[i]
      /\ \A k \in DOMAIN errors : h + k \in DOMAIN b /\ b[h + k] = errors[k]
      /\ \A i \in DOMAIN b : i \in DOMAIN a \/ \E k \in DOMAIN errors : i = h + k
  BY <1>2, <1>3, Joined
<1>5. \A l \in DOMAIN b : ErrorOf(j, b[l])
  BY <1>1, <1>4 DEF Carried, a
<1>6. \A k \in DOMAIN t : \A l \in DOMAIN t[k].errors : ErrorOf(j, t[k].errors[l])
  <2> TAKE k \in DOMAIN t
  <2>1. CASE k = n
    BY <2>1, <1>5 DEF b
  <2>2. CASE k # n
    BY <2>2, <1>3 DEF Carried
  <2> QED BY <2>1, <2>2
<1>7. ASSUME NEW e \in DOMAIN j.events, Undisposed(j, e) PROVE \E k \in DOMAIN t : HeldBy(t[k], e)
  <2>1. CASE \E k \in DOMAIN s : HeldBy(s[k], e)
    <3>1. PICK k \in DOMAIN s : HeldBy(s[k], e)
      BY <2>1
    <3>2. CASE k # n
      BY <3>1, <3>2, <1>3 DEF HeldBy
    <3>3. CASE k = n
      <4>1. PICK l \in DOMAIN a : a[l].sequence = e
        BY <3>1, <3>3 DEF HeldBy, a
      <4>2. l \in DOMAIN b /\ b[l].sequence = e
        BY <4>1, <1>4
      <4> QED BY <4>2, <1>1, <1>3 DEF HeldBy, b
    <3> QED BY <3>2, <3>3
  <2>2. CASE \E l \in DOMAIN errors : errors[l].sequence = e
    <3>1. PICK l \in DOMAIN errors : errors[l].sequence = e
      BY <2>2
    <3>2. h + l \in DOMAIN b /\ b[h + l].sequence = e
      BY <3>1, <1>4
    <3> QED BY <3>2, <1>1, <1>3 DEF HeldBy, b
  <2> QED BY <2>1, <2>2, <1>7 DEF Carried
<1>8. \A k \in DOMAIN t : t[k].kind = "element" => ~t[k].recover
  BY <1>3 DEF Carried
<1> QED BY <1>6, <1>7, <1>8 DEF Pending

-----------------------------------------------------------------------------
(* The operators of the model on the journal.                               *)
LEMMA EventAt ==
  ASSUME NEW j \in Journals
  PROVE  /\ j = [identity |-> j.identity, events |-> j.events]
         /\ j.identity \in Nat /\ j.events \in Seq(Events) /\ Len(j.events) \in Nat
         /\ DOMAIN j.events = 1 .. Len(j.events)
         /\ \A i \in DOMAIN j.events : j.events[i] \in Events
BY DEF Journals

DisposedWell(j, e, stamps, d) ==
  /\ e \in Journals /\ e.identity = j.identity /\ DOMAIN e.events = DOMAIN j.events
  /\ \A i \in DOMAIN j.events : SameEvent(e.events[i], j.events[i])
  /\ \A i \in DOMAIN j.events :
       \/ e.events[i].disposition = d /\ j.events[i].kind = "error"
            /\ \E l \in DOMAIN stamps : stamps[l].identity = j.identity /\ stamps[l].sequence = i
       \/ /\ e.events[i].disposition = j.events[i].disposition
          /\ ~ (j.events[i].kind = "error"
                  /\ \E l \in DOMAIN stamps : stamps[l].identity = j.identity /\ stamps[l].sequence = i)

(* Disposing of stamps changes the errors they name and nothing else.       *)
LEMMA DisposedIsWell ==
  ASSUME journal \in Journals, NEW stamps \in Seq(Stamps),
         NEW d \in {"visible", "raised", "suppressed", "caught", "unhandled"}
  PROVE  DisposedWell(journal, [journal EXCEPT !.events = Disposed(journal.events, stamps, d)], stamps, d)
<1> DEFINE events == journal.events
           b == Disposed(events, stamps, d)
           Hit(i) == events[i].kind = "error"
                       /\ \E l \in DOMAIN stamps : stamps[l].identity = journal.identity /\ stamps[l].sequence = i
           e == [journal EXCEPT !.events = b]
<1>1. /\ journal = [identity |-> journal.identity, events |-> events]
      /\ journal.identity \in Nat /\ events \in Seq(Events) /\ Len(events) \in Nat
      /\ DOMAIN events = 1 .. Len(events)
      /\ \A i \in DOMAIN events : events[i] \in Events
  BY EventAt
<1>2. ToSet(stamps) = {stamps[l] : l \in DOMAIN stamps}
  BY DEF ToSet
<1>3. \A i \in DOMAIN events :
        (\E stamp \in ToSet(stamps) : Known(stamp) /\ stamp.sequence = i /\ events[i].kind = "error") <=> Hit(i)
  BY <1>2 DEF Known
<1>4. b = [i \in DOMAIN events |-> IF Hit(i) THEN [events[i] EXCEPT !.disposition = d] ELSE events[i]]
  BY <1>3 DEF Disposed
<1> HIDE DEF b, events, Hit
<1>5. /\ DOMAIN b = DOMAIN events
      /\ \A i \in DOMAIN events : Hit(i) => b[i] = [events[i] EXCEPT !.disposition = d]
      /\ \A i \in DOMAIN events : ~Hit(i) => b[i] = events[i]
  BY <1>4
<1>6. \A i \in DOMAIN events : Hit(i) => b[i] \in Events /\ SameEvent(b[i], events[i]) /\ b[i].disposition = d
  <2> SUFFICES ASSUME NEW i \in DOMAIN events, Hit(i)
               PROVE  b[i] \in Events /\ SameEvent(b[i], events[i]) /\ b[i].disposition = d
    OBVIOUS
  <2>1. events[i] \in Events /\ b[i] = [events[i] EXCEPT !.disposition = d]
    BY <1>1, <1>5
  <2> QED BY <2>1 DEF Events, SameEvent
<1>7. \A i \in DOMAIN events : ~Hit(i) => /\ b[i] \in Events /\ SameEvent(b[i], events[i])
                                          /\ b[i].disposition = events[i].disposition
  BY <1>1, <1>5 DEF SameEvent
<1>8. b \in Seq(Events)
  <2>1. \A i \in 1 .. Len(events) : b[i] \in Events
    BY <1>1, <1>6, <1>7
  <2>2. b = [i \in 1 .. Len(events) |-> b[i]]
    BY <1>1, <1>4
  <2> QED BY <2>1, <2>2, <1>1
<1>9. e = [identity |-> journal.identity, events |-> b] /\ e \in Journals
  BY <1>1, <1>8 DEF Journals
<1>10. e.identity = journal.identity /\ e.events = b
  BY <1>9
<1> HIDE DEF e
<1>11. /\ e \in Journals /\ e.identity = journal.identity /\ DOMAIN e.events = DOMAIN events
       /\ \A i \in DOMAIN events : SameEvent(e.events[i], events[i])
  BY <1>5, <1>6, <1>7, <1>9, <1>10
<1>12. \A i \in DOMAIN events : \/ e.events[i].disposition = d /\ Hit(i)
                                \/ e.events[i].disposition = events[i].disposition /\ ~Hit(i)
  BY <1>6, <1>7, <1>10
<1>13. DisposedWell(journal, e, stamps, d)
  BY <1>11, <1>12 DEF DisposedWell, events, Hit
<1> QED BY <1>13 DEF e, b, events

LEMMA DisposedFollows ==
  ASSUME NEW j \in Journals, NEW e, NEW stamps, NEW d, DisposedWell(j, e, stamps, d), j.identity = 0 => j.events = <<>>
  PROVE  ErrorsFollow(j, e)
<1>1. j.identity = 0 => e.events = <<>>
  <2> SUFFICES ASSUME j.identity = 0 PROVE e.events = <<>>
    OBVIOUS
  <2>1. DOMAIN e.events = {} /\ e \in Journals
    BY DEF DisposedWell
  <2>2. e.events \in Seq(Events) /\ DOMAIN e.events = 1 .. Len(e.events) /\ Len(e.events) \in Nat
    BY <2>1, EventAt
  <2>3. Len(e.events) = 0
    <3> DEFINE n == Len(e.events)
    <3>1. n \in Nat /\ 1 .. n = {}
      BY <2>1, <2>2
    <3> HIDE DEF n
    <3>2. n = 0
      BY <3>1
    <3> QED BY <3>2 DEF n
  <2> QED BY <2>2, <2>3
<1> QED BY <1>1 DEF ErrorsFollow, DisposedWell

(* An operation adds events.                                                *)
Extended(j, e, added) ==
  /\ e \in Journals /\ e.identity = j.identity
  /\ Len(e.events) = Len(j.events) + Len(added)
  /\ \A i \in DOMAIN j.events : i \in DOMAIN e.events /\ e.events[i] = j.events[i]
  /\ \A k \in DOMAIN added : Len(j.events) + k \in DOMAIN e.events /\ e.events[Len(j.events) + k] = added[k]
  /\ \A i \in DOMAIN e.events : i \in DOMAIN j.events \/ \E k \in DOMAIN added : i = Len(j.events) + k

LEMMA EventsAdded ==
  ASSUME NEW j \in Journals, NEW added \in Seq(Events), NEW e, e = [j EXCEPT !.events = j.events \o added]
  PROVE  Extended(j, e, added)
<1> DEFINE a == j.events
           b == a \o added
<1>1. a \in Seq(Events) /\ j = [identity |-> j.identity, events |-> a] /\ j.identity \in Nat
  BY EventAt
<1>0. e = [j EXCEPT !.events = b]
  OBVIOUS
<1> HIDE DEF a
<1>2. /\ b \in Seq(Events) /\ Len(b) = Len(a) + Len(added)
      /\ \A i \in DOMAIN a : i \in DOMAIN b /\ b[i] = a[i]
      /\ \A k \in DOMAIN added : Len(a) + k \in DOMAIN b /\ b[Len(a) + k] = added[k]
      /\ \A i \in DOMAIN b : i \in DOMAIN a \/ \E k \in DOMAIN added : i = Len(a) + k
  BY <1>1, Joined
<1> HIDE DEF b
<1>3. e = [identity |-> j.identity, events |-> b] /\ e \in Journals
  BY <1>0, <1>1, <1>2 DEF Journals
<1>4. e.identity = j.identity /\ e.events = b
  BY <1>3
<1> QED BY <1>2, <1>3, <1>4 DEF a, b, Extended

-----------------------------------------------------------------------------
(***************************************************************************)
(* The invariant of the specification.                                     *)
(***************************************************************************)
JournalTypes ==
  /\ recording \in BOOLEAN /\ identities \in Nat /\ journal \in Journals
  /\ frames \in Seq(FrameRecords) /\ printed \in Seq(Nat)

StringIsRight(c, p) ==
  /\ c.from \in Nat \ {0} /\ c.to \in 0 .. Len(p)
  /\ c.texts = Ascending(PrintedIn(p, c.from, c.to, c.depth), c.to)

Running ==
  /\ TextInv(frames, journal, printed)
  /\ recording = frames[1].owner
  /\ recording /\ ~ErrorHandlers => Pending(frames, journal)
  /\ result = <<>>

Closed == EachTextOnce /\ (~ErrorHandlers => UnhandledIsReturned)

JournalInv ==
  /\ JournalTypes /\ StringIsRight(captured, printed)
  /\ frames # <<>> => Running
  /\ frames = <<>> => Closed

LEMMA RunningFacts ==
  ASSUME JournalInv, frames # <<>>
  PROVE  /\ recording \in BOOLEAN /\ identities \in Nat /\ journal \in Journals
         /\ frames \in Seq(FrameRecords) /\ printed \in Seq(Nat)
         /\ TextInv(frames, journal, printed) /\ recording = frames[1].owner
         /\ recording /\ ~ErrorHandlers => Pending(frames, journal)
         /\ result = <<>> /\ StringIsRight(captured, printed)
         /\ Vm(frames, 1) /\ Len(frames) \in Nat /\ Len(frames) \in DOMAIN frames
         /\ Depth(frames) = DepthAt(frames, Len(frames)) /\ Depth(frames) \in Nat
<1>1. frames \in Seq(FrameRecords) /\ TextInv(frames, journal, printed)
  BY DEF JournalInv, JournalTypes, Running
<1>2. Len(frames) \in Nat /\ Len(frames) \in DOMAIN frames
  BY <1>1
<1>3. Depth(frames) = DepthAt(frames, Len(frames))
  BY <1>1, DepthOfStack
<1>4. DepthAt(frames, Len(frames)) \in Nat
  BY <1>2, DepthIsNat
<1>5. Vm(frames, 1)
  BY <1>1 DEF TextInv, Stacked
<1> QED BY <1>1, <1>2, <1>3, <1>4, <1>5 DEF JournalInv, JournalTypes, Running

(* Where an invocation still runs, the invariant is this.                   *)
LEMMA StillRunning ==
  ASSUME JournalTypes', StringIsRight(captured, printed)', frames' # <<>>,
         TextInv(frames', journal', printed'), recording' = frames'[1].owner,
         recording' /\ ~ErrorHandlers => Pending(frames', journal'), result' = <<>>
  PROVE  JournalInv'
BY DEF JournalInv, Running

(* Texts recorded.                                                          *)
LEMMA TextsRecorded ==
  ASSUME NEW outputs \in Seq(Outputs), NEW depth \in Nat,
         NEW added, added = [i \in DOMAIN outputs |->
              [kind |-> "text", text |-> outputs[i].text, depth |-> depth, disposition |-> "visible"]]
  PROVE  /\ added \in Seq(Events) /\ DOMAIN added = DOMAIN outputs /\ Len(added) = Len(outputs)
         /\ \A i \in DOMAIN outputs : /\ added[i].kind = "text" /\ added[i].text = outputs[i].text
                                      /\ added[i].depth = depth /\ added[i].disposition = "visible"
<1>1. DOMAIN outputs = 1 .. Len(outputs) /\ Len(outputs) \in Nat /\ \A i \in DOMAIN outputs : outputs[i] \in Outputs
  OBVIOUS
<1>2. \A i \in DOMAIN outputs : outputs[i].text \in Nat
  BY <1>1 DEF Outputs
<1>3. \A i \in 1 .. Len(outputs) :
        [kind |-> "text", text |-> outputs[i].text, depth |-> depth, disposition |-> "visible"] \in Events
  BY <1>1, <1>2 DEF Events
<1>4. added \in Seq(Events) /\ Len(added) = Len(outputs)
  BY <1>1, <1>3
<1> QED BY <1>1, <1>4

LEMMA PrintsOn ==
  ASSUME NEW p \in Seq(Nat), NEW d \in Nat, NEW c, StringIsRight(c, p)
  PROVE  /\ Append(p, d) \in Seq(Nat) /\ Printed(p, Append(p, d), d)
         /\ StringIsRight(c, Append(p, d))
<1> DEFINE q == Append(p, d)
           last == Len(p)
<1>1. /\ last \in Nat /\ q \in Seq(Nat) /\ Len(q) = last + 1 /\ q[last + 1] = d
      /\ \A y \in 1 .. last : q[y] = p[y]
  OBVIOUS
<1> HIDE DEF q
<1>2. Printed(p, q, d)
  BY <1>1 DEF Printed
<1> HIDE DEF last
<1>3. c.from \in Nat \ {0} /\ c.to \in 0 .. last
  BY DEF StringIsRight, last
<1>4. \A y \in c.from .. c.to : y \in 1 .. last
  BY <1>1, <1>3
<1>5. PrintedIn(p, c.from, c.to, c.depth) = PrintedIn(q, c.from, c.to, c.depth)
  BY <1>1, <1>4 DEF PrintedIn
<1>6. StringIsRight(c, q)
  BY <1>1, <1>3, <1>5 DEF StringIsRight, last
<1> QED BY <1>1, <1>2, <1>6 DEF q

LEMMA StepPrintText ==
  ASSUME JournalInv, PrintText
  PROVE  JournalInv'
<1> DEFINE d == Depth(frames)
           o == [text |-> Len(printed'), replay |-> FALSE, stamp |-> IF Recorder THEN Stamp(1) ELSE NoStamp]
           output == <<o>>
<1>0. frames # <<>>
  BY DEF PrintText, Executing
<1>1. /\ recording \in BOOLEAN /\ identities \in Nat /\ journal \in Journals
      /\ frames \in Seq(FrameRecords) /\ printed \in Seq(Nat)
      /\ TextInv(frames, journal, printed) /\ recording = frames[1].owner
      /\ recording /\ ~ErrorHandlers => Pending(frames, journal)
      /\ result = <<>> /\ StringIsRight(captured, printed)
      /\ Vm(frames, 1) /\ Len(frames) \in Nat
      /\ d = DepthAt(frames, Len(frames)) /\ d \in Nat
  BY <1>0, RunningFacts
<1>2. /\ printed' = Append(printed, d)
      /\ frames' = WithOutput(frames, output)
      /\ Recorder => journal' = [journal EXCEPT !.events = WithTexts(journal.events, output, d)]
      /\ ~Recorder => journal' = journal
      /\ UNCHANGED <<recording, identities, raised, journalCalls, captured, result>>
  BY DEF PrintText
<1>3. Len(printed') = Len(printed) + 1 /\ Len(printed') \in Nat
  BY <1>1, <1>2
<1>4. journal.identity \in Nat /\ journal.events \in Seq(Events) /\ Len(journal.events) \in Nat
      /\ DOMAIN journal.events = 1 .. Len(journal.events)
  BY <1>1, EventAt
<1>5. /\ o \in Outputs /\ o.text = Len(printed) + 1
      /\ journal.identity # 0 => o.stamp.identity = journal.identity /\ o.stamp.sequence = Len(journal.events) + 1
  BY <1>3, <1>4 DEF Outputs, Stamps, Stamp, NoStamp, Recorder
<1> HIDE DEF d, o
<1>6. output \in Seq(Outputs) /\ DOMAIN output = {1} /\ Len(output) = 1 /\ output[1] = o
  BY <1>5
<1> HIDE DEF output
<1>7. PICK x : TopSink(frames, x) /\ Poured(frames, frames', x, output)
  BY <1>1, <1>2, <1>6, OutputGoesToSink
<1>8. frames' \in Seq(FrameRecords) /\ SameErrors(frames, frames') /\ DOMAIN frames' = DOMAIN frames
  BY <1>1, <1>2, <1>6, OutputGoesToSink
<1>9. /\ printed' \in Seq(Nat) /\ Printed(printed, printed', d) /\ StringIsRight(captured, printed')
  BY <1>1, <1>2, PrintsOn
<1>10. /\ journal' \in Journals /\ TextAdded(journal, journal', Len(printed) + 1, d)
       /\ NothingOpens(journal, journal')
  <2>1. CASE Recorder
    <3> DEFINE added == [i \in DOMAIN output |-> [kind |-> "text", text |-> output[i].text, depth |-> d,
                                                  disposition |-> "visible"]]
    <3>1. /\ added \in Seq(Events) /\ DOMAIN added = DOMAIN output /\ Len(added) = Len(output)
          /\ \A i \in DOMAIN output : /\ added[i].kind = "text" /\ added[i].text = output[i].text
                                      /\ added[i].depth = d /\ added[i].disposition = "visible"
      BY <1>1, <1>6, TextsRecorded
    <3>2. journal' = [journal EXCEPT !.events = journal.events \o added]
      BY <2>1, <1>2 DEF WithTexts
    <3> HIDE DEF added
    <3>3. /\ journal' \in Journals /\ journal'.identity = journal.identity
          /\ Len(journal'.events) = Len(journal.events) + Len(added)
          /\ \A i \in DOMAIN journal.events : i \in DOMAIN journal'.events /\ journal'.events[i] = journal.events[i]
          /\ \A k \in DOMAIN added : journal'.events[Len(journal.events) + k] = added[k]
          /\ \A i \in DOMAIN journal'.events : i \in DOMAIN journal.events \/ \E k \in DOMAIN added : i = Len(journal.events) + k
      <4>1. Extended(journal, journal', added)
        BY <1>1, <3>1, <3>2, EventsAdded
      <4> QED BY <4>1 DEF Extended
    <3>4. DOMAIN journal'.events = 1 .. Len(journal'.events)
      BY <3>3, EventAt
    <3>5. /\ Len(journal'.events) = Len(journal.events) + 1
          /\ journal'.events[Len(journal.events) + 1].kind = "text"
          /\ journal'.events[Len(journal.events) + 1].text = Len(printed) + 1
          /\ journal'.events[Len(journal.events) + 1].depth = d
          /\ journal'.events[Len(journal.events) + 1].disposition = "visible"
          /\ \A i \in DOMAIN journal'.events : i \in DOMAIN journal.events \/ i = Len(journal.events) + 1
      BY <3>1, <3>3, <1>5, <1>6
    <3>6. TextAdded(journal, journal', Len(printed) + 1, d)
      BY <3>3, <3>4, <3>5, <1>4, <2>1 DEF TextAdded, Recorder
    <3>7. NothingOpens(journal, journal')
      BY <3>3, <3>5 DEF NothingOpens, Undisposed
    <3> QED BY <3>3, <3>6, <3>7
  <2>2. CASE ~Recorder
    BY <2>2, <1>1, <1>2, <1>4 DEF TextAdded, NothingOpens, Recorder
  <2> QED BY <2>1, <2>2
<1>11. TextInv(frames', journal', printed')
  BY <1>1, <1>5, <1>7, <1>8, <1>9, <1>10, TextPrinted DEF output
<1>12. recording' = frames'[1].owner
  BY <1>1, <1>2, <1>7 DEF Poured, SameShape, Vm
<1>13. recording' /\ ~ErrorHandlers => Pending(frames', journal')
  BY <1>1, <1>2, <1>8, <1>10, PendingStays
<1>14. JournalTypes' /\ frames' # <<>> /\ result' = <<>> /\ StringIsRight(captured, printed)'
  <2>1. 1 \in DOMAIN frames'
    BY <1>1, <1>8 DEF Vm
  <2> QED BY <2>1, <1>1, <1>2, <1>8, <1>9, <1>10 DEF JournalTypes
<1> QED BY <1>11, <1>12, <1>13, <1>14, StillRunning

(* What is open now was open, or a frame that is gone held it.              *)
OnlyHeld(f, i, j) ==
  /\ j.identity = i.identity
  /\ \A k \in DOMAIN i.events : k \in DOMAIN j.events /\ j.events[k].kind = i.events[k].kind
  /\ \A k \in DOMAIN j.events : Undisposed(j, k) => HeldBy(f, k) \/ (k \in DOMAIN i.events /\ Undisposed(i, k))

LEMMA CarriedUp ==
  ASSUME NEW s, NEW t, NEW u, NEW f, OnTop(s, u, f), SameErrors(s, t), NEW i, NEW j, OnlyHeld(f, i, j), Pending(u, i)
  PROVE  Carried(t, f.errors, j)
<1>1. /\ \A k \in DOMAIN u : (k \in DOMAIN s /\ u[k] = s[k]) \/ u[k] = f
      /\ \A k \in DOMAIN s : k \in DOMAIN u /\ u[k] = s[k]
      /\ \E k \in DOMAIN u : u[k] = f
  BY DEF OnTop
<1>2. \A k \in DOMAIN t : \A l \in DOMAIN t[k].errors : ErrorOf(j, t[k].errors[l])
  BY <1>1 DEF SameErrors, OnlyHeld, Pending, ErrorOf
<1>3. \A l \in DOMAIN f.errors : ErrorOf(j, f.errors[l])
  BY <1>1 DEF OnlyHeld, Pending, ErrorOf
<1>4. \A k \in DOMAIN t : t[k].kind = "element" => ~t[k].recover
  BY <1>1 DEF SameErrors, Pending
<1>5. ASSUME NEW e \in DOMAIN j.events, Undisposed(j, e)
      PROVE  (\E k \in DOMAIN t : HeldBy(t[k], e)) \/ \E l \in DOMAIN f.errors : f.errors[l].sequence = e
  <2>1. PICK k \in DOMAIN u : HeldBy(u[k], e)
    BY <1>1, <1>5 DEF OnlyHeld, Pending
  <2>2. CASE k \in DOMAIN s /\ u[k] = s[k]
    BY <2>1, <2>2 DEF SameErrors, HeldBy
  <2>3. CASE u[k] = f
    BY <2>1, <2>3 DEF HeldBy
  <2> QED BY <2>2, <2>3, <1>1
<1> QED BY <1>2, <1>3, <1>4, <1>5 DEF Carried

LEMMA JournalAlike ==
  ASSUME NEW j, j.identity = 0 => j.events = <<>>
  PROVE  ErrorsFollow(j, j) /\ NothingOpens(j, j)
BY DEF ErrorsFollow, NothingOpens, SameEvent

LEMMA StepRaise ==
  ASSUME JournalInv, Raise
  PROVE  JournalInv'
<1>0. frames # <<>>
  BY DEF Raise, Executing
<1>1. /\ recording \in BOOLEAN /\ identities \in Nat /\ journal \in Journals
      /\ frames \in Seq(FrameRecords) /\ printed \in Seq(Nat)
      /\ TextInv(frames, journal, printed) /\ recording = frames[1].owner
      /\ recording /\ ~ErrorHandlers => Pending(frames, journal)
      /\ result = <<>> /\ StringIsRight(captured, printed)
      /\ Vm(frames, 1) /\ Depth(frames) \in Nat
  BY <1>0, RunningFacts
<1>2. PICK count \in 1 .. 2 :
        /\ frames' = WithFailure(frames, [i \in 1 .. count |-> IF Recorder THEN Stamp(i) ELSE NoStamp])
        /\ journal' = IF Recorder
                      THEN [journal EXCEPT !.events = WithErrors(journal.events, count, Depth(frames))] ELSE journal
  BY DEF Raise
<1>3. UNCHANGED <<recording, identities, printed, journalCalls, captured, result>>
  BY DEF Raise
<1> DEFINE errors == [i \in 1 .. count |-> IF Recorder THEN Stamp(i) ELSE NoStamp]
           added == [i \in 1 .. count |-> [kind |-> "error", text |-> 0, depth |-> Depth(frames),
                                           disposition |-> "raised"]]
<1>4. journal.identity \in Nat /\ Len(journal.events) \in Nat /\ (journal.identity = 0 => journal.events = <<>>)
  BY <1>1, EventAt DEF TextInv, Owned
<1>5. /\ errors \in Seq(Stamps) /\ DOMAIN errors = 1 .. count
      /\ Recorder => \A i \in 1 .. count :
           errors[i].identity = journal.identity /\ errors[i].sequence = Len(journal.events) + i
  <2>1. \A i \in 1 .. count : Stamp(i) \in Stamps /\ NoStamp \in Stamps
    BY <1>4 DEF Stamp, NoStamp, Stamps
  <2>2. \A i \in 1 .. count : errors[i] \in Stamps
    BY <2>1
  <2> QED BY <2>2 DEF Stamp
<1>6. /\ added \in Seq(Events) /\ DOMAIN added = 1 .. count
      /\ \A i \in 1 .. count : added[i].kind = "error"
  <2>1. [kind |-> "error", text |-> 0, depth |-> Depth(frames), disposition |-> "raised"] \in Events
    BY <1>1 DEF Events
  <2> QED BY <2>1
<1>7. frames' = WithFailure(frames, errors)
      /\ journal' = IF Recorder THEN [journal EXCEPT !.events = journal.events \o added] ELSE journal
  BY <1>2 DEF WithErrors
<1> HIDE DEF errors, added
<1>8. frames' \in Seq(FrameRecords) /\ SameTexts(frames, frames') /\ ErrorsJoin(frames, frames', errors)
  BY <1>0, <1>1, <1>5, <1>7, FailureGoesToTop
<1>9. Recorder => Extended(journal, journal', added)
  <2>1. CASE Recorder
    <3>1. journal' = [journal EXCEPT !.events = journal.events \o added]
      BY <2>1, <1>7
    <3> QED BY <3>1, <1>1, <1>6, EventsAdded
  <2> QED BY <2>1
<1>10. journal' \in Journals /\ ErrorsFollow(journal, journal')
  <2>1. CASE Recorder
    BY <2>1, <1>6, <1>9 DEF Extended, ErrorsFollow, SameEvent, Recorder
  <2>2. CASE ~Recorder
    BY <2>2, <1>1, <1>4, <1>7, JournalAlike
  <2> QED BY <2>1, <2>2
<1>11. TextInv(frames', journal', printed')
  BY <1>1, <1>3, <1>8, <1>10, TextsUntouched
<1>12. recording' = frames'[1].owner /\ frames' # <<>>
  <2>1. 1 \in DOMAIN frames'
    BY <1>1, <1>8 DEF Vm, SameTexts
  <2> QED BY <2>1, <1>1, <1>3, <1>8 DEF SameTexts, SameText
<1>13. recording' /\ ~ErrorHandlers => Pending(frames', journal')
  <2> SUFFICES ASSUME recording, ~ErrorHandlers PROVE Pending(frames', journal')
    BY <1>3
  <2>1. Pending(frames, journal)
    BY <1>1
  <2>2. Recorder
    BY <1>1 DEF TextInv, Owned, Recorder, Vm
  <2>3. Extended(journal, journal', added)
    BY <2>2, <1>9
  <2>4. \A k \in DOMAIN frames : \A l \in DOMAIN frames[k].errors : ErrorOf(journal', frames[k].errors[l])
    BY <2>1, <2>3 DEF Pending, ErrorOf, Extended
  <2>5. \A l \in DOMAIN errors : ErrorOf(journal', errors[l])
    <3> SUFFICES ASSUME NEW l \in DOMAIN errors PROVE ErrorOf(journal', errors[l])
      OBVIOUS
    <3>1. l \in 1 .. count /\ l \in DOMAIN added /\ added[l].kind = "error"
      BY <1>5, <1>6
    <3>2. errors[l].identity = journal.identity /\ errors[l].sequence = Len(journal.events) + l
      BY <3>1, <2>2, <1>5
    <3>3. /\ journal'.identity = journal.identity
          /\ Len(journal.events) + l \in DOMAIN journal'.events
          /\ journal'.events[Len(journal.events) + l] = added[l]
      BY <3>1, <2>3 DEF Extended
    <3> QED BY <3>1, <3>2, <3>3 DEF ErrorOf
  <2>6. \A i \in DOMAIN journal'.events : Undisposed(journal', i) =>
          (\E k \in DOMAIN frames : HeldBy(frames[k], i)) \/ \E l \in DOMAIN errors : errors[l].sequence = i
    <3> SUFFICES ASSUME NEW i \in DOMAIN journal'.events, Undisposed(journal', i)
                 PROVE  (\E k \in DOMAIN frames : HeldBy(frames[k], i)) \/ \E l \in DOMAIN errors : errors[l].sequence = i
      OBVIOUS
    <3>1. CASE i \in DOMAIN journal.events
      <4>1. Undisposed(journal, i)
        BY <3>1, <2>3 DEF Extended, Undisposed
      <4> QED BY <4>1, <3>1, <2>1 DEF Pending
    <3>2. CASE \E l \in DOMAIN added : i = Len(journal.events) + l
      BY <3>2, <2>2, <1>5, <1>6
    <3> QED BY <3>1, <3>2, <2>3 DEF Extended
  <2>7. Carried(frames, errors, journal')
    BY <2>1, <2>4, <2>5, <2>6 DEF Carried, Pending
  <2> QED BY <2>7, <1>0, <1>1, <1>5, <1>8, PendingHeld
<1>14. JournalTypes' /\ result' = <<>> /\ StringIsRight(captured, printed)'
  BY <1>1, <1>3, <1>8, <1>10 DEF JournalTypes
<1> QED BY <1>11, <1>12, <1>13, <1>14, StillRunning

LEMMA StepValidate ==
  ASSUME JournalInv, Validate
  PROVE  JournalInv'
<1>0. frames # <<>>
  BY DEF Validate, Executing
<1>1. /\ recording \in BOOLEAN /\ identities \in Nat /\ journal \in Journals
      /\ frames \in Seq(FrameRecords) /\ printed \in Seq(Nat)
      /\ TextInv(frames, journal, printed) /\ recording = frames[1].owner
      /\ recording /\ ~ErrorHandlers => Pending(frames, journal)
      /\ result = <<>> /\ StringIsRight(captured, printed)
      /\ Vm(frames, 1) /\ Depth(frames) \in Nat
  BY <1>0, RunningFacts
<1> DEFINE e == [kind |-> "error", text |-> 0, depth |-> Depth(frames), disposition |-> "suppressed"]
           added == <<e>>
<1>2. /\ journal' = [journal EXCEPT !.events = Append(journal.events, e)]
      /\ UNCHANGED <<recording, identities, frames, printed, journalCalls, captured, result>>
      /\ journal.identity # 0
  BY DEF Validate, Recorder
<1>3. journal.events \in Seq(Events)
  BY <1>1, EventAt
<1>4. e \in Events /\ e.kind = "error" /\ e.disposition = "suppressed"
  BY <1>1 DEF Events
<1> HIDE DEF e
<1>5. added \in Seq(Events) /\ DOMAIN added = {1} /\ added[1] = e
  BY <1>4
<1>6. Append(journal.events, e) = journal.events \o added
  BY <1>3, <1>4
<1>7. journal' = [journal EXCEPT !.events = journal.events \o added]
  BY <1>2, <1>6
<1> HIDE DEF added
<1>8. Extended(journal, journal', added)
  BY <1>1, <1>5, <1>7, EventsAdded
<1>9. ErrorsFollow(journal, journal') /\ NothingOpens(journal, journal')
  BY <1>2, <1>4, <1>5, <1>8 DEF Extended, ErrorsFollow, NothingOpens, Undisposed, SameEvent
<1>10. journal' \in Journals
  BY <1>8 DEF Extended
<1>11. TextInv(frames', journal', printed')
  <2>1. SameTexts(frames, frames)
    BY <1>1, NothingTouched
  <2> QED BY <2>1, <1>1, <1>2, <1>9, <1>10, TextsUntouched
<1>12. recording' /\ ~ErrorHandlers => Pending(frames', journal')
  <2>1. SameErrors(frames, frames)
    BY DEF SameErrors
  <2> QED BY <2>1, <1>1, <1>2, <1>9, PendingStays
<1>13. /\ JournalTypes' /\ result' = <<>> /\ StringIsRight(captured, printed)'
       /\ recording' = frames'[1].owner /\ frames' # <<>>
  BY <1>0, <1>1, <1>2, <1>10 DEF JournalTypes
<1> QED BY <1>11, <1>12, <1>13, StillRunning

-----------------------------------------------------------------------------
(* A frame is pushed.                                                       *)
LEMMA PushFacts ==
  ASSUME JournalInv, NEW f \in FrameRecords, Push(f)
  PROVE  /\ frames # <<>> /\ frames' \in Seq(FrameRecords) /\ OnTop(frames, frames', f)
         /\ frames' # <<>> /\ frames'[1].owner = frames[1].owner
<1>1. frames # <<>> /\ frames' = Append(frames, f)
  BY DEF Push, Executing
<1>2. frames \in Seq(FrameRecords) /\ Vm(frames, 1)
  BY <1>1, RunningFacts
<1>3. OnTop(frames, frames', f) /\ frames' \in Seq(FrameRecords)
  BY <1>1, <1>2, AppendIsOnTop
<1>4. frames'[1] = frames[1] /\ 1 \in DOMAIN frames'
  BY <1>2, <1>3 DEF OnTop, Vm
<1>5. frames' # <<>>
  BY <1>4
<1> QED BY <1>1, <1>3, <1>4, <1>5

LEMMA StepCall ==
  ASSUME JournalInv, NEW f \in FrameRecords, Push(f), f.kind \in {"try", "element", "callback"},
         ~f.capture, ~f.owner, f.output = <<>>, f.errors = <<>>, ~ErrorHandlers /\ f.kind = "element" => ~f.recover,
         f.kind = "callback" => \E m \in DOMAIN frames : frames[m].owner,
         UNCHANGED <<recording, journal, identities, printed, captured, result>>
  PROVE  JournalInv'
<1>1. /\ frames # <<>> /\ frames' \in Seq(FrameRecords) /\ OnTop(frames, frames', f)
      /\ frames' # <<>> /\ frames'[1].owner = frames[1].owner
  BY PushFacts
<1>2. /\ recording \in BOOLEAN /\ identities \in Nat /\ journal \in Journals
      /\ frames \in Seq(FrameRecords) /\ printed \in Seq(Nat)
      /\ TextInv(frames, journal, printed) /\ recording = frames[1].owner
      /\ recording /\ ~ErrorHandlers => Pending(frames, journal)
      /\ result = <<>> /\ StringIsRight(captured, printed)
  BY <1>1, RunningFacts
<1>3. TextInv(frames', journal', printed')
  BY <1>1, <1>2, CallBegins
<1>4. recording' /\ ~ErrorHandlers => Pending(frames', journal')
  <2>1. NothingOpens(journal, journal)
    BY DEF NothingOpens
  <2> QED BY <2>1, <1>1, <1>2, PendingPushed
<1>5. /\ JournalTypes' /\ result' = <<>> /\ StringIsRight(captured, printed)'
      /\ recording' = frames'[1].owner
  BY <1>1, <1>2 DEF JournalTypes
<1> QED BY <1>1, <1>3, <1>4, <1>5, StillRunning

LEMMA StepTry ==
  ASSUME JournalInv, Try
  PROVE  JournalInv'
<1> DEFINE f == Frame("try")
<1>1. /\ f \in FrameRecords /\ f.kind = "try" /\ ~f.capture /\ ~f.owner /\ ~f.recover
      /\ f.output = <<>> /\ f.errors = <<>>
  BY DEF Frame, FrameRecords
<1>2. Push(f) /\ UNCHANGED <<recording, journal, identities, printed, captured, result>>
  BY DEF Try
<1> HIDE DEF f
<1> QED BY <1>1, <1>2, StepCall

LEMMA StepCallElement ==
  ASSUME JournalInv, CallElement
  PROVE  JournalInv'
<1>0. PICK recover \in (IF ErrorHandlers THEN BOOLEAN ELSE {FALSE}) :
        Push([Frame("element") EXCEPT !.recover = recover])
  BY Zenon DEF CallElement
<1> DEFINE f == [Frame("element") EXCEPT !.recover = recover]
<1>1. /\ f \in FrameRecords /\ f.kind = "element" /\ ~f.capture /\ ~f.owner
      /\ f.output = <<>> /\ f.errors = <<>> /\ f.recover = recover
  <2>1. recover \in BOOLEAN
    OBVIOUS
  <2>3. f = [Frame("element") EXCEPT !.recover = recover]
    OBVIOUS
  <2> HIDE DEF f
  <2>2. f = [kind |-> "element", capture |-> FALSE, recover |-> recover, owner |-> FALSE,
             begin |-> 0, from |-> 1, output |-> <<>>, errors |-> <<>>]
    BY <2>3 DEF Frame
  <2> QED BY <2>1, <2>2 DEF FrameRecords
<1>2. Push(f) /\ UNCHANGED <<recording, journal, identities, printed, captured, result>>
  BY <1>0 DEF CallElement
<1>3. ~ErrorHandlers => ~f.recover
  BY <1>1
<1> HIDE DEF f
<1> QED BY <1>1, <1>2, <1>3, StepCall

LEMMA StepCallBack ==
  ASSUME JournalInv, CallBack
  PROVE  JournalInv'
<1> DEFINE f == Frame("callback")
<1>1. /\ f \in FrameRecords /\ f.kind = "callback" /\ ~f.capture /\ ~f.owner /\ ~f.recover
      /\ f.output = <<>> /\ f.errors = <<>>
  BY DEF Frame, FrameRecords
<1>2. Push(f) /\ UNCHANGED <<recording, journal, identities, printed, captured, result>>
  BY DEF CallBack
<1>3. \E m \in DOMAIN frames : frames[m].owner
  <2>1. frames # <<>> /\ frames \in Seq(FrameRecords) /\ TextInv(frames, journal, printed)
    BY <1>2, RunningFacts DEF Push, Executing
  <2>2. PICK i \in 2 .. Len(frames) : frames[i].kind = "vm"
    BY DEF CallBack
  <2>3. i \in DOMAIN frames /\ i > 1 /\ Vm(frames, i) /\ \A m \in 1 .. i : m \in DOMAIN frames
    BY <2>1, <2>2 DEF Vm
  <2> QED BY <2>1, <2>3 DEF TextInv, Owned
<1> HIDE DEF f
<1> QED BY <1>1, <1>2, <1>3, StepCall

LEMMA StepEvaluateText ==
  ASSUME JournalInv, EvaluateText
  PROVE  JournalInv'
<1>0. PICK capture \in BOOLEAN, recover \in BOOLEAN :
        Push([Frame("vm") EXCEPT !.capture = capture, !.recover = recover, !.owner = ~Recorder,
                                 !.begin = Len(journal.events), !.from = Len(printed) + 1])
  BY Zenon DEF EvaluateText
<1>1. frames # <<>>
  BY <1>0, Zenon DEF Push, Executing
<1>2. /\ recording \in BOOLEAN /\ identities \in Nat /\ journal \in Journals
      /\ frames \in Seq(FrameRecords) /\ printed \in Seq(Nat)
      /\ TextInv(frames, journal, printed) /\ recording = frames[1].owner
      /\ recording /\ ~ErrorHandlers => Pending(frames, journal)
      /\ result = <<>> /\ StringIsRight(captured, printed) /\ Vm(frames, 1)
  BY <1>1, RunningFacts
<1>3. Len(journal.events) \in Nat /\ Len(printed) + 1 \in Nat /\ journal.identity \in Nat
  BY <1>2, EventAt
<1> DEFINE f == [Frame("vm") EXCEPT !.capture = capture, !.recover = recover, !.owner = ~Recorder,
                                    !.begin = Len(journal.events), !.from = Len(printed) + 1]
<1>4. /\ f \in FrameRecords /\ f.kind = "vm" /\ f.output = <<>> /\ f.errors = <<>>
      /\ f.from = Len(printed) + 1 /\ f.begin = Len(journal.events) /\ (f.owner <=> ~Recorder)
  <2> DEFINE owner == ~Recorder
             begin == Len(journal.events)
             from == Len(printed) + 1
  <2>1. owner \in BOOLEAN /\ begin \in Nat /\ from \in Nat
    BY <1>3
  <2> HIDE DEF owner, begin, from
  <2>2. f = [Frame("vm") EXCEPT !.capture = capture, !.recover = recover, !.owner = owner,
                                !.begin = begin, !.from = from]
    BY Zenon DEF owner, begin, from
  <2> HIDE DEF f
  <2>4. f = [kind |-> "vm", capture |-> capture, recover |-> recover, owner |-> owner,
             begin |-> begin, from |-> from, output |-> <<>>, errors |-> <<>>]
    BY <2>2 DEF Frame
  <2>3. /\ f \in FrameRecords /\ f.kind = "vm" /\ f.output = <<>> /\ f.errors = <<>>
        /\ f.from = from /\ f.begin = begin /\ f.owner = owner
    BY <2>1, <2>4 DEF FrameRecords
  <2> QED BY <2>3 DEF owner, begin, from
<1>5. Push(f)
  BY <1>0
<1> HIDE DEF f
<1>6. /\ frames' \in Seq(FrameRecords) /\ OnTop(frames, frames', f)
      /\ frames' # <<>> /\ frames'[1].owner = frames[1].owner
  BY <1>4, <1>5, PushFacts
<1>7. /\ identities' = IF Recorder THEN identities ELSE identities + 1
      /\ journal' = IF Recorder THEN journal ELSE [identity |-> identities', events |-> <<>>]
      /\ UNCHANGED <<recording, printed, captured, result>>
  BY DEF EvaluateText
<1>8. journal.identity = 0 => journal.events = <<>>
  BY <1>2 DEF TextInv, Owned
<1>9. /\ journal' \in Journals /\ journal'.identity # 0 /\ journal'.events = journal.events
      /\ journal.identity # 0 => journal' = journal
      /\ identities' \in Nat
  BY <1>2, <1>3, <1>7, <1>8 DEF Journals, Recorder
<1>10. f.owner <=> journal.identity = 0
  BY <1>4 DEF Recorder
<1>11. TextInv(frames', journal', printed')
  BY <1>2, <1>4, <1>6, <1>7, <1>9, <1>10, MachineBegins
<1>12. recording' /\ ~ErrorHandlers => Pending(frames', journal')
  <2> SUFFICES ASSUME recording, ~ErrorHandlers PROVE Pending(frames', journal')
    BY <1>7
  <2>1. journal.identity # 0
    BY <1>2 DEF TextInv, Owned, Vm
  <2>2. journal' = journal /\ NothingOpens(journal, journal)
    BY <2>1, <1>9 DEF NothingOpens
  <2>3. f.kind = "element" => ~f.recover
    BY <1>4
  <2> QED BY <2>2, <2>3, <1>2, <1>4, <1>6, PendingPushed
<1>13. JournalTypes' /\ result' = <<>> /\ StringIsRight(captured, printed)' /\ recording' = frames'[1].owner
  BY <1>2, <1>6, <1>7, <1>9 DEF JournalTypes
<1> QED BY <1>6, <1>11, <1>12, <1>13, StillRunning

-----------------------------------------------------------------------------
(* A frame is left.                                                         *)
LEMMA PopFacts ==
  ASSUME JournalInv, frames # <<>>
  PROVE  /\ Front(frames) \in Seq(FrameRecords) /\ OnTop(Front(frames), frames, Last(frames))
         /\ Len(frames) = Len(Front(frames)) + 1 /\ Last(frames) = frames[Len(frames)]
         /\ Last(frames) \in FrameRecords /\ Last(frames).output \in Seq(Outputs)
         /\ Last(frames).errors \in Seq(Stamps)
         /\ Last(frames).kind # "vm" \/ Len(frames) > 1 =>
              /\ Vm(Front(frames), 1) /\ Front(frames) # <<>>
              /\ Front(frames)[1] = frames[1] /\ 1 \in DOMAIN Front(frames)
<1>1. frames \in Seq(FrameRecords) /\ Vm(frames, 1) /\ Len(frames) \in Nat /\ Len(frames) \in DOMAIN frames
  BY RunningFacts
<1>2. /\ Front(frames) \in Seq(FrameRecords) /\ OnTop(Front(frames), frames, Last(frames))
      /\ Len(frames) = Len(Front(frames)) + 1 /\ Last(frames) = frames[Len(frames)]
      /\ Last(frames) \in FrameRecords
  BY <1>1, FrontIsBelow
<1>3. Last(frames).output \in Seq(Outputs) /\ Last(frames).errors \in Seq(Stamps)
  BY <1>2 DEF FrameRecords
<1>4. ASSUME Last(frames).kind # "vm" \/ Len(frames) > 1
      PROVE  /\ Vm(Front(frames), 1) /\ Front(frames) # <<>>
             /\ Front(frames)[1] = frames[1] /\ 1 \in DOMAIN Front(frames)
  <2> DEFINE s == Front(frames)
             n == Len(frames)
  <2>1. n # 1
    <3>1. n = 1 => Last(frames) = frames[1] /\ frames[1].kind = "vm"
      BY <1>1, <1>2 DEF Vm
    <3>2. n = 1 => ~(n > 1)
      OBVIOUS
    <3> QED BY <3>1, <3>2, <1>4
  <2>2. n \in Nat /\ 1 \in 1 .. n
    BY <1>1 DEF Vm
  <2>3. DOMAIN s = 1 .. n - 1 /\ \A k \in DOMAIN s : frames[k] = s[k]
    BY <1>2 DEF OnTop
  <2> HIDE DEF s, n
  <2>4. 1 \in DOMAIN s
    BY <2>1, <2>2, <2>3
  <2>5. s # <<>>
    BY <2>4
  <2>6. s[1] = frames[1]
    BY <2>3, <2>4
  <2>7. Vm(s, 1)
    BY <2>4, <2>6, <1>1 DEF Vm
  <2> QED BY <2>4, <2>5, <2>6, <2>7 DEF s
<1> QED BY <1>2, <1>3, <1>4

LEMMA StepLeaveTry ==
  ASSUME JournalInv, LeaveTry
  PROVE  JournalInv'
<1> DEFINE s == Front(frames)
           f == Last(frames)
<1>0. /\ frames # <<>> /\ f.kind = "try" /\ frames' = s
      /\ f.errors = <<>> => journal' = journal
      /\ f.errors # <<>> => journal' = [journal EXCEPT !.events = Disposed(journal.events, f.errors, "caught")]
      /\ UNCHANGED <<recording, identities, printed, raised, journalCalls, captured, result>>
  BY DEF LeaveTry, Innermost, CallerOf, RecoveredErrors
<1>1. /\ recording \in BOOLEAN /\ identities \in Nat /\ journal \in Journals
      /\ frames \in Seq(FrameRecords) /\ printed \in Seq(Nat)
      /\ TextInv(frames, journal, printed) /\ recording = frames[1].owner
      /\ recording /\ ~ErrorHandlers => Pending(frames, journal)
      /\ result = <<>> /\ StringIsRight(captured, printed) /\ Vm(frames, 1)
  BY <1>0, RunningFacts
<1>2. /\ s \in Seq(FrameRecords) /\ OnTop(s, frames, f) /\ f.errors \in Seq(Stamps)
      /\ Vm(s, 1) /\ s # <<>> /\ s[1] = frames[1]
  BY <1>0, PopFacts
<1> HIDE DEF s, f
<1>3. journal.identity = 0 => journal.events = <<>>
  BY <1>1 DEF TextInv, Owned
<1>4. f.errors # <<>> => DisposedWell(journal, journal', f.errors, "caught")
  <2> SUFFICES ASSUME f.errors # <<>> PROVE DisposedWell(journal, journal', f.errors, "caught")
    OBVIOUS
  <2>1. DisposedWell(journal, [journal EXCEPT !.events = Disposed(journal.events, f.errors, "caught")], f.errors, "caught")
    BY <1>1, <1>2, DisposedIsWell
  <2> QED BY <2>1, <1>0
<1>5. journal' \in Journals /\ ErrorsFollow(journal, journal')
  <2>1. CASE f.errors = <<>>
    BY <2>1, <1>0, <1>1, <1>3, JournalAlike
  <2>2. CASE f.errors # <<>>
    <3>1. DisposedWell(journal, journal', f.errors, "caught")
      BY <2>2, <1>4
    <3>2. ErrorsFollow(journal, journal')
      BY <3>1, <1>1, <1>3, DisposedFollows
    <3> QED BY <3>1, <3>2 DEF DisposedWell
  <2> QED BY <2>1, <2>2
<1>6. TextInv(frames, journal', printed)
  BY <1>1, <1>5, NothingTouched, TextsUntouched
<1>7. TextInv(frames', journal', printed')
  BY <1>0, <1>2, <1>6, CallEnds
<1>8. recording' /\ ~ErrorHandlers => Pending(frames', journal')
  <2> SUFFICES ASSUME recording, ~ErrorHandlers PROVE Pending(s, journal')
    BY <1>0
  <2>1. Pending(frames, journal) /\ SameErrors(s, s)
    BY <1>1 DEF SameErrors
  <2>2. CASE f.errors = <<>>
    <3>1. NothingOpens(journal, journal') /\ \A k : ~HeldBy(f, k)
      BY <2>2, <1>0 DEF NothingOpens, HeldBy
    <3> QED BY <2>1, <3>1, <1>2, PendingSettled
  <2>3. CASE f.errors # <<>>
    <3>1. DisposedWell(journal, journal', f.errors, "caught")
      BY <2>3, <1>4
    <3>2. NothingOpens(journal, journal')
      BY <3>1 DEF DisposedWell, NothingOpens, Undisposed, SameEvent
    <3>3. \A k \in DOMAIN journal'.events : Undisposed(journal', k) => ~HeldBy(f, k)
      <4> SUFFICES ASSUME NEW k \in DOMAIN journal'.events, HeldBy(f, k), Undisposed(journal', k) PROVE FALSE
        OBVIOUS
      <4>1. PICK l \in DOMAIN f.errors : f.errors[l].sequence = k
        BY DEF HeldBy
      <4>2. ErrorOf(journal, f.errors[l])
        BY <4>1, <2>1, <1>2 DEF Pending, OnTop
      <4>3. journal'.events[k].disposition = "caught"
        BY <4>1, <4>2, <3>1 DEF ErrorOf, DisposedWell
      <4> QED BY <4>3 DEF Undisposed
    <3> QED BY <2>1, <3>2, <3>3, <1>2, PendingSettled
  <2> QED BY <2>2, <2>3
<1>9. /\ JournalTypes' /\ result' = <<>> /\ StringIsRight(captured, printed)'
      /\ recording' = frames'[1].owner /\ frames' # <<>>
  BY <1>0, <1>1, <1>2, <1>5 DEF JournalTypes
<1> QED BY <1>7, <1>8, <1>9, StillRunning

LEMMA StepLeaveElement ==
  ASSUME JournalInv, LeaveElement
  PROVE  JournalInv'
<1> DEFINE s == Front(frames)
           f == Last(frames)
<1>0. /\ frames # <<>> /\ f.kind = "element"
      /\ f.recover => frames' = s
      /\ ~f.recover => frames' = WithFailure(s, f.errors)
      /\ UNCHANGED <<recording, journal, identities, printed, raised, journalCalls, captured, result>>
  BY DEF LeaveElement, Innermost, CallerOf
<1>1. /\ recording \in BOOLEAN /\ identities \in Nat /\ journal \in Journals
      /\ frames \in Seq(FrameRecords) /\ printed \in Seq(Nat)
      /\ TextInv(frames, journal, printed) /\ recording = frames[1].owner
      /\ recording /\ ~ErrorHandlers => Pending(frames, journal)
      /\ result = <<>> /\ StringIsRight(captured, printed)
      /\ Len(frames) \in DOMAIN frames
  BY <1>0, RunningFacts
<1>2. /\ s \in Seq(FrameRecords) /\ OnTop(s, frames, f) /\ f.errors \in Seq(Stamps)
      /\ Vm(s, 1) /\ s # <<>> /\ s[1] = frames[1] /\ 1 \in DOMAIN s /\ f = frames[Len(frames)]
  BY <1>0, PopFacts
<1> HIDE DEF s, f
<1>3. ErrorsFollow(journal, journal) /\ NothingOpens(journal, journal)
  BY <1>1, JournalAlike DEF TextInv, Owned
<1>4. TextInv(s, journal, printed)
  BY <1>0, <1>1, <1>2, CallEnds
<1>5. ~f.recover => /\ frames' \in Seq(FrameRecords) /\ SameTexts(s, frames')
                    /\ ErrorsJoin(s, frames', f.errors)
  BY <1>0, <1>2, FailureGoesToTop
<1>6. /\ frames' \in Seq(FrameRecords) /\ frames' # <<>> /\ frames'[1].owner = frames[1].owner
      /\ TextInv(frames', journal', printed')
  <2>1. CASE f.recover
    BY <2>1, <1>0, <1>2, <1>4
  <2>2. CASE ~f.recover
    <3>1. TextInv(frames', journal, printed)
      BY <2>2, <1>1, <1>2, <1>3, <1>4, <1>5, TextsUntouched
    <3>2. 1 \in DOMAIN frames' /\ frames'[1].owner = s[1].owner
      BY <2>2, <1>2, <1>5 DEF SameTexts, SameText
    <3> QED BY <2>2, <3>1, <3>2, <1>0, <1>2, <1>5
  <2> QED BY <2>1, <2>2
<1>7. recording' /\ ~ErrorHandlers => Pending(frames', journal')
  <2> SUFFICES ASSUME recording, ~ErrorHandlers PROVE Pending(frames', journal)
    BY <1>0
  <2>1. Pending(frames, journal)
    BY <1>1
  <2>2. ~f.recover
    BY <2>1, <1>0, <1>1, <1>2 DEF Pending
  <2>3. Carried(s, f.errors, journal)
    <3>1. SameErrors(s, s)
      BY DEF SameErrors
    <3>2. OnlyHeld(f, journal, journal)
      BY DEF OnlyHeld
    <3> QED BY <3>1, <3>2, <2>1, <1>2, CarriedUp
  <2> QED BY <2>2, <2>3, <1>2, <1>5, PendingHeld
<1>8. JournalTypes' /\ result' = <<>> /\ StringIsRight(captured, printed)' /\ recording' = frames'[1].owner
  BY <1>0, <1>1, <1>6 DEF JournalTypes
<1> QED BY <1>6, <1>7, <1>8, StillRunning

LEMMA NothingUnknown ==
  ASSUME NEW events \in Seq(Events), NEW depth
  PROVE  WithTexts(events, <<>>, depth) = events
<1>1. [i \in DOMAIN <<>> |-> [kind |-> "text", text |-> <<>>[i].text, depth |-> depth, disposition |-> "visible"]] = <<>>
  OBVIOUS
<1>2. events \o <<>> = events
  OBVIOUS
<1> QED BY <1>1, <1>2 DEF WithTexts

LEMMA StepLeaveCallback ==
  ASSUME JournalInv, LeaveCallback
  PROVE  JournalInv'
<1> DEFINE s == Front(frames)
           f == Last(frames)
           o == f.output
           t == WithOutput(s, o)
           unknown == Picked(o, {i \in DOMAIN o : ~AlreadyRecorded(o[i])})
<1>0. /\ frames # <<>> /\ f.kind = "callback" /\ frames' = WithFailure(t, f.errors)
      /\ journal' = [journal EXCEPT !.events = WithTexts(journal.events, unknown, Depth(frames))]
      /\ UNCHANGED <<recording, identities, printed, raised, journalCalls, captured, result>>
  BY DEF LeaveCallback, Innermost, CallerOf
<1>1. /\ recording \in BOOLEAN /\ identities \in Nat /\ journal \in Journals
      /\ frames \in Seq(FrameRecords) /\ printed \in Seq(Nat)
      /\ TextInv(frames, journal, printed) /\ recording = frames[1].owner
      /\ recording /\ ~ErrorHandlers => Pending(frames, journal)
      /\ result = <<>> /\ StringIsRight(captured, printed)
      /\ Len(frames) \in DOMAIN frames
  BY <1>0, RunningFacts
<1>2. /\ s \in Seq(FrameRecords) /\ OnTop(s, frames, f) /\ f \in FrameRecords
      /\ o \in Seq(Outputs) /\ f.errors \in Seq(Stamps)
      /\ Vm(s, 1) /\ s # <<>> /\ s[1] = frames[1] /\ 1 \in DOMAIN s /\ f = frames[Len(frames)]
  BY <1>0, PopFacts
<1> HIDE DEF s, f
<1>3. journal' = journal
  <2>1. \A i \in DOMAIN o : Recorded(o[i], journal)
    BY <1>0, <1>1, <1>2 DEF TextInv, AllRecorded, Callback
  <2>2. \A i \in DOMAIN o : AlreadyRecorded(o[i])
    BY <2>1 DEF Recorded, AlreadyRecorded, Known
  <2>3. {i \in DOMAIN o : ~AlreadyRecorded(o[i])} = {}
    BY <2>2
  <2>4. unknown = <<>>
    <3> DEFINE indices == {i \in DOMAIN o : ~AlreadyRecorded(o[i])}
    <3> HIDE DEF o
    <3>1. indices \in SUBSET DOMAIN o /\ indices = {}
      BY <2>3
    <3> HIDE DEF indices
    <3>2. Picked(o, indices) = <<>>
      BY <3>1, <1>2, PickedProperties
    <3> QED BY <3>2 DEF indices
  <2> HIDE DEF unknown
  <2>5. journal.events \in Seq(Events) /\ journal = [identity |-> journal.identity, events |-> journal.events]
    BY <1>1, EventAt
  <2>6. WithTexts(journal.events, unknown, Depth(frames)) = journal.events
    BY <2>4, <2>5, NothingUnknown
  <2>7. journal' = [journal EXCEPT !.events = journal.events]
    BY <2>6, <1>0
  <2> QED BY <2>5, <2>7
<1> HIDE DEF unknown
<1>4. /\ t \in Seq(FrameRecords) /\ SameErrors(s, t) /\ DOMAIN t = DOMAIN s
      /\ \E x : TopSink(s, x) /\ Poured(s, t, x, o)
  BY <1>2, OutputGoesToSink
<1>5. PICK x : TopSink(s, x) /\ Poured(s, t, x, o)
  BY <1>4
<1>6. 1 \in DOMAIN t /\ t # <<>> /\ t[1].owner = s[1].owner
  <2>1. 1 \in DOMAIN t /\ t[1].owner = s[1].owner
    BY <1>2, <1>4, <1>5 DEF Poured, SameShape
  <2>2. t # <<>>
    BY <2>1
  <2> QED BY <2>1, <2>2
<1> HIDE DEF t
<1>7. TextInv(t, journal, printed)
  BY <1>0, <1>1, <1>2, <1>4, <1>5, CallbackEnds
<1>8. frames' \in Seq(FrameRecords) /\ SameTexts(t, frames') /\ ErrorsJoin(t, frames', f.errors)
  BY <1>0, <1>2, <1>4, <1>6, FailureGoesToTop
<1>9. ErrorsFollow(journal, journal) /\ NothingOpens(journal, journal)
  BY <1>1, JournalAlike DEF TextInv, Owned
<1>10. TextInv(frames', journal', printed')
  BY <1>0, <1>1, <1>3, <1>4, <1>7, <1>8, <1>9, TextsUntouched
<1>11. frames' # <<>> /\ frames'[1].owner = frames[1].owner
  <2>1. 1 \in DOMAIN frames' /\ frames'[1].owner = frames[1].owner
    BY <1>2, <1>6, <1>8 DEF SameTexts, SameText
  <2> QED BY <2>1
<1>12. recording' /\ ~ErrorHandlers => Pending(frames', journal')
  <2> SUFFICES ASSUME recording, ~ErrorHandlers PROVE Pending(frames', journal)
    BY <1>0, <1>3
  <2>1. Carried(t, f.errors, journal)
    <3>1. OnlyHeld(f, journal, journal)
      BY DEF OnlyHeld
    <3> QED BY <3>1, <1>1, <1>2, <1>4, CarriedUp
  <2> QED BY <2>1, <1>2, <1>4, <1>6, <1>8, PendingHeld
<1>13. JournalTypes' /\ result' = <<>> /\ StringIsRight(captured, printed)' /\ recording' = frames'[1].owner
  BY <1>0, <1>1, <1>3, <1>8, <1>11 DEF JournalTypes
<1> QED BY <1>10, <1>11, <1>12, <1>13, StillRunning

(* What an evaluating machine hands on: the texts it printed since `from`.  *)
HandedOn(o, p, from, d, replay) ==
  /\ o \in Seq(Outputs) /\ Sorted(o) /\ \A i \in DOMAIN o : o[i].replay = replay
  /\ \A y : (\E i \in DOMAIN o : o[i].text = y) <=> y \in from .. Len(p) /\ p[y] = d

Wraps(o, texts, replay) ==
  o = [i \in DOMAIN texts |-> [text |-> texts[i], replay |-> replay, stamp |-> NoStamp]]

LEMMA Replayed ==
  ASSUME NEW p \in Seq(Nat), NEW from \in 1 .. Len(p) + 1, NEW d, NEW replay \in BOOLEAN, NEW o,
         Wraps(o, Ascending(PrintedIn(p, from, Len(p), d), Len(p)), replay)
  PROVE  HandedOn(o, p, from, d, replay)
<1> DEFINE S == PrintedIn(p, from, Len(p), d)
           texts == Ascending(S, Len(p))
<1>1. S \in SUBSET (1 .. Len(p)) /\ Len(p) \in Nat
  BY DEF PrintedIn
<1>2. \A y : y \in S <=> y \in from .. Len(p) /\ p[y] = d
  BY DEF PrintedIn
<1>0. Wraps(o, texts, replay)
  OBVIOUS
<1> HIDE DEF S
<1>3. texts \in Seq(1 .. Len(p)) /\ Increasing(texts) /\ Values(texts) = S
  BY <1>1, AscendingProperties
<1> HIDE DEF texts
<1>4. Len(texts) \in Nat /\ DOMAIN texts = 1 .. Len(texts) /\ \A i \in DOMAIN texts : texts[i] \in Nat
  BY <1>3
<1>5. NoStamp \in Stamps
  BY DEF NoStamp, Stamps
<1>6. \A i \in DOMAIN texts : [text |-> texts[i], replay |-> replay, stamp |-> NoStamp] \in Outputs
  BY <1>4, <1>5 DEF Outputs
<1>7. o \in Seq(Outputs) /\ DOMAIN o = DOMAIN texts
      /\ \A i \in DOMAIN o : o[i].text = texts[i] /\ o[i].replay = replay
  <2>1. /\ DOMAIN o = DOMAIN texts
        /\ \A i \in DOMAIN texts : o[i] = [text |-> texts[i], replay |-> replay, stamp |-> NoStamp]
        /\ o = [i \in DOMAIN texts |-> o[i]]
    BY <1>0 DEF Wraps
  <2>2. \A i \in DOMAIN texts : o[i] \in Outputs
    BY <2>1, <1>6
  <2>3. \A i \in DOMAIN texts : o[i].text = texts[i] /\ o[i].replay = replay
    BY <2>1
  <2> DEFINE last == Len(texts)
  <2> HIDE DEF last
  <2>4. last \in Nat /\ o = [i \in 1 .. last |-> o[i]] /\ \A i \in 1 .. last : o[i] \in Outputs
    <3>1. DOMAIN texts = 1 .. last /\ last \in Nat
      BY <1>4 DEF last
    <3> QED BY <3>1, <2>1, <2>2
  <2>5. o \in Seq(Outputs)
    BY <2>4
  <2> QED BY <2>1, <2>3, <2>5
<1>8. Sorted(o)
  BY <1>3, <1>7 DEF Sorted, Increasing
<1>9. \A y : (\E i \in DOMAIN o : o[i].text = y) <=> y \in S
  BY <1>3, <1>7 DEF Values
<1> QED BY <1>2, <1>7, <1>8, <1>9 DEF HandedOn

(* The longest step: an eval or evalc returns, well or with errors.         *)
LEMMA StepFinishText ==
  ASSUME JournalInv, FinishText
  PROVE  JournalInv'
<1> DEFINE s == Front(frames)
           f == Last(frames)
           n == Len(frames)
           d == Depth(frames)
           texts == Rendered(f.begin, d)
           caught == f.recover /\ f.errors # <<>>
           disposition == IF caught THEN "caught" ELSE "unhandled"
           events == Disposed(journal.events, f.errors, disposition)
           e == [journal EXCEPT !.events = events]
           replay == ~f.owner
           replayed == [i \in DOMAIN texts |-> [text |-> texts[i], replay |-> replay, stamp |-> NoStamp]]
           below == IF f.capture THEN s ELSE WithOutput(s, replayed)
<1>0. /\ frames # <<>> /\ n > 1 /\ f.kind = "vm"
      /\ frames' = IF f.errors = <<>> \/ caught THEN below ELSE WithFailure(below, f.errors)
      /\ journal' = IF f.owner THEN NoJournal ELSE e
      /\ captured' = IF f.capture
                     THEN [texts |-> texts, from |-> f.from, to |-> Len(printed), depth |-> d]
                     ELSE captured
      /\ UNCHANGED <<recording, identities, printed, raised, journalCalls, result>>
  <2>1. frames # <<>>
    BY DEF FinishText
  <2> QED BY <2>1 DEF FinishText, Innermost, CallerOf
<1>1. /\ recording \in BOOLEAN /\ identities \in Nat /\ journal \in Journals
      /\ frames \in Seq(FrameRecords) /\ printed \in Seq(Nat)
      /\ TextInv(frames, journal, printed) /\ recording = frames[1].owner
      /\ recording /\ ~ErrorHandlers => Pending(frames, journal)
      /\ result = <<>> /\ StringIsRight(captured, printed)
      /\ n \in DOMAIN frames /\ d = DepthAt(frames, n) /\ n \in Nat
  BY <1>0, RunningFacts
<1>2. /\ s \in Seq(FrameRecords) /\ OnTop(s, frames, f) /\ f \in FrameRecords /\ f.errors \in Seq(Stamps)
      /\ Vm(s, 1) /\ s # <<>> /\ s[1] = frames[1] /\ 1 \in DOMAIN s /\ f = frames[n]
      /\ n = Len(s) + 1
  BY <1>0, PopFacts
<1>20. disposition \in {"visible", "raised", "suppressed", "caught", "unhandled"}
       /\ (caught => disposition = "caught") /\ (~caught => disposition = "unhandled")
  OBVIOUS
<1>21. texts = RenderedOf(journal.events, f.begin, d)
  BY DEF Rendered, RenderedOf
<1>22. DisposedWell(journal, e, f.errors, disposition)
  <2> HIDE DEF disposition, f
  <2> QED BY <1>1, <1>2, <1>20, DisposedIsWell
<1>23. f.errors # <<>> /\ ~caught => ~f.recover
  OBVIOUS
<1>24. replay \in BOOLEAN /\ (~f.owner => replay)
  OBVIOUS
<1> HIDE DEF s, f, n, d, texts, caught, disposition, events, e, replay
<1>3. texts = Ascending(PrintedIn(printed, f.from, Len(printed), d), Len(printed))
  <2>1. Vm(frames, n)
    BY <1>0, <1>1, <1>2 DEF Vm
  <2> QED BY <2>1, <1>0, <1>1, <1>2, <1>21, MachineRenders DEF n
<1>4. f.from \in 1 .. Len(printed) + 1
  BY <1>0, <1>1, <1>2 DEF TextInv, Nested, Vm
<1>5. /\ replayed \in Seq(Outputs) /\ Sorted(replayed) /\ \A i \in DOMAIN replayed : replayed[i].replay = replay
      /\ \A y : (\E i \in DOMAIN replayed : replayed[i].text = y) <=> y \in f.from .. Len(printed) /\ printed[y] = d
  <2>1. Wraps(replayed, texts, replay)
    BY DEF Wraps
  <2> HIDE DEF replayed
  <2> DEFINE from == f.from
  <2>2. from \in 1 .. Len(printed) + 1 /\ texts = Ascending(PrintedIn(printed, from, Len(printed), d), Len(printed))
    BY <1>3, <1>4
  <2> HIDE DEF from
  <2>3. HandedOn(replayed, printed, from, d, replay)
    BY <2>1, <2>2, <1>1, <1>24, Replayed
  <2> QED BY <2>3 DEF HandedOn, from
<1> HIDE DEF replayed
<1>6. /\ e \in Journals /\ ErrorsFollow(journal, e) /\ e.identity = journal.identity
  <2>1. journal.identity = 0 => journal.events = <<>>
    BY <1>1 DEF TextInv, Owned
  <2>2. ErrorsFollow(journal, e)
    BY <2>1, <1>1, <1>22, DisposedFollows
  <2> QED BY <2>2, <1>22 DEF DisposedWell
<1>7. TextInv(frames, e, printed)
  BY <1>1, <1>6, NothingTouched, TextsUntouched
<1> DEFINE o == IF f.capture THEN <<>> ELSE replayed
<1>8. PICK x : /\ TopSink(s, x) /\ Poured(s, below, x, o) /\ below \in Seq(FrameRecords) /\ SameErrors(s, below)
               /\ DOMAIN below = DOMAIN s
  <2>1. CASE f.capture
    <3>1. \E x : TopSink(s, x)
      BY <1>2, GreatestSink
    <3>2. PICK x : TopSink(s, x)
      BY <3>1
    <3>3. x \in DOMAIN s
      BY <3>2 DEF TopSink, Sink, Vm, Callback
    <3>4. s[x] \in FrameRecords
      BY <3>3, <1>2, FrameAt
    <3>5. s[x].output \in Seq(Outputs)
      BY <3>4 DEF FrameRecords
    <3>6. s[x].output \o <<>> = s[x].output
      BY <3>5
    <3>7. Poured(s, s, x, <<>>) /\ SameErrors(s, s)
      BY <3>6 DEF Poured, SameShape, SameErrors
    <3> QED BY <2>1, <3>2, <3>7, <1>2
  <2>2. CASE ~f.capture
    <3>1. /\ WithOutput(s, replayed) \in Seq(FrameRecords)
          /\ \E x : TopSink(s, x) /\ Poured(s, WithOutput(s, replayed), x, replayed)
          /\ SameErrors(s, WithOutput(s, replayed))
          /\ DOMAIN WithOutput(s, replayed) = DOMAIN s
      BY <1>2, <1>5, OutputGoesToSink
    <3> QED BY <2>2, <3>1
  <2> QED BY <2>1, <2>2
<1>9. o \in Seq(Outputs) /\ Returns(s, frames, f, o, printed)
  <2>1. CASE f.capture
    <3>1. o = <<>> /\ <<>> \in Seq(Outputs) /\ DOMAIN <<>> = {}
      BY <2>1
    <3> QED BY <2>1, <3>1 DEF Returns
  <2>2. CASE ~f.capture
    <3>1. o = replayed
      BY <2>2
    <3> QED BY <2>2, <3>1, <1>1, <1>2, <1>5, <1>24 DEF Returns
  <2> QED BY <2>1, <2>2
<1>10. 1 \in DOMAIN below /\ below # <<>> /\ below[1].owner = s[1].owner
  <2>1. 1 \in DOMAIN below /\ below[1].owner = s[1].owner
    BY <1>2, <1>8 DEF Poured, SameShape
  <2>2. below # <<>>
    BY <2>1
  <2> QED BY <2>1, <2>2
<1>11. /\ f.owner => journal'.identity = 0 /\ journal'.events = <<>>
       /\ ~f.owner => journal' = e
       /\ journal' \in Journals
  BY <1>0, <1>6 DEF NoJournal, Journals
<1> HIDE DEF o, below
<1>12. TextInv(below, journal', printed)
  <2> DEFINE after == journal'
  <2>1. (f.owner => after.identity = 0 /\ after.events = <<>>) /\ (~f.owner => after = e)
    BY <1>11
  <2> HIDE DEF after
  <2>2. TextInv(below, after, printed)
    BY <2>1, <1>0, <1>1, <1>2, <1>7, <1>8, <1>9, MachineEnds
  <2> QED BY <2>2 DEF after
<1>13. ErrorsFollow(journal', journal')
  BY <1>12, JournalAlike DEF TextInv, Owned
<1> DEFINE fails == ~(f.errors = <<>> \/ caught)
<1>14. /\ fails => frames' = WithFailure(below, f.errors)
       /\ ~fails => frames' = below
  BY <1>0 DEF below
<1> HIDE DEF fails
<1>15. fails => /\ frames' \in Seq(FrameRecords) /\ SameTexts(below, frames')
                /\ ErrorsJoin(below, frames', f.errors)
  BY <1>2, <1>8, <1>10, <1>14, FailureGoesToTop
<1>16. /\ frames' \in Seq(FrameRecords) /\ frames' # <<>> /\ frames'[1].owner = frames[1].owner
       /\ TextInv(frames', journal', printed')
  <2>1. CASE fails
    <3>1. TextInv(frames', journal', printed)
      BY <2>1, <1>8, <1>11, <1>12, <1>13, <1>15, TextsUntouched
    <3>2. 1 \in DOMAIN frames' /\ frames'[1].owner = frames[1].owner
      BY <2>1, <1>2, <1>10, <1>15 DEF SameTexts, SameText
    <3>3. frames' # <<>>
      BY <3>2
    <3> QED BY <2>1, <3>1, <3>2, <3>3, <1>0, <1>15
  <2>2. CASE ~fails
    BY <2>2, <1>0, <1>2, <1>8, <1>10, <1>12, <1>14
  <2> QED BY <2>1, <2>2
<1>17. recording' /\ ~ErrorHandlers => Pending(frames', journal')
  <2> SUFFICES ASSUME recording, ~ErrorHandlers PROVE Pending(frames', journal')
    BY <1>0
  <2>1. Pending(frames, journal)
    BY <1>1
  <2>2. ~f.owner
    <3>1. 1 \in DOMAIN frames /\ n # 1
      BY <1>0, <1>1
    <3> QED BY <3>1, <1>1, <1>2 DEF TextInv, Owned
  <2>3. journal' = e
    BY <2>2, <1>11
  <2>4. CASE fails
    <3>1. ~caught
      BY <2>4 DEF fails
    <3>2. OnlyHeld(f, journal, e)
      BY <3>1, <1>20, <1>22 DEF DisposedWell, OnlyHeld, Undisposed, HeldBy, SameEvent
    <3>3. Carried(below, f.errors, e)
      BY <3>2, <2>1, <1>2, <1>8, CarriedUp
    <3> QED BY <2>3, <2>4, <3>3, <1>2, <1>8, <1>10, <1>15, PendingHeld
  <2>5. CASE ~fails
    <3>1. NothingOpens(journal, e)
      <4>1. CASE f.errors = <<>>
        <5>1. DOMAIN f.errors = {}
          BY <4>1
        <5> QED BY <5>1, <1>22 DEF DisposedWell, NothingOpens, Undisposed, SameEvent
      <4>2. CASE caught
        BY <4>2, <1>20, <1>22 DEF DisposedWell, NothingOpens, Undisposed, SameEvent
      <4> QED BY <4>1, <4>2, <2>5 DEF fails
    <3>2. \A k \in DOMAIN e.events : Undisposed(e, k) => ~HeldBy(f, k)
      <4> SUFFICES ASSUME NEW k \in DOMAIN e.events, HeldBy(f, k), Undisposed(e, k) PROVE FALSE
        OBVIOUS
      <4>1. PICK l \in DOMAIN f.errors : f.errors[l].sequence = k
        BY DEF HeldBy
      <4>2. ErrorOf(journal, f.errors[l])
        BY <4>1, <2>1, <1>1, <1>2 DEF Pending
      <4>3. f.errors # <<>>
        BY <4>1
      <4>4. caught
        BY <4>3, <2>5 DEF fails
      <4>5. e.events[k].disposition = "caught"
        BY <4>1, <4>2, <4>4, <1>20, <1>22 DEF ErrorOf, DisposedWell
      <4> QED BY <4>5 DEF Undisposed
    <3>3. Pending(below, e)
      BY <3>1, <3>2, <2>1, <1>2, <1>8, PendingSettled
    <3> QED BY <2>3, <2>5, <3>3, <1>14
  <2> QED BY <2>4, <2>5
<1>18. StringIsRight(captured, printed)'
  <2>1. CASE f.capture
    <3>1. captured' = [texts |-> texts, from |-> f.from, to |-> Len(printed), depth |-> d] /\ printed' = printed
      BY <2>1, <1>0
    <3>2. Len(printed) \in Nat /\ Len(printed) \in 0 .. Len(printed) /\ f.from \in Nat \ {0}
      BY <1>1, <1>4
    <3> QED BY <3>1, <3>2, <1>3 DEF StringIsRight
  <2>2. CASE ~f.capture
    BY <2>2, <1>0, <1>1
  <2> QED BY <2>1, <2>2
<1>19. JournalTypes' /\ result' = <<>> /\ recording' = frames'[1].owner
  BY <1>0, <1>1, <1>11, <1>16 DEF JournalTypes
<1> QED BY <1>16, <1>17, <1>18, <1>19, StillRunning

-----------------------------------------------------------------------------
(* The end of an invocation.                                                *)
LEMMA EachTextOnceIs ==
  EachTextOnce <=>
    /\ captured.texts = Ascending(PrintedIn(printed, captured.from, captured.to, captured.depth), captured.to)
    /\ Finished => TextsOf(result[1]) = Ascending(PrintedIn(printed, 1, Len(printed), 0), Len(printed))
    /\ Finished /\ recording
         => RenderedOf(journal.events, 0, 0) = Ascending(PrintedIn(printed, 1, Len(printed), 0), Len(printed))
<1>1. Rendered(0, 0) = RenderedOf(journal.events, 0, 0)
  BY DEF Rendered, RenderedOf
<1> QED BY <1>1, Zenon DEF EachTextOnce, TextsOf, PrintedIn

(* Errors left over are closed as unhandled.                                *)
ClosedWell(j, e) ==
  /\ e \in Journals /\ e.identity = j.identity /\ DOMAIN e.events = DOMAIN j.events
  /\ \A i \in DOMAIN j.events : SameEvent(e.events[i], j.events[i])
  /\ \A i \in DOMAIN j.events : e.events[i].disposition = "unhandled" <=> Undisposed(j, i)

LEMMA ClosedIsWell ==
  ASSUME NEW j \in Journals, NEW e,
         e = [j EXCEPT !.events =
               [i \in DOMAIN j.events |->
                  IF j.events[i].disposition = "raised" THEN [j.events[i] EXCEPT !.disposition = "unhandled"]
                  ELSE j.events[i]]]
  PROVE  ClosedWell(j, e)
<1> DEFINE a == j.events
           b == [i \in DOMAIN a |-> IF a[i].disposition = "raised" THEN [a[i] EXCEPT !.disposition = "unhandled"]
                                    ELSE a[i]]
<1>1. /\ j = [identity |-> j.identity, events |-> a] /\ j.identity \in Nat /\ Len(a) \in Nat
      /\ DOMAIN a = 1 .. Len(a) /\ \A i \in DOMAIN a : a[i] \in Events
  BY EventAt
<1>0. e = [j EXCEPT !.events = b]
  OBVIOUS
<1> HIDE DEF a
<1>2. \A i \in DOMAIN a : /\ b[i] \in Events /\ SameEvent(b[i], a[i])
                          /\ b[i].disposition = "unhandled"
                               <=> a[i].disposition = "raised" \/ a[i].disposition = "unhandled"
  <2> SUFFICES ASSUME NEW i \in DOMAIN a
               PROVE  /\ b[i] \in Events /\ SameEvent(b[i], a[i])
                      /\ b[i].disposition = "unhandled"
                           <=> a[i].disposition = "raised" \/ a[i].disposition = "unhandled"
    OBVIOUS
  <2>1. a[i] \in Events
    BY <1>1
  <2>2. CASE a[i].disposition = "raised"
    <3>1. b[i] = [a[i] EXCEPT !.disposition = "unhandled"]
      BY <2>2
    <3> HIDE DEF b
    <3> QED BY <2>1, <2>2, <3>1 DEF Events, SameEvent
  <2>3. CASE a[i].disposition # "raised"
    <3>1. b[i] = a[i]
      BY <2>3
    <3> HIDE DEF b
    <3> QED BY <2>1, <2>3, <3>1 DEF SameEvent
  <2> QED BY <2>2, <2>3
<1>3. DOMAIN b = DOMAIN a /\ b = [i \in DOMAIN a |-> b[i]]
  OBVIOUS
<1> HIDE DEF b
<1>4. b \in Seq(Events)
  <2> DEFINE last == Len(a)
  <2>1. last \in Nat /\ b = [i \in 1 .. last |-> b[i]] /\ \A i \in 1 .. last : b[i] \in Events
    BY <1>1, <1>2, <1>3
  <2> HIDE DEF last
  <2> QED BY <2>1
<1>5. e = [identity |-> j.identity, events |-> b] /\ e \in Journals
  BY <1>0, <1>1, <1>4 DEF Journals
<1>6. e.identity = j.identity /\ e.events = b
  BY <1>5
<1> QED BY <1>2, <1>3, <1>5, <1>6 DEF a, ClosedWell, Undisposed

(* Both together: what the frame still held is unhandled, and nothing else. *)
LEMMA UnhandledAreHeld ==
  ASSUME NEW s, NEW f, DOMAIN s = {1}, s[1] = f, NEW i \in Journals, Pending(s, i),
         NEW j \in Journals, DisposedWell(i, j, f.errors, "unhandled"), NEW e, ClosedWell(j, e)
  PROVE  {k \in DOMAIN e.events : e.events[k].disposition = "unhandled"}
           = {stamp.sequence : stamp \in ToSet(f.errors)}
<1>1. \A l \in DOMAIN f.errors : ErrorOf(i, f.errors[l])
  BY DEF Pending
<1>2. DOMAIN e.events = DOMAIN i.events /\ DOMAIN j.events = DOMAIN i.events
  BY DEF ClosedWell, DisposedWell
<1>3. \A k \in DOMAIN i.events : Undisposed(j, k) => HeldBy(f, k)
  BY DEF Pending, DisposedWell, Undisposed, HeldBy
<1>4. \A k \in DOMAIN i.events : HeldBy(f, k) => Undisposed(j, k)
  <2> SUFFICES ASSUME NEW k \in DOMAIN i.events, HeldBy(f, k) PROVE Undisposed(j, k)
    OBVIOUS
  <2>1. PICK l \in DOMAIN f.errors : f.errors[l].sequence = k
    BY DEF HeldBy
  <2>2. ErrorOf(i, f.errors[l])
    BY <1>1
  <2> QED BY <2>1, <2>2 DEF DisposedWell, Undisposed, ErrorOf
<1>5. \A k : HeldBy(f, k) => k \in DOMAIN i.events
  BY <1>1 DEF HeldBy, ErrorOf
<1>6. \A k : k \in {y \in DOMAIN e.events : e.events[y].disposition = "unhandled"} <=> HeldBy(f, k)
  BY <1>2, <1>3, <1>4, <1>5 DEF ClosedWell
<1>7. \A k : k \in {stamp.sequence : stamp \in ToSet(f.errors)} <=> HeldBy(f, k)
  BY DEF ToSet, HeldBy
<1> DEFINE A == {k \in DOMAIN e.events : e.events[k].disposition = "unhandled"}
           B == {stamp.sequence : stamp \in ToSet(f.errors)}
<1> HIDE DEF A, B
<1>8. \A k : k \in A <=> k \in B
  BY <1>6, <1>7 DEF A, B
<1>9. A = B
  BY <1>8
<1> QED BY <1>9 DEF A, B

(* The invocation ends: its promises hold from now on.                      *)
LEMMA StepFinish ==
  ASSUME JournalInv, Finish
  PROVE  JournalInv'
<1> DEFINE f == frames[1]
           middle == [journal EXCEPT !.events = Disposed(journal.events, f.errors, "unhandled")]
           Texts == Ascending(PrintedIn(printed, 1, Len(printed), 0), Len(printed))
<1>0. /\ frames # <<>> /\ Len(frames) = 1 /\ Innermost = f /\ frames' = <<>>
      /\ result' = <<f.output, f.errors>>
      /\ UNCHANGED <<recording, identities, printed, raised, journalCalls, captured>>
  <2>1. Len(frames) = 1
    BY DEF Finish
  <2>2. frames # <<>>
    BY <2>1
  <2>3. Innermost = f
    BY <2>1 DEF Innermost, Last
  <2> QED BY <2>1, <2>2, <2>3 DEF Finish
<1>1. /\ recording \in BOOLEAN /\ identities \in Nat /\ journal \in Journals
      /\ frames \in Seq(FrameRecords) /\ printed \in Seq(Nat)
      /\ TextInv(frames, journal, printed) /\ recording = f.owner
      /\ recording /\ ~ErrorHandlers => Pending(frames, journal)
      /\ StringIsRight(captured, printed)
      /\ Vm(frames, 1)
  BY <1>0, RunningFacts
<1>2. DOMAIN frames = {1} /\ 1 \in DOMAIN frames /\ f \in FrameRecords /\ f.errors \in Seq(Stamps)
  <2>1. DOMAIN frames = {1} /\ 1 \in DOMAIN frames
    BY <1>0, <1>1
  <2>2. f \in FrameRecords
    BY <2>1, <1>1, FrameAt
  <2> QED BY <2>1, <2>2 DEF FrameRecords
<1>3. DisposedWell(journal, middle, f.errors, "unhandled")
  <2> HIDE DEF f
  <2> QED BY <1>1, <1>2, DisposedIsWell
<1>4. middle.events = Disposed(journal.events, f.errors, "unhandled") /\ middle.identity = journal.identity
  <2>1. journal = [identity |-> journal.identity, events |-> journal.events]
    BY <1>1, EventAt
  <2> QED BY <2>1
<1>5. journal' = [middle EXCEPT !.events =
                   [i \in DOMAIN middle.events |->
                      IF middle.events[i].disposition = "raised"
                      THEN [middle.events[i] EXCEPT !.disposition = "unhandled"] ELSE middle.events[i]]]
  <2> DEFINE events == Disposed(journal.events, f.errors, "unhandled")
             closed == [i \in DOMAIN events |->
                          IF events[i].disposition = "raised" THEN [events[i] EXCEPT !.disposition = "unhandled"]
                          ELSE events[i]]
  <2>1. journal' = [journal EXCEPT !.events = closed]
    BY <1>0 DEF Finish
  <2>2. journal = [identity |-> journal.identity, events |-> journal.events]
    BY <1>1, EventAt
  <2> HIDE DEF closed
  <2>3. [journal EXCEPT !.events = closed] = [middle EXCEPT !.events = closed]
    BY <2>2
  <2> QED BY <2>1, <2>3, <1>4 DEF closed
<1> HIDE DEF middle
<1>6. middle \in Journals
  BY <1>3 DEF DisposedWell
<1>7. ClosedWell(middle, journal')
  <2> DEFINE e == journal'
  <2>1. e = [middle EXCEPT !.events =
              [i \in DOMAIN middle.events |->
                 IF middle.events[i].disposition = "raised"
                 THEN [middle.events[i] EXCEPT !.disposition = "unhandled"] ELSE middle.events[i]]]
    BY <1>5
  <2> HIDE DEF e
  <2>2. ClosedWell(middle, e)
    BY <2>1, <1>6, ClosedIsWell
  <2> QED BY <2>2 DEF e
<1>8. journal' \in Journals /\ ErrorsFollow(journal, journal')
  <2>1. journal' \in Journals /\ journal'.identity = journal.identity /\ DOMAIN journal'.events = DOMAIN journal.events
        /\ \A i \in DOMAIN journal.events : SameEvent(journal'.events[i], journal.events[i])
    BY <1>3, <1>7 DEF ClosedWell, DisposedWell, SameEvent
  <2>2. journal.identity = 0 => journal'.events = <<>>
    <3> SUFFICES ASSUME journal.identity = 0 PROVE journal'.events = <<>>
      OBVIOUS
    <3>1. journal.events = <<>>
      BY <1>1 DEF TextInv, Owned
    <3>2. DOMAIN journal'.events = {}
      BY <2>1, <3>1
    <3> DEFINE w == journal'.events
               l == Len(w)
    <3>3. l \in Nat /\ 1 .. l = {} /\ w \in Seq(Events)
      BY <2>1, <3>2, EventAt
    <3> HIDE DEF l
    <3>4. l = 0
      BY <3>3
    <3> QED BY <3>3, <3>4 DEF l
  <2> QED BY <2>1, <2>2 DEF ErrorsFollow
<1>9. TextsOf(f.output) = Texts /\ DepthAt(frames, 1) = 0
  BY <1>0, <1>1, OutermostOutput
<1>10. recording => RenderedOf(journal'.events, 0, 0) = Texts
  <2> SUFFICES ASSUME recording PROVE RenderedOf(journal'.events, 0, 0) = Texts
    OBVIOUS
  <2> DEFINE e == journal'
  <2>1. e \in Journals /\ ErrorsFollow(journal, e)
    BY <1>8
  <2> HIDE DEF e
  <2>2. TextInv(frames, e, printed)
    BY <2>1, <1>1, NothingTouched, TextsUntouched
  <2> DEFINE n == 1
  <2>3. n \in DOMAIN frames /\ n = Len(frames) /\ Vm(frames, n) /\ (n > 1 \/ frames[1].owner)
    BY <1>0, <1>1, <1>2
  <2> HIDE DEF n
  <2>4. RenderedOf(e.events, frames[n].begin, DepthAt(frames, n))
          = Ascending(PrintedIn(printed, frames[n].from, Len(printed), DepthAt(frames, n)), Len(printed))
    BY <2>1, <2>2, <2>3, <1>1, MachineRenders
  <2>5. frames[1].begin = 0 /\ frames[1].from = 1
    BY <1>1 DEF TextInv, Stacked
  <2> QED BY <2>4, <2>5, <1>9 DEF n, e
<1>11. EachTextOnce'
  <2>1. result'[1] = f.output
    BY <1>0
  <2>2. captured.texts = Ascending(PrintedIn(printed, captured.from, captured.to, captured.depth), captured.to)
    BY <1>1 DEF StringIsRight
  <2>3. EachTextOnce' <=>
          /\ captured'.texts = Ascending(PrintedIn(printed', captured'.from, captured'.to, captured'.depth), captured'.to)
          /\ Finished' => TextsOf(result'[1]) = Ascending(PrintedIn(printed', 1, Len(printed'), 0), Len(printed'))
          /\ Finished' /\ recording'
               => RenderedOf(journal'.events, 0, 0) = Ascending(PrintedIn(printed', 1, Len(printed'), 0), Len(printed'))
    <3>1. Rendered(0, 0)' = RenderedOf(journal'.events, 0, 0)
      BY DEF Rendered, RenderedOf
    <3> QED BY <3>1, Zenon DEF EachTextOnce, TextsOf, PrintedIn
  <2> QED BY <2>1, <2>2, <2>3, <1>0, <1>9, <1>10
<1>12. ~ErrorHandlers => UnhandledIsReturned'
  <2> SUFFICES ASSUME ~ErrorHandlers, recording PROVE UnhandledIsReturned'
    BY <1>0 DEF UnhandledIsReturned
  <2>1. result'[2] = f.errors
    BY <1>0
  <2> DEFINE e == journal'
  <2>2. ClosedWell(middle, e)
    BY <1>7
  <2> HIDE DEF e, f
  <2>3. f = frames[1]
    BY DEF f
  <2>4. {k \in DOMAIN e.events : e.events[k].disposition = "unhandled"}
          = {stamp.sequence : stamp \in ToSet(f.errors)}
    BY <2>2, <2>3, <1>1, <1>2, <1>3, <1>6, UnhandledAreHeld
  <2> QED BY <2>1, <2>4 DEF e, UnhandledIsReturned
<1>13. JournalTypes' /\ StringIsRight(captured, printed)'
  <2>1. <<>> \in Seq(FrameRecords)
    OBVIOUS
  <2> QED BY <2>1, <1>0, <1>1, <1>8 DEF JournalTypes, StringIsRight
<1> QED BY <1>0, <1>11, <1>12, <1>13 DEF JournalInv, Closed

-----------------------------------------------------------------------------
LEMMA NothingInOrder == Ascending({}, 0) = <<>>
<1> DEFINE S == {}
           o == Ascending(S, 0)
<1>1. S \in SUBSET (1 .. 0)
  OBVIOUS
<1> HIDE DEF S
<1>2. o \in Seq(1 .. 0) /\ Values(o) = S
  BY <1>1, AscendingProperties
<1> HIDE DEF o
<1>3. DOMAIN o = {}
  BY <1>2 DEF Values, S
<1>4. o = <<>>
  BY <1>2, <1>3
<1> QED BY <1>4 DEF o, S

(* The invariant holds when the invocation starts.                          *)
LEMMA Starts ==
  ASSUME JournalInit
  PROVE  JournalInv
<1> DEFINE f == [kind |-> "vm", capture |-> FALSE, recover |-> FALSE, owner |-> recording,
                 begin |-> 0, from |-> 1, output |-> <<>>, errors |-> <<>>]
<1>0. /\ recording \in BOOLEAN /\ frames = <<f>> /\ printed = <<>> /\ result = <<>> /\ captured = NoCapture
      /\ identities = IF recording THEN 1 ELSE 0
      /\ journal = IF recording THEN [identity |-> 1, events |-> <<>>] ELSE NoJournal
  <2> DEFINE owner == recording
             g == [Frame("vm") EXCEPT !.owner = owner]
  <2>1. owner \in BOOLEAN
    BY DEF JournalInit
  <2> HIDE DEF owner
  <2>2. g = [Frame("vm") EXCEPT !.owner = owner]
    OBVIOUS
  <2> HIDE DEF g
  <2>3. g = [kind |-> "vm", capture |-> FALSE, recover |-> FALSE, owner |-> owner,
             begin |-> 0, from |-> 1, output |-> <<>>, errors |-> <<>>]
    BY <2>1, <2>2 DEF Frame
  <2>4. frames = <<g>>
    BY Zenon DEF JournalInit, g, owner
  <2>5. g = f
    BY <2>3 DEF owner
  <2> HIDE DEF f
  <2> QED BY <2>4, <2>5 DEF JournalInit
<1>1. f \in FrameRecords
  BY <1>0 DEF FrameRecords
<1>2. /\ f.kind = "vm" /\ ~f.capture /\ f.owner = recording /\ f.begin = 0 /\ f.from = 1
      /\ f.output = <<>> /\ f.errors = <<>>
  OBVIOUS
<1> HIDE DEF f
<1>3. frames \in Seq(FrameRecords) /\ DOMAIN frames = {1} /\ frames[1] = f /\ frames # <<>>
  BY <1>0, <1>1
<1>4. journal \in Journals /\ journal.events = <<>> /\ (journal.identity # 0 <=> recording)
  BY <1>0 DEF Journals, NoJournal
<1>5. DOMAIN journal.events = {} /\ DOMAIN f.output = {} /\ DOMAIN f.errors = {} /\ Len(journal.events) = 0
  BY <1>2, <1>4
<1>6. printed \in Seq(Nat) /\ Len(printed) = 0 /\ identities \in Nat
  BY <1>0
<1>7. Stacked(frames) /\ Owned(frames, journal) /\ AllRecorded(frames, journal)
  BY <1>0, <1>2, <1>3, <1>4, <1>5 DEF Stacked, Owned, AllRecorded, Vm, Callback
<1>8. Nested(frames, printed)
  BY <1>2, <1>3, <1>6 DEF Nested, Vm
<1>9. Transcribed(frames, journal, printed)
  BY <1>2, <1>3, <1>5, <1>6
     DEF Transcribed, BeginsWithin, TextsKnown, TextsSorted, TextsComplete, TextsSplit, Vm, IsText
<1>10. Collected(frames, printed)
  BY <1>2, <1>3, <1>5, <1>6
     DEF Collected, OutputsSorted, Sorted, OutputsKnown, OutputsApart, OutputsSplit, OutputsComplete
<1>11. TextInv(frames, journal, printed)
  BY <1>7, <1>8, <1>9, <1>10 DEF TextInv
<1>12. Pending(frames, journal)
  BY <1>2, <1>3, <1>5 DEF Pending
<1>13. StringIsRight(captured, printed)
  <2>1. captured.from = 1 /\ captured.to = 0 /\ captured.texts = <<>>
    BY <1>0 DEF NoCapture
  <2>2. PrintedIn(printed, captured.from, captured.to, captured.depth) = {}
    BY <2>1 DEF PrintedIn
  <2>3. captured.texts = Ascending(PrintedIn(printed, captured.from, captured.to, captured.depth), captured.to)
    BY <2>1, <2>2, NothingInOrder
  <2> QED BY <2>1, <2>3, <1>6 DEF StringIsRight
<1>14. recording = frames[1].owner
  BY <1>2, <1>3
<1> QED BY <1>0, <1>3, <1>4, <1>6, <1>11, <1>12, <1>13, <1>14 DEF JournalInv, JournalTypes, Running

(* A finished invocation stays as it is.                                    *)
LEMMA Stays ==
  ASSUME JournalInv, UNCHANGED journalVars
  PROVE  JournalInv'
<1>1. /\ recording' = recording /\ journal' = journal /\ identities' = identities /\ frames' = frames
      /\ printed' = printed /\ captured' = captured /\ result' = result
  BY DEF journalVars
<1>2. EachTextOnce => EachTextOnce'
  <2>1. Finished' = Finished
    BY <1>1 DEF Finished
  <2>2. Rendered(0, 0)' = Rendered(0, 0)
    BY <1>1 DEF Rendered
  <2> QED BY <1>1, <2>1, <2>2 DEF EachTextOnce
<1>3. UnhandledIsReturned => UnhandledIsReturned'
  BY <1>1 DEF UnhandledIsReturned, Finished
<1> QED BY <1>1, <1>2, <1>3 DEF JournalInv, JournalTypes, StringIsRight, Running, Closed

(* Every action, and stuttering, keeps the invariant.                       *)
LEMMA EveryStep ==
  ASSUME JournalInv, [Step]_journalVars
  PROVE  JournalInv'
<1>1. CASE UNCHANGED journalVars
  BY <1>1, Stays
<1>2. CASE PrintText
  BY <1>2, StepPrintText
<1>3. CASE Raise
  BY <1>3, StepRaise
<1>4. CASE Validate
  BY <1>4, StepValidate
<1>5. CASE Try
  BY <1>5, StepTry
<1>6. CASE CallElement
  BY <1>6, StepCallElement
<1>7. CASE EvaluateText
  BY <1>7, StepEvaluateText
<1>8. CASE CallBack
  BY <1>8, StepCallBack
<1>9. CASE LeaveTry
  BY <1>9, StepLeaveTry
<1>10. CASE LeaveElement
  BY <1>10, StepLeaveElement
<1>11. CASE LeaveCallback
  BY <1>11, StepLeaveCallback
<1>12. CASE FinishText
  BY <1>12, StepFinishText
<1>13. CASE Finish
  BY <1>13, StepFinish
<1> QED BY <1>1, <1>2, <1>3, <1>4, <1>5, <1>6, <1>7, <1>8, <1>9, <1>10, <1>11, <1>12, <1>13 DEF Step

(* Every promise follows from the invariant.                                *)
LEMMA Promised ==
  ASSUME JournalInv
  PROVE  EachTextOnce /\ (~ErrorHandlers => UnhandledIsReturned)
<1>1. CASE frames # <<>>
  <2>1. ~Finished /\ StringIsRight(captured, printed)
    BY <1>1 DEF JournalInv, Running, Finished
  <2>2. EachTextOnce
    BY <2>1, EachTextOnceIs DEF StringIsRight
  <2> QED BY <2>1, <2>2 DEF UnhandledIsReturned
<1>2. CASE frames = <<>>
  BY <1>2 DEF JournalInv, Closed
<1> QED BY <1>1, <1>2

(***************************************************************************)
(* Through any nesting of evaluated source, callbacks into the parent      *)
(* machine, evalc and errors on the way out, every text that was printed   *)
(* reaches the invocation's output, the string of the evalc around it and  *)
(* the recorded transcript exactly once and in the order it was printed.   *)
(***************************************************************************)
THEOREM EveryTextOnce == JournalSpec => []EachTextOnce
<1>1. JournalInit => JournalInv
  BY Starts
<1>2. JournalInv /\ [Step]_journalVars => JournalInv'
  BY EveryStep
<1>3. JournalInv => EachTextOnce
  BY Promised
<1> QED BY <1>1, <1>2, <1>3, PTL DEF JournalSpec

(***************************************************************************)
(* Where no 'ErrorHandler' replaces an error, the finished transcript      *)
(* calls unhandled exactly the errors the invocation returned, so with the *)
(* texts it is true as a whole.  The hypothesis is needed: with a handler  *)
(* the run EventJournal finds a handled error that is called unhandled.    *)
(***************************************************************************)
THEOREM TranscriptIsTrue ==
  ASSUME ~ErrorHandlers
  PROVE  JournalSpec => []JournalIsTrue
<1>1. JournalInit => JournalInv
  BY Starts
<1>2. JournalInv /\ [Step]_journalVars => JournalInv'
  BY EveryStep
<1>3. JournalInv => JournalIsTrue
  BY Promised DEF JournalIsTrue
<1> QED BY <1>1, <1>2, <1>3, PTL DEF JournalSpec

=============================================================================
