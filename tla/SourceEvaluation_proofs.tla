----------------------- MODULE SourceEvaluation_proofs -----------------------
(***************************************************************************)
(* No handle of a temporary module outlives its evaluation, proved for any *)
(* number of evaluations, statements and nested entries, and for evaluated *)
(* anonymous functions that delegate as for ones that do not.              *)
(***************************************************************************)
EXTENDS SourceEvaluation, SequenceTheorems, WellFoundedInduction, TLAPS

\* The values of the model.
Value == {None, Plain, Empty, Object} \cup {Handle(c) : c \in Nat}
Workspace == [Names -> Value]
Session == [WrittenBack -> Value]

\* What the invariant says of values: no handle but those of some contexts,
\* and no reference to the shared object.
Clean(f, contexts) == \A name \in DOMAIN f : f[name].kind = "handle" => f[name].context \in contexts
Objectless(f) == \A name \in DOMAIN f : f[name] # Object
FieldContexts(value) == IF value.kind = "handle" THEN {value.context} ELSE {}

\* c stands for the control stack, w for the workspaces, g and p for the
\* globals and persistents and v for the shared field: the lemmas compare two
\* states.  The contexts of the evaluations below entry i of the stack.
ContextsBelow(c, i) ==
    {ParentContext} \cup {c[j].context : j \in {k \in 1..(i - 1) : c[k].kind = "evaluation"}}
Active(c) == ContextsBelow(c, Len(c) + 1)

\* Code of frame f sees the copy of an evaluation, not its workspace.
Hidden(c, f) ==
    \E i \in 1..Len(c) :
      /\ c[i].frame = f /\ c[i].kind = "evaluation"
      /\ \A j \in 1..Len(c) : j > i /\ c[j].frame = f => c[j].kind # "delegated"

IsSeq(s) == \E S : s \in Seq(S)

Typed(c, w, g, p, v) ==
    /\ IsSeq(c)
    /\ w \in [Frames -> Workspace]
    /\ g \in Session /\ p \in Session
    /\ v \in Value \ {Object}

EvaluationFields == {"kind", "frame", "below", "context", "copy", "original", "borrowed", "globals",
                     "persistents", "snapshot", "field", "allowed", "output"}
EntryTypes(entry) ==
    /\ entry.frame \in Frames
    /\ entry.kind \in {"evaluation", "anonymous", "delegated"}
    /\ entry.kind # "delegated" => {"kind", "frame", "copy"} \subseteq DOMAIN entry /\ entry.copy \in Workspace
    /\ entry.kind = "evaluation" =>
         /\ EvaluationFields \subseteq DOMAIN entry
         /\ entry.context \in Nat /\ entry.below \in BOOLEAN /\ entry.snapshot \in BOOLEAN
         /\ entry.original \in Workspace /\ entry.borrowed \in [Frames -> Workspace]
         /\ entry.globals \in Session /\ entry.persistents \in Session
         /\ entry.field \in Value \ {Object}

\* An entry stands on the one that entered it, in the same frame or, for
\* evalin, in an outer one.
OnSame(c, i, kinds) == i > 1 /\ c[i - 1].kind \in kinds /\ c[i - 1].frame = c[i].frame
Order(c, i) ==
    /\ c[i].kind = "delegated" => OnSame(c, i, {"evaluation", "anonymous"})
    /\ c[i].kind = "anonymous" => OnSame(c, i, {"evaluation"})
    /\ c[i].kind = "evaluation" /\ c[i].below => OnSame(c, i, {"evaluation"})
    /\ \A j \in 1..i : c[i].frame <= c[j].frame

\* What an evaluation may give back when it ends was there before it began.
\* A workspace an inner evalin cannot reach is as clean as it was then.
GivesBack(entry, contexts) ==
    /\ entry.allowed \subseteq contexts
    /\ Clean(entry.original, entry.allowed)
    /\ \A m \in OuterFrames(entry.frame) : Clean(entry.borrowed[m], entry.allowed)
    /\ Clean(entry.globals, entry.allowed) /\ Clean(entry.persistents, entry.allowed)
    /\ FieldContexts(entry.field) \subseteq contexts
    /\ entry.snapshot => FieldContexts(entry.field) \subseteq entry.allowed
Kept(c, w, i) ==
    /\ c[i].kind # "delegated" => Clean(c[i].copy, ContextsBelow(c, i + 1))
    /\ c[i].kind = "evaluation" =>
         /\ GivesBack(c[i], ContextsBelow(c, i))
         /\ \A f \in Frames :
              f > c[i].frame /\ ~Hidden(c, f) => Clean(w[f], ContextsBelow(c, i))

\* An evaluation without a snapshot of the object cannot reach it, nor can
\* what it enters.
SavedObjectless(entry) ==
    /\ ~entry.snapshot
    /\ Objectless(entry.original) /\ Objectless(entry.globals) /\ Objectless(entry.persistents)
    /\ \A m \in OuterFrames(entry.frame) : Objectless(entry.borrowed[m])
Blind(c, i) == c[i].kind = "evaluation" /\ ~c[i].snapshot
Unreached(c, w, g, p, v, i) ==
    Blind(c, i) =>
      /\ v = c[i].field
      /\ Objectless(g) /\ Objectless(p)
      /\ \A m \in Frames : m <= c[i].frame /\ ~Hidden(c, m) => Objectless(w[m])
      /\ \A k \in i..Len(c) :
           /\ c[k].kind # "delegated" => Objectless(c[k].copy)
           /\ c[k].kind = "evaluation" => SavedObjectless(c[k])

SessionClean(c, w, g, p, v) ==
    /\ FieldContexts(v) \subseteq Active(c)
    /\ Clean(g, Active(c)) /\ Clean(p, Active(c))
    /\ \A f \in Frames : ~Hidden(c, f) => Clean(w[f], Active(c))

Sound(c, w, g, p, v) ==
    /\ Typed(c, w, g, p, v)
    /\ SessionClean(c, w, g, p, v)
    /\ \A i \in 1..Len(c) : /\ EntryTypes(c[i]) /\ Order(c, i)
                            /\ Kept(c, w, i)
                            /\ Unreached(c, w, g, p, v, i)

EvaluationInv ==
    /\ Sound(control, workspaces, globals, persistents, field)
    /\ evaluations \in Nat
-----------------------------------------------------------------------------
(***************************************************************************)
(* The control stack.                                                      *)
(***************************************************************************)
LEMMA Pushed ==
  ASSUME NEW s, IsSeq(s), NEW x
  PROVE  /\ IsSeq(Append(s, x))
         /\ Len(s) \in Nat /\ DOMAIN s = 1..Len(s)
         /\ Len(Append(s, x)) = Len(s) + 1
         /\ DOMAIN Append(s, x) = 1..(Len(s) + 1)
         /\ Append(s, x)[Len(s) + 1] = x
         /\ \A i \in 1..Len(s) : Append(s, x)[i] = s[i]
<1>1. PICK S : s \in Seq(S)
  BY DEF IsSeq
<1>2. s \in Seq(S \cup {x}) /\ x \in S \cup {x}
  BY <1>1, SeqMonotonic
<1>3. Append(s, x) \in Seq(S \cup {x})
  BY <1>2
<1> QED
  BY <1>2, <1>3, AppendProperties DEF IsSeq

LEMMA Popped ==
  ASSUME NEW s, IsSeq(s), s # <<>>
  PROVE  /\ IsSeq(Front(s))
         /\ Len(s) \in Nat \ {0} /\ DOMAIN s = 1..Len(s)
         /\ Last(s) = s[Len(s)]
         /\ Len(Front(s)) = Len(s) - 1
         /\ DOMAIN Front(s) = 1..(Len(s) - 1)
         /\ \A i \in 1..(Len(s) - 1) : Front(s)[i] = s[i]
<1>1. PICK S : s \in Seq(S)
  BY DEF IsSeq
<1>2. Len(s) \in Nat \ {0} /\ DOMAIN s = 1..Len(s)
  BY <1>1, EmptySeq, LenProperties
<1>3. Front(s) \in Seq(S) /\ Len(Front(s)) = Len(s) - 1
      /\ \A i \in 1..(Len(s) - 1) : Front(s)[i] = s[i]
  BY <1>1, <1>2 DEF Front
<1> QED
  BY <1>2, <1>3, LenProperties DEF IsSeq, Last

\* The last entry is replaced.
LEMMA Replaced ==
  ASSUME NEW s, IsSeq(s), s # <<>>, NEW x
  PROVE  LET t == Append(Front(s), x)
         IN /\ IsSeq(t)
            /\ Len(s) \in Nat \ {0}
            /\ Len(t) = Len(s) /\ DOMAIN t = 1..Len(s)
            /\ t[Len(s)] = x
            /\ \A i \in 1..(Len(s) - 1) : t[i] = s[i]
<1> DEFINE b == Front(s)
<1>1. /\ IsSeq(b) /\ Len(s) \in Nat \ {0} /\ Len(b) = Len(s) - 1
      /\ \A i \in 1..(Len(s) - 1) : b[i] = s[i]
  BY Popped
<1> HIDE DEF b
<1>2. /\ IsSeq(Append(b, x)) /\ Len(Append(b, x)) = Len(b) + 1
      /\ DOMAIN Append(b, x) = 1..(Len(b) + 1)
      /\ Append(b, x)[Len(b) + 1] = x
      /\ \A i \in 1..Len(b) : Append(b, x)[i] = b[i]
  BY <1>1, Pushed
<1> QED
  BY <1>1, <1>2 DEF b

LEMMA TopEntry ==
  ASSUME IsSeq(control), NEW kind, Running(kind)
  PROVE  /\ control # <<>>
         /\ Len(control) \in Nat \ {0} /\ DOMAIN control = 1..Len(control)
         /\ Top = control[Len(control)] /\ Top.kind = kind
<1>1. control # <<>> /\ Last(control).kind = kind
  BY DEF Running
<1> QED
  BY <1>1, Popped DEF Top

LEMMA ActiveAre ==
  ASSUME IsSeq(control)
  PROVE  ActiveContexts = Active(control)
BY DEF ActiveContexts, Active, ContextsBelow, IsSeq

\* An entry whose copy changed.
Alike(new, old) ==
    /\ new.kind = old.kind /\ new.frame = old.frame
    /\ old.kind # "delegated" => {"kind", "frame", "copy"} \subseteq DOMAIN new
    /\ old.kind = "evaluation" =>
         /\ EvaluationFields \subseteq DOMAIN new
         /\ new.below = old.below /\ new.context = old.context
         /\ new.original = old.original /\ new.borrowed = old.borrowed
         /\ new.globals = old.globals /\ new.persistents = old.persistents
         /\ new.snapshot = old.snapshot /\ new.field = old.field /\ new.allowed = old.allowed
         /\ new.output = old.output

LEMMA CopyChanges ==
  ASSUME NEW old, EntryTypes(old), old.kind # "delegated", NEW copy
  PROVE  /\ Alike([old EXCEPT !.copy = copy], old)
         /\ [old EXCEPT !.copy = copy].copy = copy
BY DEF Alike, EntryTypes, EvaluationFields

LEMMA EntryAlike ==
  ASSUME NEW old, EntryTypes(old)
  PROVE  Alike(old, old)
BY DEF Alike, EntryTypes

\* The first n entries of two stacks agree but for their copies.
SameBelow(d, c, n) == \A j \in 1..n : Alike(d[j], c[j])

LEMMA ContextsAlike ==
  ASSUME NEW c, NEW d, NEW n \in Nat, SameBelow(d, c, n), NEW i \in 1..(n + 1)
  PROVE  ContextsBelow(d, i) = ContextsBelow(c, i)
<1>1. \A j \in 1..(i - 1) : d[j].kind = c[j].kind
                            /\ (c[j].kind = "evaluation" => d[j].context = c[j].context)
  BY DEF SameBelow, Alike
<1> QED
  BY <1>1 DEF ContextsBelow

LEMMA ContextsGrow ==
  ASSUME NEW c, NEW i \in Nat, NEW j \in Nat, i <= j
  PROVE  /\ ContextsBelow(c, i) \subseteq ContextsBelow(c, j)
         /\ ParentContext \in ContextsBelow(c, i)
BY DEF ContextsBelow

LEMMA ContextsNext ==
  ASSUME NEW c, NEW i \in Nat \ {0}
  PROVE  /\ c[i].kind # "evaluation" => ContextsBelow(c, i + 1) = ContextsBelow(c, i)
         /\ c[i].kind = "evaluation" => c[i].context \in ContextsBelow(c, i + 1)
<1>1. (1..(i + 1 - 1)) = (1..(i - 1)) \cup {i}
  OBVIOUS
<1> QED
  BY <1>1 DEF ContextsBelow

LEMMA CleanGrows ==
  ASSUME NEW f, NEW S, NEW T, S \subseteq T, Clean(f, S)
  PROVE  Clean(f, T)
BY DEF Clean

LEMMA HiddenAlike ==
  ASSUME NEW c, NEW d, NEW f, Len(c) \in Nat, Len(d) = Len(c), SameBelow(d, c, Len(c))
  PROVE  Hidden(d, f) <=> Hidden(c, f)
<1>1. \A j \in 1..Len(c) : d[j].kind = c[j].kind /\ d[j].frame = c[j].frame
  BY DEF SameBelow, Alike
<1> QED
  BY <1>1 DEF Hidden

\* Stack c has one entry more than d.
LEMMA HiddenAbove ==
  ASSUME NEW c, NEW d, NEW f, Len(d) \in Nat, Len(c) = Len(d) + 1, SameBelow(d, c, Len(d))
  PROVE  LET e == c[Len(c)] IN
         /\ e.frame # f \/ e.kind = "anonymous" => (Hidden(c, f) <=> Hidden(d, f))
         /\ e.frame = f /\ e.kind = "evaluation" => Hidden(c, f)
         /\ e.frame = f /\ e.kind = "delegated" => ~Hidden(c, f)
<1> DEFINE n == Len(d)
<1>1. \A j \in 1..n : d[j].kind = c[j].kind /\ d[j].frame = c[j].frame
  BY DEF SameBelow, Alike
<1>2. /\ n \in Nat /\ Len(c) = n + 1 /\ Len(d) = n
      /\ 1..(n + 1) = (1..n) \cup {n + 1} /\ n + 1 \notin 1..n
      /\ \A j \in 1..n : j < n + 1
  OBVIOUS
<1> HIDE DEF n
<1>3. CASE c[n + 1].frame # f \/ c[n + 1].kind = "anonymous"
  <2>1. ASSUME Hidden(c, f) PROVE Hidden(d, f)
    BY <1>1, <1>2, <1>3, <2>1 DEF Hidden
  <2>2. ASSUME Hidden(d, f) PROVE Hidden(c, f)
    BY <1>1, <1>2, <1>3, <2>2, SMTT(30) DEF Hidden
  <2>3. ~(c[n + 1].frame = f /\ c[n + 1].kind \in {"evaluation", "delegated"})
    BY <1>3
  <2> QED
    BY <1>2, <2>1, <2>2, <2>3
<1>4. CASE c[n + 1].frame = f /\ c[n + 1].kind = "evaluation"
  <2>1. Hidden(c, f)
    BY <1>2, <1>4 DEF Hidden
  <2> QED
    BY <1>2, <1>4, <2>1
<1>5. CASE c[n + 1].frame = f /\ c[n + 1].kind = "delegated"
  <2>1. ~Hidden(c, f)
    BY <1>2, <1>5 DEF Hidden
  <2> QED
    BY <1>2, <1>5, <2>1
<1> QED
  BY <1>2, <1>3, <1>4, <1>5

\* The typing and order of the entries that remain.
LEMMA EntriesRemain ==
  ASSUME NEW c, NEW d, NEW n \in Nat, SameBelow(d, c, n), NEW i \in 1..n,
         EntryTypes(c[i]), Order(c, i),
         d[i].kind # "delegated" => d[i].copy \in Workspace
  PROVE  EntryTypes(d[i]) /\ Order(d, i)
<1>1. Alike(d[i], c[i])
  BY DEF SameBelow
<1>2. EntryTypes(d[i])
  BY <1>1 DEF EntryTypes, Alike
<1>3. \A j \in 1..i : d[j].frame = c[j].frame /\ d[j].kind = c[j].kind
  BY DEF SameBelow, Alike
<1>4. i > 1 => i - 1 \in 1..i
  OBVIOUS
<1>5. ASSUME NEW kinds PROVE OnSame(d, i, kinds) <=> OnSame(c, i, kinds)
  BY <1>3, <1>4 DEF OnSame
<1>6. d[i].kind = "evaluation" => d[i].below = c[i].below
  BY <1>1 DEF Alike
<1>7. \A j \in 1..i : d[i].frame <= d[j].frame
  BY <1>3 DEF Order
<1>8. Order(d, i)
  BY <1>3, <1>5, <1>6, <1>7 DEF Order
<1> QED
  BY <1>2, <1>8

\* A step that enters nothing: entries end or their copies change.  d and what
\* goes with it is the state after it; n entries remain.
Remains(c, d, n) ==
    /\ n \in Nat /\ Len(c) \in Nat /\ n <= Len(c) /\ Len(d) = n
    /\ SameBelow(d, c, n)
CopiesClean(c, d, n) ==
    \A i \in 1..n : d[i].kind # "delegated" =>
        d[i].copy \in Workspace /\ Clean(d[i].copy, ContextsBelow(c, i + 1))
OuterKept(c, d, w, n) ==
    \A i \in 1..n : c[i].kind = "evaluation" =>
        \A f \in Frames : f > c[i].frame /\ ~Hidden(d, f) => Clean(w[f], ContextsBelow(c, i))
StillBlind(c, d, w, g, p, v, v2, n) ==
    \A i \in 1..n : Blind(c, i) =>
      /\ v2 = v
      /\ Objectless(g) /\ Objectless(p)
      /\ \A m \in Frames : m <= c[i].frame /\ ~Hidden(d, m) => Objectless(w[m])
      /\ \A k \in i..n : d[k].kind # "delegated" => Objectless(d[k].copy)

LEMMA StaysSound ==
  ASSUME NEW c, NEW w, NEW g, NEW p, NEW v, Sound(c, w, g, p, v),
         NEW d, NEW w2, NEW g2, NEW p2, NEW v2, NEW n,
         Remains(c, d, n), Typed(d, w2, g2, p2, v2),
         CopiesClean(c, d, n),
         FieldContexts(v2) \subseteq ContextsBelow(c, n + 1),
         Clean(g2, ContextsBelow(c, n + 1)), Clean(p2, ContextsBelow(c, n + 1)),
         \A f \in Frames : ~Hidden(d, f) => Clean(w2[f], ContextsBelow(c, n + 1)),
         OuterKept(c, d, w2, n),
         StillBlind(c, d, w2, g2, p2, v, v2, n)
  PROVE  Sound(d, w2, g2, p2, v2)
<1>1. n \in Nat /\ Len(c) \in Nat /\ n <= Len(c) /\ Len(d) = n /\ SameBelow(d, c, n)
  BY DEF Remains
<1>2. \A i \in 1..(n + 1) : ContextsBelow(d, i) = ContextsBelow(c, i)
  BY <1>1, ContextsAlike
<1>3. SessionClean(d, w2, g2, p2, v2)
  BY <1>1, <1>2 DEF SessionClean, Active
<1>4. ASSUME NEW i \in 1..n
      PROVE  /\ EntryTypes(d[i]) /\ Order(d, i)
             /\ Kept(d, w2, i)
             /\ Unreached(d, w2, g2, p2, v2, i)
  <2>1. i \in 1..Len(c) /\ i \in 1..(n + 1) /\ i + 1 \in 1..(n + 1)
    BY <1>1
  <2>2. EntryTypes(c[i]) /\ Order(c, i) /\ Kept(c, w, i) /\ Unreached(c, w, g, p, v, i)
    BY <2>1 DEF Sound
  <2>3. EntryTypes(d[i]) /\ Order(d, i)
    BY <1>1, <2>2, EntriesRemain DEF CopiesClean
  <2>4. Alike(d[i], c[i])
    BY <1>1 DEF SameBelow
  <2>5. Kept(d, w2, i)
    <3>1. d[i].kind # "delegated" => Clean(d[i].copy, ContextsBelow(d, i + 1))
      BY <1>2, <2>1 DEF CopiesClean
    <3>2. ASSUME d[i].kind = "evaluation"
          PROVE  GivesBack(d[i], ContextsBelow(d, i))
      <4>1. GivesBack(c[i], ContextsBelow(c, i))
        BY <2>2, <2>4, <3>2 DEF Kept, Alike
      <4> QED
        BY <1>2, <2>1, <2>4, <3>2, <4>1 DEF GivesBack, Alike
    <3>3. d[i].kind = "evaluation" =>
            \A f \in Frames :
              f > d[i].frame /\ ~Hidden(d, f) => Clean(w2[f], ContextsBelow(d, i))
      BY <1>2, <2>1, <2>4 DEF OuterKept, Alike
    <3> QED
      BY <3>1, <3>2, <3>3 DEF Kept
  <2>6. ASSUME Blind(d, i)
        PROVE  /\ v2 = d[i].field
               /\ Objectless(g2) /\ Objectless(p2)
               /\ \A m \in Frames : m <= d[i].frame /\ ~Hidden(d, m) => Objectless(w2[m])
               /\ \A k \in i..n : /\ d[k].kind # "delegated" => Objectless(d[k].copy)
                                  /\ d[k].kind = "evaluation" => SavedObjectless(d[k])
    <3>1. Blind(c, i) /\ d[i].field = c[i].field /\ d[i].frame = c[i].frame
      BY <2>4, <2>6 DEF Blind, Alike
    <3>2. /\ v2 = v
          /\ Objectless(g2) /\ Objectless(p2)
          /\ \A m \in Frames : m <= c[i].frame /\ ~Hidden(d, m) => Objectless(w2[m])
          /\ \A k \in i..n : d[k].kind # "delegated" => Objectless(d[k].copy)
      BY <3>1 DEF StillBlind
    <3>3. v = c[i].field /\ \A k \in i..Len(c) : c[k].kind = "evaluation" => SavedObjectless(c[k])
      BY <2>2, <3>1 DEF Unreached
    <3>4. ASSUME NEW k \in i..n, d[k].kind = "evaluation" PROVE SavedObjectless(d[k])
      <4>1. k \in 1..n /\ k \in i..Len(c)
        BY <1>1
      <4>2. Alike(d[k], c[k])
        BY <1>1, <4>1 DEF SameBelow
      <4>3. SavedObjectless(c[k])
        BY <3>3, <3>4, <4>1, <4>2 DEF Alike
      <4> QED
        BY <3>4, <4>2, <4>3 DEF SavedObjectless, Alike
    <3> QED
      BY <3>1, <3>2, <3>3, <3>4
  <2>7. Unreached(d, w2, g2, p2, v2, i)
    BY <1>1, <2>6 DEF Unreached
  <2> QED
    BY <2>3, <2>5, <2>7
<1> QED
  BY <1>1, <1>3, <1>4 DEF Sound

\* A step that enters one more entry, the last of d.
Enters(c, d) ==
    /\ Len(c) \in Nat /\ Len(d) = Len(c) + 1
    /\ \A i \in 1..Len(c) : d[i] = c[i]
EntryClean(c, e) ==
    /\ e.kind # "delegated" => Clean(e.copy, Active(c))
    /\ e.kind = "evaluation" => GivesBack(e, Active(c))
BlindBelow(c, d, w, e) ==
    \A i \in 1..Len(c) : Blind(c, i) =>
      /\ \A m \in Frames : m <= c[i].frame /\ ~Hidden(d, m) => Objectless(w[m])
      /\ e.kind # "delegated" => Objectless(e.copy)
      /\ e.kind = "evaluation" => SavedObjectless(e)
BlindHere(d, w, g, p, v, e) ==
    e.kind = "evaluation" /\ ~e.snapshot =>
      /\ v = e.field
      /\ Objectless(g) /\ Objectless(p) /\ Objectless(e.copy) /\ SavedObjectless(e)
      /\ \A m \in Frames : m <= e.frame /\ ~Hidden(d, m) => Objectless(w[m])

LEMMA EntersSound ==
  ASSUME NEW c, NEW w, NEW g, NEW p, NEW v, Sound(c, w, g, p, v),
         NEW d, NEW w2, NEW e, e = d[Len(d)],
         Enters(c, d), Typed(d, w2, g, p, v),
         EntryTypes(e), Order(d, Len(d)), EntryClean(c, e),
         \A f \in Frames : ~Hidden(d, f) => Clean(w2[f], Active(c)),
         OuterKept(c, d, w2, Len(c)),
         BlindBelow(c, d, w2, e), BlindHere(d, w2, g, p, v, e)
  PROVE  Sound(d, w2, g, p, v)
<1> DEFINE n == Len(c)
<1>1. n \in Nat /\ Len(c) = n /\ Len(d) = n + 1 /\ \A i \in 1..n : d[i] = c[i]
  BY DEF Enters
<1> HIDE DEF n
<1>2. \A i \in 1..n : EntryTypes(c[i]) /\ Order(c, i) /\ Kept(c, w, i) /\ Unreached(c, w, g, p, v, i)
  BY <1>1 DEF Sound
<1>3. SameBelow(d, c, n)
  BY <1>1, <1>2, EntryAlike DEF SameBelow
<1>4. \A i \in 1..(n + 1) : ContextsBelow(d, i) = ContextsBelow(c, i)
  BY <1>1, <1>3, ContextsAlike
<1>5. Active(c) = ContextsBelow(c, n + 1) /\ Active(d) = ContextsBelow(d, n + 1 + 1)
  BY <1>1 DEF Active
<1>6. ContextsBelow(d, n + 1) = Active(c) /\ Active(c) \subseteq Active(d)
  BY <1>1, <1>4, <1>5, ContextsGrow
<1>7. SessionClean(d, w2, g, p, v)
  <2>1. SessionClean(c, w, g, p, v)
    BY DEF Sound
  <2> QED
    BY <1>6, <2>1, CleanGrows DEF SessionClean
<1>8. ASSUME NEW i \in 1..n
      PROVE  /\ EntryTypes(d[i]) /\ Order(d, i)
             /\ Kept(d, w2, i)
             /\ Unreached(d, w2, g, p, v, i)
  <2>1. i \in 1..(n + 1) /\ i + 1 \in 1..(n + 1) /\ d[i] = c[i]
    BY <1>1
  <2>2. EntryTypes(c[i]) /\ Order(c, i) /\ Kept(c, w, i) /\ Unreached(c, w, g, p, v, i)
    BY <1>2
  <2>3. EntryTypes(d[i]) /\ Order(d, i)
    BY <1>1, <1>3, <2>1, <2>2, EntriesRemain DEF EntryTypes
  <2>4. Kept(d, w2, i)
    BY <1>1, <1>4, <2>1, <2>2 DEF Kept, OuterKept
  <2>5. ASSUME Blind(d, i)
        PROVE  /\ v = d[i].field
               /\ Objectless(g) /\ Objectless(p)
               /\ \A m \in Frames : m <= d[i].frame /\ ~Hidden(d, m) => Objectless(w2[m])
               /\ \A k \in i..(n + 1) : /\ d[k].kind # "delegated" => Objectless(d[k].copy)
                                        /\ d[k].kind = "evaluation" => SavedObjectless(d[k])
    <3>1. Blind(c, i)
      BY <2>1, <2>5 DEF Blind
    <3>2. /\ v = c[i].field /\ Objectless(g) /\ Objectless(p)
          /\ \A k \in i..n : /\ c[k].kind # "delegated" => Objectless(c[k].copy)
                             /\ c[k].kind = "evaluation" => SavedObjectless(c[k])
      BY <1>1, <2>2, <3>1 DEF Unreached
    <3>3. /\ \A m \in Frames : m <= c[i].frame /\ ~Hidden(d, m) => Objectless(w2[m])
          /\ e.kind # "delegated" => Objectless(e.copy)
          /\ e.kind = "evaluation" => SavedObjectless(e)
      BY <1>1, <3>1 DEF BlindBelow
    <3>4. ASSUME NEW k \in i..(n + 1)
          PROVE  /\ d[k].kind # "delegated" => Objectless(d[k].copy)
                 /\ d[k].kind = "evaluation" => SavedObjectless(d[k])
      <4>1. CASE k = n + 1
        BY <1>1, <3>3, <4>1
      <4>2. CASE k \in i..n
        BY <1>1, <3>2, <4>2
      <4> QED
        BY <1>1, <4>1, <4>2
    <3> QED
      BY <2>1, <3>2, <3>3, <3>4
  <2>6. Unreached(d, w2, g, p, v, i)
    BY <1>1, <2>5 DEF Unreached
  <2> QED
    BY <2>3, <2>4, <2>6
<1>9. e = d[n + 1]
  BY <1>1
<1>10. EntryTypes(d[n + 1]) /\ Order(d, n + 1)
  BY <1>1
<1>11. Kept(d, w2, n + 1)
  <2>1. e.kind # "delegated" => Clean(e.copy, Active(d))
    BY <1>6, CleanGrows DEF EntryClean
  <2>2. e.kind = "evaluation" => GivesBack(e, ContextsBelow(d, n + 1))
    BY <1>6 DEF EntryClean
  <2>3. \A f \in Frames : ~Hidden(d, f) => Clean(w2[f], ContextsBelow(d, n + 1))
    BY <1>6
  <2> QED
    BY <1>5, <1>9, <2>1, <2>2, <2>3 DEF Kept
<1>12. Unreached(d, w2, g, p, v, n + 1)
  <2>1. \A k \in (n + 1)..Len(d) : k = n + 1
    BY <1>1
  <2> QED
    BY <1>1, <1>9, <2>1 DEF Unreached, Blind, BlindHere
<1>13. \A i \in 1..(n + 1) : i \in 1..n \/ i = n + 1
  BY <1>1
<1> QED
  BY <1>1, <1>7, <1>8, <1>10, <1>11, <1>12, <1>13 DEF Sound

\* A step of the innermost entry: it stores in its copy, in the session and in
\* workspaces no deeper entry's.
AnyBlind(c) == \E i \in 1..Len(c) : Blind(c, i)
CopyStored(c, d) ==
    \A i \in 1..Len(c) :
      d[i] = c[i] \/ /\ i = Len(c) /\ d[i].copy \in Workspace /\ Clean(d[i].copy, Active(c))
                     /\ AnyBlind(c) => Objectless(d[i].copy)

LEMMA InnerStep ==
  ASSUME NEW c, NEW w, NEW g, NEW p, NEW v, Sound(c, w, g, p, v), Len(c) > 0,
         NEW d, NEW w2, NEW g2, NEW p2, NEW v2,
         Remains(c, d, Len(c)), Typed(d, w2, g2, p2, v2),
         CopyStored(c, d),
         FieldContexts(v2) \subseteq Active(c), Clean(g2, Active(c)), Clean(p2, Active(c)),
         \A f \in Frames : ~Hidden(c, f) => Clean(w2[f], Active(c)),
         \A f \in Frames : f > c[Len(c)].frame => w2[f] = w[f],
         AnyBlind(c) => /\ v2 = v /\ Objectless(g2) /\ Objectless(p2)
                        /\ \A f \in Frames : ~Hidden(c, f) /\ Objectless(w[f]) => Objectless(w2[f])
  PROVE  Sound(d, w2, g2, p2, v2)
<1> DEFINE n == Len(c)
<1>1. n \in Nat /\ Len(c) = n /\ n > 0 /\ Len(d) = n /\ SameBelow(d, c, n)
  BY DEF Remains
<1>2. \A f : Hidden(d, f) <=> Hidden(c, f)
  BY <1>1, HiddenAlike
<1> HIDE DEF n
<1>3. Active(c) = ContextsBelow(c, n + 1)
  BY <1>1 DEF Active
<1>4. \A i \in 1..n : EntryTypes(c[i]) /\ Order(c, i) /\ Kept(c, w, i) /\ Unreached(c, w, g, p, v, i)
  BY <1>1 DEF Sound
<1>5. \A i \in 1..n : c[n].frame <= c[i].frame /\ c[i].frame \in Frames
  BY <1>1, <1>4 DEF Order, EntryTypes
<1>6. CopiesClean(c, d, n)
  <2> SUFFICES ASSUME NEW i \in 1..n, d[i].kind # "delegated"
               PROVE  d[i].copy \in Workspace /\ Clean(d[i].copy, ContextsBelow(c, i + 1))
    BY DEF CopiesClean
  <2>1. CASE d[i] = c[i]
    BY <1>4, <2>1 DEF EntryTypes, Kept
  <2>2. CASE d[i] # c[i]
    BY <1>1, <1>3, <2>2 DEF CopyStored
  <2> QED
    BY <2>1, <2>2
<1>7. OuterKept(c, d, w2, n)
  <2> SUFFICES ASSUME NEW i \in 1..n, c[i].kind = "evaluation",
                      NEW f \in Frames, f > c[i].frame, ~Hidden(d, f)
               PROVE  Clean(w2[f], ContextsBelow(c, i))
    BY DEF OuterKept
  <2>1. w2[f] = w[f]
    BY <1>1, <1>5 DEF Frames, Base, Function
  <2>2. Clean(w[f], ContextsBelow(c, i))
    BY <1>2, <1>4 DEF Kept
  <2> QED
    BY <2>1, <2>2
<1>8. StillBlind(c, d, w2, g2, p2, v, v2, n)
  <2> SUFFICES ASSUME NEW i \in 1..n, Blind(c, i)
               PROVE  /\ v2 = v
                      /\ Objectless(g2) /\ Objectless(p2)
                      /\ \A m \in Frames : m <= c[i].frame /\ ~Hidden(d, m) => Objectless(w2[m])
                      /\ \A k \in i..n : d[k].kind # "delegated" => Objectless(d[k].copy)
    BY DEF StillBlind
  <2>1. AnyBlind(c)
    BY <1>1 DEF AnyBlind
  <2>2. /\ \A m \in Frames : m <= c[i].frame /\ ~Hidden(c, m) => Objectless(w[m])
        /\ \A k \in i..n : c[k].kind # "delegated" => Objectless(c[k].copy)
    BY <1>1, <1>4 DEF Unreached
  <2>3. ASSUME NEW k \in i..n, d[k].kind # "delegated" PROVE Objectless(d[k].copy)
    <3>1. k \in 1..n
      OBVIOUS
    <3> QED
      BY <1>1, <2>1, <2>2, <2>3, <3>1 DEF CopyStored
  <2> QED
    BY <1>2, <2>1, <2>2, <2>3
<1> QED
  BY <1>1, <1>2, <1>3, <1>6, <1>7, <1>8, StaysSound DEF Remains

LEMMA TopFacts ==
  ASSUME Sound(control, workspaces, globals, persistents, field), NEW kind, Running(kind)
  PROVE  /\ control # <<>> /\ Len(control) \in Nat \ {0}
         /\ Top = control[Len(control)] /\ Top.kind = kind
         /\ EntryTypes(Top) /\ Order(control, Len(control))
         /\ Kept(control, workspaces, Len(control))
         /\ Unreached(control, workspaces, globals, persistents, field, Len(control))
         /\ \A i \in 1..Len(control) :
               Top.frame <= control[i].frame /\ control[i].frame \in Frames
         /\ kind \in {"evaluation", "anonymous"} =>
              /\ Hidden(control, Top.frame)
              /\ Top.copy \in Workspace /\ Clean(Top.copy, Active(control))
              /\ AnyBlind(control) => Objectless(Top.copy)
         /\ kind = "delegated" => ~Hidden(control, Top.frame)
         /\ \A m \in OuterFrames(Top.frame) : m \in Frames /\ m < Top.frame /\ ~Hidden(control, m)
<1> DEFINE n == Len(control)
<1>1. IsSeq(control)
  BY DEF Sound, Typed
<1>2. control # <<>> /\ n \in Nat \ {0} /\ Top = control[n] /\ Top.kind = kind
  BY <1>1, TopEntry
<1>3. \A i \in 1..n : /\ EntryTypes(control[i]) /\ Order(control, i) /\ Kept(control, workspaces, i)
                      /\ Unreached(control, workspaces, globals, persistents, field, i)
  BY DEF Sound
<1> HIDE DEF n
<1>4. n \in 1..n
  BY <1>2
<1>5. \A i \in 1..n : Top.frame <= control[i].frame /\ control[i].frame \in Frames
  BY <1>2, <1>3, <1>4 DEF Order, EntryTypes
<1>6. Active(control) = ContextsBelow(control, n + 1)
  BY DEF Active, n
<1>7. ASSUME kind \in {"evaluation", "anonymous"}
      PROVE  /\ Hidden(control, Top.frame)
             /\ Top.copy \in Workspace /\ Clean(Top.copy, Active(control))
             /\ AnyBlind(control) => Objectless(Top.copy)
  <2>1. Hidden(control, Top.frame)
    <3>1. CASE kind = "evaluation"
      BY <1>2, <1>4, <3>1 DEF Hidden, n
    <3>2. CASE kind = "anonymous"
      <4>1. OnSame(control, n, {"evaluation"})
        BY <1>2, <1>3, <1>4, <3>2 DEF Order
      <4>2. n - 1 \in 1..n /\ \A j \in 1..n : j > n - 1 => j = n
        BY <1>2, <4>1 DEF OnSame
      <4> QED
        BY <1>2, <3>2, <4>1, <4>2 DEF Hidden, n, OnSame
    <3> QED
      BY <1>7, <3>1, <3>2
  <2>2. Top.copy \in Workspace /\ Clean(Top.copy, Active(control))
    BY <1>2, <1>3, <1>4, <1>6, <1>7 DEF EntryTypes, Kept
  <2>3. ASSUME AnyBlind(control) PROVE Objectless(Top.copy)
    <3>1. PICK i \in 1..n : Blind(control, i)
      BY <2>3 DEF AnyBlind, n
    <3>2. n \in i..n
      BY <1>2
    <3> QED
      BY <1>2, <1>3, <1>7, <3>1, <3>2 DEF Unreached, n
  <2> QED
    BY <2>1, <2>2, <2>3
<1>8. kind = "delegated" => ~Hidden(control, Top.frame)
  BY <1>2, <1>4 DEF Hidden, n
<1>9. \A m \in OuterFrames(Top.frame) : m \in Frames /\ m < Top.frame /\ ~Hidden(control, m)
  <2> SUFFICES ASSUME NEW m \in OuterFrames(Top.frame)
               PROVE  m \in Frames /\ m < Top.frame /\ ~Hidden(control, m)
    OBVIOUS
  <2>1. m \in Frames /\ m < Top.frame
    BY DEF OuterFrames
  <2>2. \A i \in 1..n : control[i].frame # m
    BY <1>2, <1>4, <1>5, <2>1 DEF Frames, Base, Function
  <2> QED
    BY <2>1, <2>2 DEF Hidden, n
<1> QED
  BY <1>2, <1>3, <1>4, <1>5, <1>7, <1>8, <1>9 DEF n
-----------------------------------------------------------------------------
(***************************************************************************)
(* Values.                                                                 *)
(***************************************************************************)
LEMMA KindsDiffer ==
  /\ None \in Value /\ Plain \in Value /\ Empty \in Value /\ Object \in Value
  /\ \A c \in Nat : Handle(c) \in Value /\ Handle(c).context = c /\ Handle(c) # Object
  /\ None.kind # "handle" /\ Plain.kind # "handle" /\ Empty.kind # "handle" /\ Object.kind # "handle"
  /\ None # Object /\ Plain # Object /\ Empty # Object
  /\ \A x \in Value : x.kind = "object" <=> x = Object
<1>1. /\ None.kind = "none" /\ Plain.kind = "plain" /\ Empty.kind = "empty" /\ Object.kind = "object"
      /\ \A c : Handle(c).kind = "handle" /\ Handle(c).context = c
  BY DEF None, Plain, Empty, Object, Handle
<1>2. /\ "none" # "handle" /\ "plain" # "handle" /\ "empty" # "handle" /\ "object" # "handle"
      /\ "none" # "object" /\ "plain" # "object" /\ "empty" # "object"
  OBVIOUS
<1>3. \A c \in Nat : Handle(c) # Object
  BY <1>1, <1>2
<1>4. None # Object /\ Plain # Object /\ Empty # Object
  BY <1>1, <1>2
<1>5. ASSUME NEW x \in Value PROVE x.kind = "object" <=> x = Object
  <2>1. x \in {None, Plain, Empty, Object} \/ \E c \in Nat : x = Handle(c)
    BY DEF Value
  <2> QED
    BY <1>1, <1>2, <2>1
<1>6. /\ None \in Value /\ Plain \in Value /\ Empty \in Value /\ Object \in Value
      /\ \A c \in Nat : Handle(c) \in Value
  BY DEF Value
<1> QED
  BY <1>1, <1>2, <1>3, <1>4, <1>5, <1>6

\* A value may be stored where the contexts S are active and the object is
\* reachable when seen.
Storable(value, S, seen) ==
    /\ value \in Value
    /\ value.kind = "handle" => value.context \in S
    /\ ~seen => value # Object

LEMMA StoreIn ==
  ASSUME NEW N, NEW f \in [N -> Value], NEW S,
         NEW value \in Value, value.kind = "handle" => value.context \in S, NEW name
  PROVE  LET h == [f EXCEPT ![name] = value]
         IN /\ h \in [N -> Value]
            /\ Clean(f, S) => Clean(h, S)
            /\ value # Object /\ Objectless(f) => Objectless(h)
BY DEF Clean, Objectless

LEMMA VisibleStorable ==
  ASSUME Sound(control, workspaces, globals, persistents, field), Running("evaluation"),
         NEW value \in VisibleIn
  PROVE  Storable(value, Active(control), ~AnyBlind(control))
<1> DEFINE n == Len(control)
<1>1. /\ n \in Nat \ {0} /\ Top = control[n] /\ Top.kind = "evaluation" /\ EntryTypes(Top)
      /\ Top.copy \in Workspace /\ Clean(Top.copy, Active(control))
      /\ AnyBlind(control) => Objectless(Top.copy)
  BY TopFacts
<1>2. Top.context \in Active(control) /\ Top.context \in Nat
  BY <1>1, ContextsNext DEF Active, EntryTypes
<1> HIDE DEF n
<1>3. CASE value = Plain
  BY <1>3, KindsDiffer DEF Storable
<1>4. CASE value = Handle(Top.context)
  BY <1>2, <1>4, KindsDiffer DEF Storable
<1>5. CASE value \in Values(Top.copy)
  <2>1. PICK name \in DOMAIN Top.copy : value = Top.copy[name]
    BY <1>5 DEF Values
  <2> QED
    BY <1>1, <2>1 DEF Storable, Workspace, Clean, Objectless
<1> QED
  BY <1>3, <1>4, <1>5 DEF VisibleIn

\* The innermost entry stores in its copy: what becomes of the stack.
LEMMA CopyReplaced ==
  ASSUME Sound(control, workspaces, globals, persistents, field),
         NEW kind \in {"evaluation", "anonymous"}, Running(kind),
         NEW copy \in Workspace, Clean(copy, Active(control)),
         AnyBlind(control) => Objectless(copy),
         NEW d, d = Append(Front(control), [Top EXCEPT !.copy = copy])
  PROVE  /\ IsSeq(d)
         /\ Remains(control, d, Len(control))
         /\ CopyStored(control, d)
<1> DEFINE n == Len(control)
           x == [Top EXCEPT !.copy = copy]
<1>1. /\ IsSeq(control) /\ control # <<>> /\ n \in Nat \ {0} /\ Top = control[n] /\ Top.kind = kind
      /\ EntryTypes(Top)
  BY TopFacts DEF Sound, Typed
<1>2. Alike(x, control[n]) /\ x.copy = copy
  BY <1>1, CopyChanges
<1>3. \A i \in 1..n : EntryTypes(control[i])
  BY DEF Sound
<1> HIDE DEF n, x
<1>4. d = Append(Front(control), x)
  BY DEF x
<1>5. /\ IsSeq(d) /\ Len(d) = n /\ d[n] = x /\ \A i \in 1..(n - 1) : d[i] = control[i]
  BY <1>1, <1>4, Replaced DEF n
<1>6. \A i \in 1..n : d[i] = control[i] \/ i = n
  BY <1>1, <1>5
<1>7. SameBelow(d, control, n)
  <2> SUFFICES ASSUME NEW i \in 1..n PROVE Alike(d[i], control[i])
    BY DEF SameBelow
  <2>1. CASE i = n
    BY <1>2, <1>5, <2>1
  <2>2. CASE i # n
    <3>1. d[i] = control[i] /\ EntryTypes(control[i])
      BY <1>3, <1>6, <2>2
    <3> QED
      BY <3>1, EntryAlike
  <2> QED
    BY <2>1, <2>2
<1> QED
  BY <1>1, <1>2, <1>5, <1>6, <1>7 DEF Remains, CopyStored, n

\* The stack does not change.
LEMMA StackKept ==
  ASSUME Sound(control, workspaces, globals, persistents, field), control # <<>>
  PROVE  Remains(control, control, Len(control)) /\ CopyStored(control, control)
<1>1. IsSeq(control) /\ Len(control) \in Nat \ {0}
  BY Popped DEF Sound, Typed
<1>2. SameBelow(control, control, Len(control))
  BY EntryAlike DEF Sound, SameBelow
<1> QED
  BY <1>1, <1>2 DEF Remains, CopyStored
-----------------------------------------------------------------------------
(***************************************************************************)
(* The steps of evaluated code and of delegated calls.                     *)
(***************************************************************************)
SoundNow == Sound(control, workspaces, globals, persistents, field)

\* What the session holds, and what a session without the object keeps.
LEMMA SessionFacts ==
  ASSUME SoundNow
  PROVE  /\ Typed(control, workspaces, globals, persistents, field)
         /\ FieldContexts(field) \subseteq Active(control)
         /\ Clean(globals, Active(control)) /\ Clean(persistents, Active(control))
         /\ \A f \in Frames : ~Hidden(control, f) => Clean(workspaces[f], Active(control))
         /\ AnyBlind(control) => Objectless(globals) /\ Objectless(persistents)
         /\ IsSeq(control)
BY DEF SoundNow, Sound, SessionClean, Typed, AnyBlind, Unreached

\* A storable value may be stored in the session.
LEMMA SessionStored ==
  ASSUME NEW s \in Session, Clean(s, Active(control)), AnyBlind(control) => Objectless(s),
         NEW name, NEW value, Storable(value, Active(control), ~AnyBlind(control)),
         NEW t, t = s \/ t = [s EXCEPT ![name] = value]
  PROVE  t \in Session /\ Clean(t, Active(control)) /\ (AnyBlind(control) => Objectless(t))
<1>1. CASE t = s
  BY <1>1
<1>2. CASE t = [s EXCEPT ![name] = value]
  <2>1. /\ value \in Value
        /\ value.kind = "handle" => value.context \in Active(control)
        /\ AnyBlind(control) => value # Object
    BY DEF Storable
  <2> QED
    BY <1>2, <2>1, StoreIn DEF Session
<1> QED
  BY <1>1, <1>2

LEMMA StoreVariableKeeps ==
  ASSUME SoundNow, StoreVariable
  PROVE  SoundNow'
<1> DEFINE seen == ~AnyBlind(control)
<1>1. Running("evaluation")
  BY DEF StoreVariable
<1>2. PICK name \in WrittenBack, value \in VisibleIn :
        /\ StoreSession(Top.frame, name, value)
        /\ ReplaceTop([Top EXCEPT !.copy[name] = value])
  BY DEF StoreVariable
<1>3. UNCHANGED <<workspaces, field>>
  BY DEF StoreVariable
<1>4. Storable(value, Active(control), seen)
  BY <1>1, VisibleStorable DEF SoundNow
<1>5. /\ control # <<>> /\ Len(control) \in Nat \ {0}
      /\ Top.copy \in Workspace /\ Clean(Top.copy, Active(control))
      /\ AnyBlind(control) => Objectless(Top.copy)
  BY <1>1, TopFacts DEF SoundNow
<1> DEFINE copy == [Top.copy EXCEPT ![name] = value]
<1> HIDE DEF seen
<1>6. /\ copy \in Workspace /\ Clean(copy, Active(control))
      /\ value # Object /\ Objectless(Top.copy) => Objectless(copy)
  BY <1>4, <1>5, StoreIn DEF Workspace, Storable
<1>7. control' = Append(Front(control), [Top EXCEPT !.copy = copy])
  BY <1>2 DEF ReplaceTop
<1> HIDE DEF copy
<1>8. IsSeq(control') /\ Remains(control, control', Len(control)) /\ CopyStored(control, control')
  BY <1>1, <1>4, <1>5, <1>6, <1>7, CopyReplaced DEF SoundNow, seen, Storable
<1>10. /\ globals' = globals \/ globals' = [globals EXCEPT ![name] = value]
       /\ persistents' = persistents \/ persistents' = [persistents EXCEPT ![name] = value]
  BY <1>2 DEF StoreSession
<1>11. /\ globals' \in Session /\ Clean(globals', Active(control))
       /\ AnyBlind(control) => Objectless(globals')
       /\ persistents' \in Session /\ Clean(persistents', Active(control))
       /\ AnyBlind(control) => Objectless(persistents')
  BY <1>4, <1>10, SessionStored, SessionFacts DEF Typed, seen
<1>12. Typed(control', workspaces', globals', persistents', field')
  BY <1>3, <1>8, <1>11, SessionFacts DEF Typed
<1> QED
  BY <1>3, <1>5, <1>8, <1>11, <1>12, SessionFacts, InnerStep DEF SoundNow

\* A frame's workspace is replaced by one as clean.
LEMMA WorkspaceReplaced ==
  ASSUME SoundNow, NEW m \in Frames, NEW row \in Workspace,
         ~Hidden(control, m) => Clean(row, Active(control)),
         AnyBlind(control) /\ ~Hidden(control, m) /\ Objectless(workspaces[m]) => Objectless(row),
         NEW w2, w2 \in [Frames -> Workspace], w2[m] = row,
         \A f \in Frames : f # m => w2[f] = workspaces[f]
  PROVE  /\ \A f \in Frames : ~Hidden(control, f) => Clean(w2[f], Active(control))
         /\ AnyBlind(control) =>
              \A f \in Frames : ~Hidden(control, f) /\ Objectless(workspaces[f]) => Objectless(w2[f])
BY SessionFacts

\* A storable value is stored in a frame's workspace.
LEMMA WorkspaceStored ==
  ASSUME SoundNow, NEW m \in Frames, NEW name, NEW value,
         Storable(value, Active(control), ~AnyBlind(control))
  PROVE  LET row == [workspaces[m] EXCEPT ![name] = value] IN
         /\ row \in Workspace
         /\ ~Hidden(control, m) => Clean(row, Active(control))
         /\ AnyBlind(control) /\ ~Hidden(control, m) /\ Objectless(workspaces[m]) => Objectless(row)
<1>1. workspaces[m] \in [Names -> Value]
  BY SessionFacts DEF Typed, Workspace
<1>2. /\ value \in Value
      /\ value.kind = "handle" => value.context \in Active(control)
      /\ AnyBlind(control) => value # Object
  BY DEF Storable
<1> DEFINE row == [workspaces[m] EXCEPT ![name] = value]
<1>3. /\ row \in [Names -> Value]
      /\ Clean(workspaces[m], Active(control)) => Clean(row, Active(control))
      /\ value # Object /\ Objectless(workspaces[m]) => Objectless(row)
  BY <1>1, <1>2, StoreIn
<1> HIDE DEF row
<1>4. /\ row \in Workspace
      /\ ~Hidden(control, m) => Clean(row, Active(control))
      /\ AnyBlind(control) /\ ~Hidden(control, m) /\ Objectless(workspaces[m]) => Objectless(row)
  BY <1>2, <1>3, SessionFacts DEF Workspace
<1> QED
  BY <1>4 DEF row

LEMMA AssignInKeeps ==
  ASSUME SoundNow, AssignIn
  PROVE  SoundNow'
<1>1. Running("evaluation") /\ UNCHANGED <<globals, persistents, field, control>>
  BY DEF AssignIn
<1>2. PICK m \in OuterFrames(Top.frame), name \in WrittenBack, value \in VisibleIn :
        workspaces' = [workspaces EXCEPT ![m][name] = value]
  BY DEF AssignIn
<1>3. /\ control # <<>> /\ Len(control) \in Nat \ {0} /\ Top = control[Len(control)]
      /\ m \in Frames /\ m < Top.frame /\ Top.frame \in Frames
  BY <1>1, TopFacts DEF SoundNow, EntryTypes
<1>4. Storable(value, Active(control), ~AnyBlind(control))
  BY <1>1, VisibleStorable DEF SoundNow
<1> DEFINE row == [workspaces[m] EXCEPT ![name] = value]
<1>10. /\ row \in Workspace
       /\ ~Hidden(control, m) => Clean(row, Active(control))
       /\ AnyBlind(control) /\ ~Hidden(control, m) /\ Objectless(workspaces[m]) => Objectless(row)
  BY <1>3, <1>4, WorkspaceStored
<1>11. workspaces' = [workspaces EXCEPT ![m] = row] /\ workspaces \in [Frames -> Workspace]
  BY <1>2, SessionFacts DEF Typed
<1> HIDE DEF row
<1>12. /\ workspaces' \in [Frames -> Workspace] /\ workspaces'[m] = row
       /\ \A f \in Frames : f # m => workspaces'[f] = workspaces[f]
  BY <1>3, <1>10, <1>11
<1>5. /\ \A f \in Frames : ~Hidden(control, f) => Clean(workspaces'[f], Active(control))
      /\ AnyBlind(control) =>
           \A f \in Frames : ~Hidden(control, f) /\ Objectless(workspaces[f]) => Objectless(workspaces'[f])
  BY <1>3, <1>10, <1>12, WorkspaceReplaced
<1>6. Remains(control, control, Len(control)) /\ CopyStored(control, control)
  BY <1>3, StackKept DEF SoundNow
<1>7. Typed(control, workspaces', globals, persistents, field)
  BY <1>12, SessionFacts DEF Typed
<1>8. \A f \in Frames : f > control[Len(control)].frame => f # m
  BY <1>3 DEF Frames, Base, Function
<1>9. Sound(control, workspaces', globals, persistents, field)
  BY <1>3, <1>5, <1>6, <1>7, <1>8, <1>12, SessionFacts, InnerStep DEF SoundNow
<1> QED
  BY <1>1, <1>9 DEF SoundNow

LEMMA DelegatedStoreKeeps ==
  ASSUME SoundNow, DelegatedStore
  PROVE  SoundNow'
<1>1. Running("delegated") /\ UNCHANGED <<globals, persistents, field, control>>
  BY DEF DelegatedStore
<1>2. PICK name \in WrittenBack, value \in {Plain, Handle(ParentContext)} :
        workspaces' = [workspaces EXCEPT ![Top.frame][name] = value]
  BY DEF DelegatedStore
<1>3. /\ control # <<>> /\ Len(control) \in Nat \ {0} /\ Top = control[Len(control)]
      /\ Top.frame \in Frames
  BY <1>1, TopFacts DEF SoundNow, EntryTypes
<1>4. Storable(value, Active(control), ~AnyBlind(control))
  <2>1. ParentContext \in Active(control) /\ ParentContext \in Nat
    BY <1>3, ContextsGrow DEF Active, ParentContext
  <2> QED
    BY <2>1, KindsDiffer DEF Storable
<1> DEFINE row == [workspaces[Top.frame] EXCEPT ![name] = value]
<1>10. /\ row \in Workspace
       /\ ~Hidden(control, Top.frame) => Clean(row, Active(control))
       /\ AnyBlind(control) /\ ~Hidden(control, Top.frame) /\ Objectless(workspaces[Top.frame]) => Objectless(row)
  BY <1>3, <1>4, WorkspaceStored
<1>11. workspaces' = [workspaces EXCEPT ![Top.frame] = row] /\ workspaces \in [Frames -> Workspace]
  BY <1>2, SessionFacts DEF Typed
<1> HIDE DEF row
<1>12. /\ workspaces' \in [Frames -> Workspace] /\ workspaces'[Top.frame] = row
       /\ \A f \in Frames : f # Top.frame => workspaces'[f] = workspaces[f]
  BY <1>3, <1>10, <1>11
<1>5. /\ \A f \in Frames : ~Hidden(control, f) => Clean(workspaces'[f], Active(control))
      /\ AnyBlind(control) =>
           \A f \in Frames : ~Hidden(control, f) /\ Objectless(workspaces[f]) => Objectless(workspaces'[f])
  BY <1>3, <1>10, <1>12, WorkspaceReplaced
<1>6. Remains(control, control, Len(control)) /\ CopyStored(control, control)
  BY <1>3, StackKept DEF SoundNow
<1>7. Typed(control, workspaces', globals, persistents, field)
  BY <1>12, SessionFacts DEF Typed
<1>8. \A f \in Frames : f > control[Len(control)].frame => f # Top.frame
  BY <1>3 DEF Frames, Base, Function
<1>9. Sound(control, workspaces', globals, persistents, field)
  BY <1>3, <1>5, <1>6, <1>7, <1>8, <1>12, SessionFacts, InnerStep DEF SoundNow
<1> QED
  BY <1>1, <1>9 DEF SoundNow

LEMMA StoreFieldKeeps ==
  ASSUME SoundNow, StoreField
  PROVE  SoundNow'
<1>1. /\ Running("evaluation") /\ UNCHANGED <<workspaces, globals, persistents, control>>
      /\ field' \in VisibleIn \ {Object} /\ Object \in Values(Top.copy)
  BY DEF StoreField
<1>2. /\ control # <<>> /\ Len(control) \in Nat \ {0} /\ Top = control[Len(control)]
      /\ AnyBlind(control) => Objectless(Top.copy)
  BY <1>1, TopFacts DEF SoundNow
<1>3. ~AnyBlind(control)
  BY <1>1, <1>2 DEF Values, Objectless
<1>4. Storable(field', Active(control), ~AnyBlind(control))
  BY <1>1, VisibleStorable DEF SoundNow
<1>5. field' \in Value \ {Object} /\ FieldContexts(field') \subseteq Active(control)
  BY <1>1, <1>4 DEF Storable, FieldContexts
<1>6. Remains(control, control, Len(control)) /\ CopyStored(control, control)
  BY <1>2, StackKept DEF SoundNow
<1>7. Typed(control, workspaces, globals, persistents, field')
  BY <1>5, SessionFacts DEF Typed
<1>8. Sound(control, workspaces, globals, persistents, field')
  BY <1>2, <1>3, <1>5, <1>6, <1>7, SessionFacts, InnerStep DEF SoundNow
<1> QED
  BY <1>1, <1>8 DEF SoundNow

\* A declaration gives name a storable value, wherever it keeps it.
Declared(name, value) ==
    /\ workspaces' = [workspaces EXCEPT ![Top.frame][name] = value]
    /\ ReplaceTop([Top EXCEPT !.copy[name] = value])
    /\ globals' = globals \/ globals' = [globals EXCEPT ![name] = value]
    /\ persistents' = persistents \/ persistents' = [persistents EXCEPT ![name] = value]
    /\ field' = field

LEMMA Declares ==
  ASSUME SoundNow, Running("evaluation"),
         NEW name \in WrittenBack, NEW value, Storable(value, Active(control), ~AnyBlind(control)),
         Declared(name, value)
  PROVE  SoundNow'
<1>1. /\ control # <<>> /\ Len(control) \in Nat \ {0} /\ Top = control[Len(control)]
      /\ Top.frame \in Frames /\ Hidden(control, Top.frame)
      /\ Top.copy \in Workspace /\ Clean(Top.copy, Active(control))
      /\ AnyBlind(control) => Objectless(Top.copy)
  BY TopFacts DEF SoundNow, EntryTypes
<1>2. /\ value \in Value
      /\ value.kind = "handle" => value.context \in Active(control)
      /\ AnyBlind(control) => value # Object
  BY DEF Storable
<1> DEFINE row == [workspaces[Top.frame] EXCEPT ![name] = value]
           copy == [Top.copy EXCEPT ![name] = value]
<1>3. /\ row \in Workspace
      /\ ~Hidden(control, Top.frame) => Clean(row, Active(control))
      /\ AnyBlind(control) /\ ~Hidden(control, Top.frame) /\ Objectless(workspaces[Top.frame]) => Objectless(row)
  BY <1>1, WorkspaceStored
<1>4. workspaces' = [workspaces EXCEPT ![Top.frame] = row] /\ workspaces \in [Frames -> Workspace]
  BY SessionFacts DEF Typed, Declared
<1>5. /\ copy \in Workspace /\ Clean(copy, Active(control))
      /\ value # Object /\ Objectless(Top.copy) => Objectless(copy)
  BY <1>1, <1>2, StoreIn DEF Workspace
<1>6. control' = Append(Front(control), [Top EXCEPT !.copy = copy])
  BY DEF ReplaceTop, Declared
<1> HIDE DEF row, copy
<1>7. /\ workspaces' \in [Frames -> Workspace] /\ workspaces'[Top.frame] = row
      /\ \A f \in Frames : f # Top.frame => workspaces'[f] = workspaces[f]
  BY <1>1, <1>3, <1>4
<1>8. /\ \A f \in Frames : ~Hidden(control, f) => Clean(workspaces'[f], Active(control))
      /\ AnyBlind(control) =>
           \A f \in Frames : ~Hidden(control, f) /\ Objectless(workspaces[f]) => Objectless(workspaces'[f])
  BY <1>1, <1>3, <1>7, WorkspaceReplaced
<1>9. IsSeq(control') /\ Remains(control, control', Len(control)) /\ CopyStored(control, control')
  BY <1>1, <1>2, <1>5, <1>6, CopyReplaced DEF SoundNow
<1>10. /\ globals' \in Session /\ Clean(globals', Active(control))
       /\ AnyBlind(control) => Objectless(globals')
       /\ persistents' \in Session /\ Clean(persistents', Active(control))
       /\ AnyBlind(control) => Objectless(persistents')
  BY SessionStored, SessionFacts DEF Typed, Declared
<1>11. Typed(control', workspaces', globals', persistents', field')
  BY <1>7, <1>9, <1>10, SessionFacts DEF Typed, Declared
<1>12. \A f \in Frames : f > control[Len(control)].frame => f # Top.frame
  BY <1>1 DEF Frames, Base, Function
<1>13. \A f \in Frames : f > control[Len(control)].frame => workspaces'[f] = workspaces[f]
  BY <1>7, <1>12
<1>14. AnyBlind(control) =>
         /\ field' = field /\ Objectless(globals') /\ Objectless(persistents')
         /\ \A f \in Frames : ~Hidden(control, f) /\ Objectless(workspaces[f]) => Objectless(workspaces'[f])
  BY <1>8, <1>10 DEF Declared
<1>15. FieldContexts(field') \subseteq Active(control) /\ Len(control) > 0
  BY <1>1, SessionFacts DEF Declared
<1>16. Sound(control', workspaces', globals', persistents', field')
  BY <1>8, <1>9, <1>10, <1>11, <1>13, <1>14, <1>15, InnerStep DEF SoundNow
<1> QED
  BY <1>16 DEF SoundNow

LEMMA DeclareKeeps ==
  ASSUME SoundNow, Declare
  PROVE  SoundNow'
<1> DEFINE ok(value) == Storable(value, Active(control), ~AnyBlind(control))
<1>1. Running("evaluation") /\ field' = field
  BY DEF Declare
<1>2. PICK name \in WrittenBack :
        \/ DeclareGlobal(Top.frame, name, Top.copy[name])
        \/ DeclarePersistent(Top.frame, name, Top.copy[name])
        \/ Top.frame = Base /\ DeclareInScript(name, Top.copy[name])
  BY DEF Declare
<1>3. /\ Top.copy \in Workspace /\ Clean(Top.copy, Active(control))
      /\ AnyBlind(control) => Objectless(Top.copy)
  BY <1>1, TopFacts DEF SoundNow
<1>4. name \in Names
  BY DEF Names
<1>5. ok(Top.copy[name])
  BY <1>3, <1>4 DEF Storable, Workspace, Clean, Objectless
<1>6. ok(globals[name]) /\ ok(persistents[name])
  BY SessionFacts DEF Typed, Session, Storable, Clean, Objectless
<1>7. ok(Empty)
  BY KindsDiffer DEF Storable
<1> HIDE DEF ok
<1>8. \A value : ok(value) => ok(Orphan(value))
  BY <1>7 DEF Orphan
<1>9. CASE DeclareGlobal(Top.frame, name, Top.copy[name])
  <2> DEFINE stored == IF globals[name] = None /\ bindings[Top.frame][name] = "local"
                       THEN Top.copy[name] ELSE globals[name]
             value == Orphan(stored)
  <2>1. ok(stored)
    BY <1>5, <1>6
  <2>2. ok(value)
    BY <1>8, <2>1
  <2>3. /\ globals' = [globals EXCEPT ![name] = value]
        /\ workspaces' = [workspaces EXCEPT ![Top.frame][name] = value]
        /\ ReplaceTop([Top EXCEPT !.copy[name] = value])
        /\ persistents' = persistents
    BY <1>9 DEF DeclareGlobal
  <2> HIDE DEF value
  <2> QED
    BY <1>1, <2>2, <2>3, Declares DEF ok, Declared
<1>10. CASE DeclarePersistent(Top.frame, name, Top.copy[name])
  <2> DEFINE value == Orphan(persistents[name])
  <2>1. ok(value)
    BY <1>6, <1>8
  <2>2. /\ persistents' = [persistents EXCEPT ![name] = value]
        /\ workspaces' = [workspaces EXCEPT ![Top.frame][name] = value]
        /\ ReplaceTop([Top EXCEPT !.copy[name] = value])
        /\ globals' = globals
    BY <1>10 DEF DeclarePersistent
  <2> HIDE DEF value
  <2> QED
    BY <1>1, <2>1, <2>2, Declares DEF ok, Declared
<1>11. CASE Top.frame = Base /\ DeclareInScript(name, Top.copy[name])
  <2>1. /\ workspaces' = [workspaces EXCEPT ![Top.frame][name] = Empty]
        /\ ReplaceTop([Top EXCEPT !.copy[name] = Empty])
        /\ globals' = globals /\ persistents' = persistents
    BY <1>11 DEF DeclareInScript
  <2> QED
    BY <1>1, <1>7, <2>1, Declares DEF ok, Declared
<1> QED
  BY <1>2, <1>9, <1>10, <1>11
-----------------------------------------------------------------------------
(***************************************************************************)
(* Entering.                                                               *)
(***************************************************************************)
LEMMA Appended ==
  ASSUME SoundNow, NEW e, NEW d, d = Append(control, e)
  PROVE  /\ IsSeq(d) /\ Len(control) \in Nat /\ Len(d) = Len(control) + 1
         /\ Enters(control, d) /\ d[Len(d)] = e
         /\ \A f : /\ e.frame # f \/ e.kind = "anonymous" => (Hidden(d, f) <=> Hidden(control, f))
                   /\ e.frame = f /\ e.kind = "evaluation" => Hidden(d, f)
                   /\ e.frame = f /\ e.kind = "delegated" => ~Hidden(d, f)
<1> DEFINE n == Len(control)
<1>1. /\ IsSeq(d) /\ n \in Nat /\ Len(d) = n + 1 /\ d[n + 1] = e
      /\ \A i \in 1..n : d[i] = control[i]
  BY Pushed, SessionFacts
<1>2. \A i \in 1..n : EntryTypes(control[i])
  BY DEF SoundNow, Sound
<1> HIDE DEF n
<1>3. SameBelow(control, d, n)
  BY <1>1, <1>2, EntryAlike DEF SameBelow
<1>4. d[Len(d)] = e
  BY <1>1
<1>5. \A f : /\ e.frame # f \/ e.kind = "anonymous" => (Hidden(d, f) <=> Hidden(control, f))
             /\ e.frame = f /\ e.kind = "evaluation" => Hidden(d, f)
             /\ e.frame = f /\ e.kind = "delegated" => ~Hidden(d, f)
  BY <1>1, <1>3, <1>4, HiddenAbove DEF n
<1> QED
  BY <1>1, <1>4, <1>5 DEF Enters, n

\* What entering leaves of the deeper workspaces.
LEMMA DeeperKept ==
  ASSUME SoundNow, NEW d, NEW w2, NEW m \in Frames,
         \A i \in 1..Len(control) : m <= control[i].frame,
         \A f \in Frames : f # m => w2[f] = workspaces[f] /\ (Hidden(d, f) <=> Hidden(control, f))
  PROVE  OuterKept(control, d, w2, Len(control))
<1> SUFFICES ASSUME NEW i \in 1..Len(control), control[i].kind = "evaluation",
                    NEW f \in Frames, f > control[i].frame, ~Hidden(d, f)
             PROVE  Clean(w2[f], ContextsBelow(control, i))
  BY DEF OuterKept
<1>1. Kept(control, workspaces, i) /\ EntryTypes(control[i]) /\ m <= control[i].frame
  BY DEF SoundNow, Sound
<1>2. f # m
  BY <1>1 DEF EntryTypes, Frames, Base, Function
<1> QED
  BY <1>1, <1>2 DEF Kept

\* What a blind evaluation cannot see in the workspaces before.
LEMMA BlindWorkspaces ==
  ASSUME SoundNow, NEW i \in 1..Len(control), Blind(control, i)
  PROVE  /\ AnyBlind(control)
         /\ \A m \in Frames : m <= control[i].frame /\ ~Hidden(control, m) => Objectless(workspaces[m])
BY DEF SoundNow, Sound, Unreached, AnyBlind

LEMMA CallAnonymousKeeps ==
  ASSUME SoundNow, CallAnonymous
  PROVE  SoundNow'
<1> DEFINE copy == [name \in Names |-> IF name = "x" THEN Plain ELSE None]
           e == [kind |-> "anonymous", frame |-> Top.frame, copy |-> copy]
<1>1. /\ Running("evaluation") /\ control' = Append(control, e)
      /\ UNCHANGED <<workspaces, globals, persistents, field>>
  BY DEF CallAnonymous
<1>2. copy \in Workspace /\ Clean(copy, Active(control)) /\ Objectless(copy)
  BY KindsDiffer DEF Workspace, Clean, Objectless
<1> HIDE DEF copy
<1>3. e.kind = "anonymous" /\ e.frame = Top.frame /\ e.copy = copy
      /\ {"kind", "frame", "copy"} \subseteq DOMAIN e
  OBVIOUS
<1> HIDE DEF e
<1>4. /\ Len(control) \in Nat \ {0} /\ Top = control[Len(control)] /\ Top.kind = "evaluation"
      /\ Top.frame \in Frames
      /\ \A i \in 1..Len(control) : Top.frame <= control[i].frame
  BY <1>1, TopFacts DEF SoundNow, EntryTypes
<1>5. /\ IsSeq(control') /\ Len(control') = Len(control) + 1
      /\ Enters(control, control') /\ control'[Len(control')] = e
      /\ \A f : Hidden(control', f) <=> Hidden(control, f)
  BY <1>1, <1>3, Appended
<1>6. EntryTypes(e)
  BY <1>2, <1>3, <1>4 DEF EntryTypes
<1>7. Order(control', Len(control'))
  <2>1. \A i \in 1..Len(control) : control'[i] = control[i]
    BY <1>5 DEF Enters
  <2>2. OnSame(control', Len(control'), {"evaluation"})
    BY <1>3, <1>4, <1>5, <2>1 DEF OnSame
  <2>3. \A j \in 1..Len(control') : e.frame <= control'[j].frame
    BY <1>3, <1>4, <1>5, <2>1 DEF Frames, Base, Function
  <2> QED
    BY <1>3, <1>5, <2>2, <2>3 DEF Order
<1>8. EntryClean(control, e)
  BY <1>2, <1>3 DEF EntryClean
<1>9. OuterKept(control, control', workspaces, Len(control))
  BY <1>4, <1>5, DeeperKept
<1>10. BlindBelow(control, control', workspaces, e)
  BY <1>2, <1>3, <1>5, BlindWorkspaces DEF BlindBelow
<1>11. BlindHere(control', workspaces, globals, persistents, field, e)
  BY <1>3 DEF BlindHere
<1>12. Typed(control', workspaces, globals, persistents, field)
  BY <1>5, SessionFacts DEF Typed
<1>13. \A f \in Frames : ~Hidden(control', f) => Clean(workspaces[f], Active(control))
  BY <1>5, SessionFacts
<1>14. Sound(control', workspaces, globals, persistents, field)
  BY <1>5, <1>6, <1>7, <1>8, <1>9, <1>10, <1>11, <1>12, <1>13, EntersSound DEF SoundNow
<1> QED
  BY <1>1, <1>14 DEF SoundNow

LEMMA DelegateKeeps ==
  ASSUME SoundNow, Delegate
  PROVE  SoundNow'
<1> DEFINE e == [kind |-> "delegated", frame |-> Top.frame]
           row == Top.copy
<1>1. PICK kind \in {"evaluation", "anonymous"} : Running(kind)
  BY DEF Delegate, Callers
<1>2. /\ workspaces' = [workspaces EXCEPT ![Top.frame] = row]
      /\ control' = Append(control, e)
      /\ UNCHANGED <<globals, persistents, field>>
  BY DEF Delegate, Publish
<1>3. e.kind = "delegated" /\ e.frame = Top.frame
  OBVIOUS
<1>4. /\ Len(control) \in Nat \ {0} /\ Top = control[Len(control)] /\ Top.kind = kind
      /\ Top.frame \in Frames
      /\ row \in Workspace /\ Clean(row, Active(control))
      /\ AnyBlind(control) => Objectless(row)
      /\ \A i \in 1..Len(control) : Top.frame <= control[i].frame
  BY <1>1, TopFacts DEF SoundNow, EntryTypes
<1> HIDE DEF e, row
<1>5. /\ IsSeq(control') /\ Len(control') = Len(control) + 1
      /\ Enters(control, control') /\ control'[Len(control')] = e
      /\ \A f : f # Top.frame => (Hidden(control', f) <=> Hidden(control, f))
  BY <1>2, <1>3, Appended
<1>6. /\ workspaces' \in [Frames -> Workspace] /\ workspaces'[Top.frame] = row
      /\ \A f \in Frames : f # Top.frame => workspaces'[f] = workspaces[f]
  BY <1>2, <1>4, SessionFacts DEF Typed
<1>7. EntryTypes(e)
  BY <1>3, <1>4 DEF EntryTypes
<1>8. Order(control', Len(control'))
  <2>1. \A i \in 1..Len(control) : control'[i] = control[i]
    BY <1>5 DEF Enters
  <2>2. OnSame(control', Len(control'), {"evaluation", "anonymous"})
    BY <1>3, <1>4, <1>5, <2>1 DEF OnSame
  <2>3. \A j \in 1..Len(control') : e.frame <= control'[j].frame
    BY <1>3, <1>4, <1>5, <2>1 DEF Frames, Base, Function
  <2> QED
    BY <1>3, <1>5, <2>2, <2>3 DEF Order
<1>9. EntryClean(control, e)
  BY <1>3 DEF EntryClean
<1>10. OuterKept(control, control', workspaces', Len(control))
  BY <1>4, <1>5, <1>6, DeeperKept
<1>11. BlindBelow(control, control', workspaces', e)
  <2> SUFFICES ASSUME NEW i \in 1..Len(control), Blind(control, i),
                      NEW m \in Frames, m <= control[i].frame, ~Hidden(control', m)
               PROVE  Objectless(workspaces'[m])
    BY <1>3 DEF BlindBelow
  <2>1. CASE m = Top.frame
    BY <1>4, <1>6, <2>1, BlindWorkspaces
  <2>2. CASE m # Top.frame
    BY <1>5, <1>6, <2>2, BlindWorkspaces
  <2> QED
    BY <2>1, <2>2
<1>12. BlindHere(control', workspaces', globals, persistents, field, e)
  BY <1>3 DEF BlindHere
<1>13. Typed(control', workspaces', globals, persistents, field)
  BY <1>5, <1>6, SessionFacts DEF Typed
<1>14. \A f \in Frames : ~Hidden(control', f) => Clean(workspaces'[f], Active(control))
  BY <1>4, <1>5, <1>6, SessionFacts
<1>15. Sound(control', workspaces', globals, persistents, field)
  BY <1>5, <1>7, <1>8, <1>9, <1>10, <1>11, <1>12, <1>13, <1>14, EntersSound DEF SoundNow
<1> QED
  BY <1>2, <1>15 DEF SoundNow

LEMMA ContextsAre ==
  ASSUME NEW value \in Value, field \in Value
  PROVE  /\ value.kind = "handle" => Contexts(value) = {value.context}
         /\ value = Object => Contexts(value) = FieldContexts(field)
         /\ value.kind # "handle" /\ value # Object => Contexts(value) = {}
<1>1. value.kind = "object" <=> value = Object
  BY KindsDiffer
<1>2. value.kind = "handle" => value.kind # "object"
  OBVIOUS
<1> QED
  BY <1>1, <1>2 DEF Contexts, FieldContexts

\* What an evaluation on a workspace starts with may hold.
HeldOK(held, frame, workspace) ==
    /\ \A m \in OuterFrames(frame) : m \in Frames /\ m < frame /\ ~Hidden(control, m)
    /\ \A value \in held : Storable(value, Active(control), ~AnyBlind(control))
    /\ Values(workspace) \subseteq held
    /\ \A m \in OuterFrames(frame) : Values(workspaces[m]) \subseteq held
    /\ Values(globals) \subseteq held /\ Values(persistents) \subseteq held

LEMMA HeldIsClean ==
  ASSUME SoundNow, NEW frame \in Frames, NEW workspace \in Workspace,
         Clean(workspace, Active(control)), AnyBlind(control) => Objectless(workspace),
         \A i \in 1..Len(control) : frame <= control[i].frame
  PROVE  HeldOK(HeldForEvaluation(workspace, frame), frame, workspace)
<1>1. /\ workspaces \in [Frames -> Workspace] /\ globals \in Session /\ persistents \in Session
      /\ Clean(globals, Active(control)) /\ Clean(persistents, Active(control))
      /\ \A f \in Frames : ~Hidden(control, f) => Clean(workspaces[f], Active(control))
      /\ AnyBlind(control) => Objectless(globals) /\ Objectless(persistents)
  BY SessionFacts DEF Typed
<1>2. ASSUME NEW m \in OuterFrames(frame) PROVE m \in Frames /\ m < frame /\ ~Hidden(control, m)
  <2>1. m \in Frames /\ m < frame
    BY DEF OuterFrames
  <2>2. \A i \in 1..Len(control) : control[i].frame # m
    BY <2>1 DEF SoundNow, Sound, EntryTypes, Frames, Base, Function
  <2> QED
    BY <2>1, <2>2 DEF Hidden
<1>3. \A m \in OuterFrames(frame) : /\ workspaces[m] \in Workspace /\ Clean(workspaces[m], Active(control))
                                    /\ AnyBlind(control) => Objectless(workspaces[m])
  <2> SUFFICES ASSUME NEW m \in OuterFrames(frame)
               PROVE  /\ workspaces[m] \in Workspace /\ Clean(workspaces[m], Active(control))
                      /\ AnyBlind(control) => Objectless(workspaces[m])
    OBVIOUS
  <2>1. ASSUME AnyBlind(control) PROVE Objectless(workspaces[m])
    <3>1. PICK i \in 1..Len(control) : Blind(control, i)
      BY <2>1 DEF AnyBlind
    <3>2. m <= control[i].frame
      BY <1>2 DEF SoundNow, Sound, EntryTypes, Frames, Base, Function
    <3> QED
      BY <1>2, <3>1, <3>2, BlindWorkspaces
  <2> QED
    BY <1>1, <1>2, <2>1
<1>4. \A f : /\ f \in Workspace \/ f \in Session
             /\ Clean(f, Active(control)) /\ (AnyBlind(control) => Objectless(f))
             => \A value \in Values(f) : Storable(value, Active(control), ~AnyBlind(control))
  BY DEF Values, Workspace, Session, Storable, Clean, Objectless
<1>5. /\ \A value \in Values(workspace) : Storable(value, Active(control), ~AnyBlind(control))
      /\ \A value \in Values(globals) : Storable(value, Active(control), ~AnyBlind(control))
      /\ \A value \in Values(persistents) : Storable(value, Active(control), ~AnyBlind(control))
      /\ \A m \in OuterFrames(frame) :
           \A value \in Values(workspaces[m]) : Storable(value, Active(control), ~AnyBlind(control))
  BY <1>1, <1>3, <1>4
<1> QED
  BY <1>2, <1>5 DEF HeldForEvaluation, HeldInWorkspaces, HeldOK

LEMMA EvaluateKeeps ==
  ASSUME SoundNow, evaluations \in Nat,
         NEW frame \in Frames, NEW workspace \in Workspace, NEW below \in BOOLEAN,
         Clean(workspace, Active(control)), AnyBlind(control) => Objectless(workspace),
         below => Running("evaluation") /\ Top.frame = frame,
         \A i \in 1..Len(control) : frame <= control[i].frame,
         Evaluate(frame, workspace, below)
  PROVE  SoundNow'
<1> DEFINE held == HeldForEvaluation(workspace, frame)
           S == {ParentContext} \cup AllContexts(held)
           shot == SnapshotShared(workspace, frame)
<1>1. PICK output :
        control' = Append(control,
          [kind |-> "evaluation", frame |-> frame, below |-> below,
           context |-> evaluations + 1, copy |-> workspace, original |-> workspace,
           borrowed |-> workspaces, globals |-> globals, persistents |-> persistents,
           snapshot |-> shot, field |-> field, allowed |-> S, output |-> output])
  BY DEF Evaluate
<1>2. UNCHANGED <<workspaces, globals, persistents, field>>
  BY DEF Evaluate
<1>3. shot \in BOOLEAN /\ (shot <=> Object \in held)
  BY DEF SnapshotShared
<1>4. HeldOK(held, frame, workspace)
  BY HeldIsClean
<1> HIDE DEF held, shot
<1>5. field \in Value \ {Object} /\ FieldContexts(field) \subseteq Active(control)
      /\ IsSeq(control) /\ workspaces \in [Frames -> Workspace]
      /\ globals \in Session /\ persistents \in Session
  BY SessionFacts DEF Typed
<1>6. Len(control) \in Nat /\ ParentContext \in Active(control)
  BY <1>5, Pushed, ContextsGrow DEF Active
<1>7. ASSUME NEW value \in held
      PROVE  /\ value \in Value
             /\ Contexts(value) \subseteq Active(control) /\ Contexts(value) \subseteq S
             /\ value.kind = "handle" => value.context \in S
             /\ value = Object => FieldContexts(field) \subseteq S
  <2>1. Storable(value, Active(control), ~AnyBlind(control))
    BY <1>4 DEF HeldOK
  <2>2. value \in Value /\ (value.kind = "handle" => value.context \in Active(control))
    BY <2>1 DEF Storable
  <2>3. Contexts(value) \subseteq S
    BY DEF AllContexts
  <2>4. /\ value.kind = "handle" => Contexts(value) = {value.context}
        /\ value = Object => Contexts(value) = FieldContexts(field)
        /\ value.kind # "handle" /\ value # Object => Contexts(value) = {}
    BY <1>5, <2>2, ContextsAre
  <2> QED
    BY <1>5, <2>2, <2>3, <2>4
<1>8. S \subseteq Active(control)
  BY <1>6, <1>7 DEF AllContexts
<1> HIDE DEF S
<1>9. /\ \A f : Values(f) \subseteq held => Clean(f, S)
      /\ \A f : Values(f) \subseteq held /\ ~shot => Objectless(f)
      /\ AnyBlind(control) => ~shot
  BY <1>3, <1>4, <1>7 DEF Values, Clean, Objectless, Storable, HeldOK
<1> DEFINE e == [kind |-> "evaluation", frame |-> frame, below |-> below,
                 context |-> evaluations + 1, copy |-> workspace, original |-> workspace,
                 borrowed |-> workspaces, globals |-> globals, persistents |-> persistents,
                 snapshot |-> shot, field |-> field, allowed |-> S, output |-> output]
<1>10. /\ e.kind = "evaluation" /\ e.frame = frame /\ e.below = below /\ e.context = evaluations + 1
       /\ e.copy = workspace /\ e.original = workspace /\ e.borrowed = workspaces
       /\ e.globals = globals /\ e.persistents = persistents /\ e.snapshot = shot
       /\ e.field = field /\ e.allowed = S /\ EvaluationFields \subseteq DOMAIN e
  BY DEF EvaluationFields
<1>11. control' = Append(control, e)
  BY <1>1
<1> HIDE DEF e
<1>12. EntryTypes(e)
  BY <1>3, <1>5, <1>10 DEF EntryTypes, EvaluationFields
<1>13. /\ IsSeq(control') /\ Len(control') = Len(control) + 1
       /\ Enters(control, control') /\ control'[Len(control')] = e
       /\ \A f : f # frame => (Hidden(control', f) <=> Hidden(control, f))
       /\ Hidden(control', frame)
  BY <1>10, <1>11, Appended
<1>14. Order(control', Len(control'))
  <2>1. \A i \in 1..Len(control) : control'[i] = control[i]
    BY <1>13 DEF Enters
  <2>2. ASSUME below PROVE OnSame(control', Len(control'), {"evaluation"})
    <3>1. /\ Len(control) \in Nat \ {0} /\ Top = control[Len(control)] /\ Top.kind = "evaluation"
          /\ Top.frame = frame
      BY <2>2, TopFacts DEF SoundNow
    <3> QED
      BY <1>10, <1>13, <2>1, <3>1 DEF OnSame
  <2>3. \A j \in 1..Len(control') : e.frame <= control'[j].frame
    BY <1>6, <1>10, <1>13, <2>1 DEF Frames, Base, Function
  <2> QED
    BY <1>10, <1>13, <2>2, <2>3 DEF Order
<1>15. EntryClean(control, e)
  <2>1. shot => FieldContexts(field) \subseteq S
    BY <1>3, <1>7
  <2>2. GivesBack(e, Active(control))
    BY <1>4, <1>5, <1>8, <1>9, <1>10, <2>1 DEF GivesBack, HeldOK
  <2> QED
    BY <1>10, <2>2 DEF EntryClean
<1>16. ~shot => /\ Objectless(globals) /\ Objectless(persistents) /\ Objectless(workspace)
                /\ \A m \in OuterFrames(frame) : Objectless(workspaces[m])
                /\ SavedObjectless(e)
  BY <1>4, <1>9, <1>10 DEF SavedObjectless, HeldOK
<1>17. OuterKept(control, control', workspaces, Len(control))
  <2>1. ASSUME NEW i \in 1..Len(control), control[i].kind = "evaluation",
               NEW f \in Frames, f > control[i].frame, ~Hidden(control', f)
        PROVE  Clean(workspaces[f], ContextsBelow(control, i))
    <3>1. Kept(control, workspaces, i)
      BY DEF SoundNow, Sound
    <3>2. ~Hidden(control, f)
      BY <1>13, <2>1
    <3> QED
      BY <2>1, <3>1, <3>2 DEF Kept
  <2> QED
    BY <2>1 DEF OuterKept
<1>18. BlindBelow(control, control', workspaces, e)
  BY <1>9, <1>10, <1>13, <1>16, BlindWorkspaces DEF BlindBelow
<1>19. BlindHere(control', workspaces, globals, persistents, field, e)
  <2>1. \A m \in Frames : m <= frame /\ ~Hidden(control', m) => m \in OuterFrames(frame)
    BY <1>13 DEF OuterFrames, Frames, Base, Function
  <2> QED
    BY <1>10, <1>16, <2>1 DEF BlindHere
<1>20. Typed(control', workspaces, globals, persistents, field)
  BY <1>13, SessionFacts DEF Typed
<1>21. \A f \in Frames : ~Hidden(control', f) => Clean(workspaces[f], Active(control))
  BY <1>13, SessionFacts
<1>22. Sound(control', workspaces, globals, persistents, field)
  BY <1>12, <1>13, <1>14, <1>15, <1>17, <1>18, <1>19, <1>20, <1>21, EntersSound DEF SoundNow
<1> QED
  BY <1>2, <1>22 DEF SoundNow

\* Code of a frame no evaluation hides, and that is below none, sees no object
\* a blind evaluation could not see.
LEMMA SeenWorkspace ==
  ASSUME SoundNow, NEW frame \in Frames, ~Hidden(control, frame),
         \A i \in 1..Len(control) : frame <= control[i].frame
  PROVE  /\ workspaces[frame] \in Workspace /\ Clean(workspaces[frame], Active(control))
         /\ AnyBlind(control) => Objectless(workspaces[frame])
<1>1. workspaces[frame] \in Workspace /\ Clean(workspaces[frame], Active(control))
  BY SessionFacts DEF Typed
<1>2. ASSUME AnyBlind(control) PROVE Objectless(workspaces[frame])
  <2>1. PICK i \in 1..Len(control) : Blind(control, i)
    BY <1>2 DEF AnyBlind
  <2> QED
    BY <2>1, BlindWorkspaces
<1> QED
  BY <1>1, <1>2

LEMMA StartEvaluationKeeps ==
  ASSUME SoundNow, evaluations \in Nat, StartEvaluation
  PROVE  SoundNow'
<1>1. ASSUME control = <<>>, NEW frame \in Frames, Evaluate(frame, workspaces[frame], FALSE)
      PROVE  SoundNow'
  <2>1. Len(control) = 0
    BY <1>1
  <2>2. ~Hidden(control, frame) /\ \A i \in 1..Len(control) : frame <= control[i].frame
    BY <2>1 DEF Hidden
  <2>3. /\ workspaces[frame] \in Workspace /\ Clean(workspaces[frame], Active(control))
        /\ AnyBlind(control) => Objectless(workspaces[frame])
    BY <2>2, SeenWorkspace
  <2> QED
    BY <1>1, <2>2, <2>3, EvaluateKeeps
<1>2. ASSUME Running("delegated"), Evaluate(Top.frame, workspaces[Top.frame], FALSE)
      PROVE  SoundNow'
  <2>1. /\ Top.frame \in Frames /\ ~Hidden(control, Top.frame)
        /\ \A i \in 1..Len(control) : Top.frame <= control[i].frame
    BY <1>2, TopFacts DEF SoundNow, EntryTypes
  <2>2. /\ workspaces[Top.frame] \in Workspace /\ Clean(workspaces[Top.frame], Active(control))
        /\ AnyBlind(control) => Objectless(workspaces[Top.frame])
    BY <2>1, SeenWorkspace
  <2> QED
    BY <1>2, <2>1, <2>2, EvaluateKeeps
<1>3. ASSUME Running("evaluation"), Evaluate(Top.frame, Top.copy, TRUE)
      PROVE  SoundNow'
  <2>1. /\ Top.frame \in Frames
        /\ Top.copy \in Workspace /\ Clean(Top.copy, Active(control))
        /\ AnyBlind(control) => Objectless(Top.copy)
        /\ \A i \in 1..Len(control) : Top.frame <= control[i].frame
    BY <1>3, TopFacts DEF SoundNow, EntryTypes
  <2> QED
    BY <1>3, <2>1, EvaluateKeeps
<1>4. ASSUME Running("evaluation"), NEW m \in OuterFrames(Top.frame), Evaluate(m, workspaces[m], FALSE)
      PROVE  SoundNow'
  <2>1. /\ m \in Frames /\ m < Top.frame /\ ~Hidden(control, m) /\ Top.frame \in Frames
        /\ \A i \in 1..Len(control) : Top.frame <= control[i].frame /\ control[i].frame \in Frames
    BY <1>4, TopFacts DEF SoundNow, EntryTypes
  <2>2. \A i \in 1..Len(control) : m <= control[i].frame
    BY <2>1 DEF Frames, Base, Function
  <2>3. /\ workspaces[m] \in Workspace /\ Clean(workspaces[m], Active(control))
        /\ AnyBlind(control) => Objectless(workspaces[m])
    BY <2>1, <2>2, SeenWorkspace
  <2> QED
    BY <1>4, <2>1, <2>2, <2>3, EvaluateKeeps
<1> QED
  BY <1>1, <1>2, <1>3, <1>4 DEF StartEvaluation
-----------------------------------------------------------------------------
(***************************************************************************)
(* Returning.                                                              *)
(***************************************************************************)

\* The stack without its last entry, the new last one with another copy if
\* that is written back.
Returned(c, d) ==
    /\ IsSeq(d) /\ Len(c) \in Nat \ {0} /\ Len(d) = Len(c) - 1
    /\ SameBelow(d, c, Len(d))
    /\ \A i \in 1..(Len(d) - 1) : d[i] = c[i]

LEMMA PoppedStack ==
  ASSUME SoundNow, control # <<>>, NEW d, d = Front(control)
  PROVE  Returned(control, d) /\ \A i \in 1..Len(d) : d[i] = control[i]
<1>1. /\ IsSeq(d) /\ Len(control) \in Nat \ {0} /\ Len(d) = Len(control) - 1
      /\ \A i \in 1..(Len(control) - 1) : d[i] = control[i]
  BY Popped, SessionFacts
<1>2. SameBelow(d, control, Len(d))
  BY <1>1, EntryAlike DEF SoundNow, Sound, SameBelow
<1> QED
  BY <1>1, <1>2 DEF Returned

LEMMA WrittenBackStack ==
  ASSUME SoundNow, Len(control) > 1, NEW copy,
         control[Len(control) - 1].kind # "delegated",
         NEW d, d = Append(Front(Front(control)), [control[Len(control) - 1] EXCEPT !.copy = copy])
  PROVE  Returned(control, d) /\ d[Len(d)].copy = copy
<1> DEFINE n == Len(control)
           b == Front(control)
           x == [control[n - 1] EXCEPT !.copy = copy]
<1>1. /\ IsSeq(control) /\ control # <<>> /\ n \in Nat \ {0} /\ n > 1
      /\ IsSeq(b) /\ Len(b) = n - 1 /\ \A i \in 1..(n - 1) : b[i] = control[i]
  <2>1. IsSeq(control)
    BY SessionFacts
  <2>2. control # <<>>
    OBVIOUS
  <2> QED
    BY <2>1, <2>2, Popped
<1>2. \A i \in 1..n : EntryTypes(control[i])
  BY DEF SoundNow, Sound
<1>3. n - 1 \in 1..n
  BY <1>1
<1>4. Alike(x, control[n - 1]) /\ x.copy = copy
  BY <1>2, <1>3, CopyChanges
<1> HIDE DEF n, b, x
<1>5. b # <<>>
  BY <1>1
<1>6. d = Append(Front(b), x)
  BY DEF b, x, n
<1> DEFINE r == Front(b)
<1>10. IsSeq(b) /\ IsSeq(r) /\ Len(r) = n - 2 /\ \A i \in 1..(n - 2) : r[i] = b[i]
  BY <1>1, <1>5, Popped
<1> HIDE DEF r
<1>13. d = Append(r, x)
  BY <1>6 DEF r
<1>14. Len(r) + 1 = n - 1 /\ n - 1 \in Nat
  BY <1>1, <1>10
<1>15. /\ IsSeq(Append(r, x)) /\ Len(Append(r, x)) = Len(r) + 1
       /\ Append(r, x)[Len(r) + 1] = x
       /\ \A i \in 1..Len(r) : Append(r, x)[i] = r[i]
  BY <1>10, Pushed
<1>7. /\ IsSeq(d) /\ Len(d) = n - 1 /\ d[n - 1] = x
      /\ \A i \in 1..(n - 2) : d[i] = b[i]
  BY <1>10, <1>13, <1>14, <1>15
<1>8. \A i \in 1..(n - 2) : d[i] = control[i] /\ i \in 1..n
  BY <1>1, <1>7
<1>9. SameBelow(d, control, n - 1)
  <2> SUFFICES ASSUME NEW i \in 1..(n - 1) PROVE Alike(d[i], control[i])
    BY DEF SameBelow
  <2>1. CASE i = n - 1
    BY <1>4, <1>7, <2>1
  <2>2. CASE i # n - 1
    <3>1. i \in 1..(n - 2)
      BY <1>1, <2>2
    <3> QED
      BY <1>2, <1>8, <3>1, EntryAlike
  <2> QED
    BY <2>1, <2>2
<1>11. n = Len(control) /\ Len(d) = n - 1 /\ Len(d) - 1 = n - 2
  BY <1>1, <1>7 DEF n
<1>12. d[Len(d)].copy = copy
  BY <1>4, <1>7
<1> QED
  BY <1>1, <1>7, <1>8, <1>9, <1>11, <1>12 DEF Returned

\* A blind evaluation is still there when the last entry has returned.
BlindRemains(d) == \E i \in 1..Len(d) : Blind(control, i)

LEMMA ReturnStep ==
  ASSUME SoundNow, NEW d, Returned(control, d),
         NEW w2, NEW g2, NEW p2, NEW v2, Typed(d, w2, g2, p2, v2),
         NEW A, A = ContextsBelow(control, Len(control)),
         NEW frame, frame = control[Len(control)].frame,
         FieldContexts(v2) \subseteq A, Clean(g2, A), Clean(p2, A),
         \A f \in Frames : ~Hidden(d, f) => Clean(w2[f], A),
         \A f \in Frames : f > frame => w2[f] = workspaces[f],
         Len(d) > 0 /\ d[Len(d)] # control[Len(d)] /\ d[Len(d)].kind # "delegated" =>
           /\ d[Len(d)].copy \in Workspace /\ Clean(d[Len(d)].copy, A)
           /\ BlindRemains(d) => Objectless(d[Len(d)].copy),
         BlindRemains(d) =>
           /\ v2 = field /\ Objectless(g2) /\ Objectless(p2)
           /\ \A f \in Frames : f <= frame /\ ~Hidden(d, f) => Objectless(w2[f])
  PROVE  Sound(d, w2, g2, p2, v2)
<1> DEFINE n == Len(d)
<1>1. /\ Len(control) = n + 1 /\ n \in Nat /\ n = Len(d) /\ n + 1 \in 1..Len(control)
      /\ SameBelow(d, control, n) /\ \A i \in 1..(n - 1) : d[i] = control[i]
  BY DEF Returned
<1> HIDE DEF n
<1>2. Remains(control, d, n)
  BY <1>1 DEF Remains
<1>3. A = ContextsBelow(control, n + 1) /\ frame = control[n + 1].frame
  BY <1>1
<1>4. \A i \in 1..(n + 1) : /\ EntryTypes(control[i]) /\ Order(control, i)
                            /\ Kept(control, workspaces, i)
                            /\ Unreached(control, workspaces, globals, persistents, field, i)
  BY <1>1 DEF SoundNow, Sound
<1>5. frame \in Frames /\ \A i \in 1..n : frame <= control[i].frame /\ control[i].frame \in Frames
  BY <1>1, <1>3, <1>4 DEF Order, EntryTypes
<1>6. \A f \in Frames : f > frame => (Hidden(d, f) <=> Hidden(control, f))
  <2>1. \A f \in Frames : f > frame => frame # f
    BY <1>5 DEF Frames, Base, Function
  <2>2. \A f : control[n + 1].frame # f => (Hidden(control, f) <=> Hidden(d, f))
    BY <1>1, HiddenAbove
  <2> QED
    BY <1>3, <2>1, <2>2
<1>7. CopiesClean(control, d, n)
  <2> SUFFICES ASSUME NEW i \in 1..n, d[i].kind # "delegated"
               PROVE  d[i].copy \in Workspace /\ Clean(d[i].copy, ContextsBelow(control, i + 1))
    BY DEF CopiesClean
  <2>1. CASE d[i] = control[i]
    BY <1>1, <1>4, <2>1 DEF EntryTypes, Kept
  <2>2. CASE d[i] # control[i]
    <3>1. i = n /\ n > 0
      BY <1>1, <2>2
    <3> QED
      BY <1>1, <1>3, <2>2, <3>1
  <2> QED
    BY <2>1, <2>2
<1>8. OuterKept(control, d, w2, n)
  <2> SUFFICES ASSUME NEW i \in 1..n, control[i].kind = "evaluation",
                      NEW f \in Frames, f > control[i].frame, ~Hidden(d, f)
               PROVE  Clean(w2[f], ContextsBelow(control, i))
    BY DEF OuterKept
  <2>1. f > frame
    BY <1>5 DEF Frames, Base, Function
  <2>2. Kept(control, workspaces, i)
    BY <1>1, <1>4
  <2> QED
    BY <1>6, <2>1, <2>2 DEF Kept
<1>9. StillBlind(control, d, w2, g2, p2, field, v2, n)
  <2> SUFFICES ASSUME NEW i \in 1..n, Blind(control, i)
               PROVE  /\ v2 = field
                      /\ Objectless(g2) /\ Objectless(p2)
                      /\ \A m \in Frames : m <= control[i].frame /\ ~Hidden(d, m) => Objectless(w2[m])
                      /\ \A k \in i..n : d[k].kind # "delegated" => Objectless(d[k].copy)
    BY DEF StillBlind
  <2>1. BlindRemains(d)
    BY <1>1 DEF BlindRemains
  <2>2. /\ \A m \in Frames : m <= control[i].frame /\ ~Hidden(control, m) => Objectless(workspaces[m])
        /\ \A k \in i..(n + 1) : control[k].kind # "delegated" => Objectless(control[k].copy)
    BY <1>1, <1>4 DEF Unreached
  <2>3. ASSUME NEW k \in i..n, d[k].kind # "delegated" PROVE Objectless(d[k].copy)
    <3>1. k \in 1..n /\ k \in i..(n + 1)
      BY <1>1
    <3>2. CASE d[k] = control[k]
      BY <2>2, <2>3, <3>1, <3>2
    <3>3. CASE d[k] # control[k]
      <4>1. k = n /\ n > 0
        BY <1>1, <3>1, <3>3
      <4> QED
        BY <1>1, <2>1, <2>3, <3>3, <4>1
    <3> QED
      BY <3>2, <3>3
  <2>4. ASSUME NEW m \in Frames, m <= control[i].frame, ~Hidden(d, m) PROVE Objectless(w2[m])
    <3>1. CASE m <= frame
      BY <2>1, <2>4, <3>1
    <3>2. CASE m > frame
      BY <1>6, <2>2, <2>4, <3>2
    <3> QED
      BY <1>5, <3>1, <3>2 DEF Frames, Base, Function
  <2> QED
    BY <2>1, <2>3, <2>4
<1>10. \A f \in Frames : ~Hidden(d, f) => Clean(w2[f], ContextsBelow(control, n + 1))
  BY <1>3
<1> QED
  BY <1>2, <1>3, <1>7, <1>8, <1>9, <1>10, StaysSound DEF SoundNow

\* The last entry stood on code of the same frame: its copy is seen again.
LEMMA HiddenUnder ==
  ASSUME SoundNow, NEW d, Returned(control, d),
         OnSame(control, Len(control), {"evaluation", "anonymous"})
  PROVE  Hidden(d, control[Len(control)].frame)
<1> DEFINE n == Len(d)
           frame == control[n + 1].frame
<1>1. /\ Len(control) = n + 1 /\ n \in Nat /\ n > 0 /\ n = Len(d)
      /\ control[n].kind \in {"evaluation", "anonymous"} /\ control[n].frame = frame
  BY DEF Returned, OnSame
<1>2. \A i \in 1..n : d[i].kind = control[i].kind /\ d[i].frame = control[i].frame
  BY <1>1 DEF Returned, SameBelow, Alike
<1> HIDE DEF n, frame
<1>3. CASE control[n].kind = "evaluation"
  BY <1>1, <1>2, <1>3 DEF Hidden, frame
<1>4. CASE control[n].kind = "anonymous"
  <2>1. OnSame(control, n, {"evaluation"})
    BY <1>1, <1>4 DEF SoundNow, Sound, Order
  <2>2. n - 1 \in 1..n /\ control[n - 1].kind = "evaluation" /\ control[n - 1].frame = frame
        /\ \A j \in 1..n : j > n - 1 => j = n
    BY <1>1, <2>1 DEF OnSame
  <2>3. d[n - 1].kind = "evaluation" /\ d[n - 1].frame = frame /\ d[n].kind = "anonymous"
    BY <1>1, <1>2, <1>4, <2>2
  <2>4. Hidden(d, frame)
    BY <1>1, <2>2, <2>3 DEF Hidden
  <2> QED
    BY <1>1, <2>4 DEF frame
<1> QED
  BY <1>1, <1>3, <1>4

\* When an entry that is no evaluation returns, no context ends.
LEMMA NoContextEnds ==
  ASSUME SoundNow, Len(control) \in Nat \ {0}, control[Len(control)].kind # "evaluation"
  PROVE  ContextsBelow(control, Len(control)) = Active(control)
BY ContextsNext DEF Active

LEMMA BlindStays ==
  ASSUME SoundNow, NEW d, Returned(control, d), BlindRemains(d)
  PROVE  /\ AnyBlind(control)
         /\ \A m \in Frames : m <= control[Len(control)].frame /\ ~Hidden(control, m)
                              => Objectless(workspaces[m])
<1>1. PICK i \in 1..Len(d) : Blind(control, i)
  BY DEF BlindRemains
<1>2. i \in 1..Len(control) /\ Len(control) \in 1..Len(control)
  BY DEF Returned
<1>3. /\ control[Len(control)].frame \in Frames /\ control[i].frame \in Frames
      /\ control[Len(control)].frame <= control[i].frame
  BY <1>2 DEF SoundNow, Sound, EntryTypes, Order
<1>4. \A m \in Frames : m <= control[Len(control)].frame => m <= control[i].frame
  BY <1>3 DEF Frames, Base, Function
<1> QED
  BY <1>1, <1>2, <1>4, BlindWorkspaces

LEMMA AnonymousReturnsKeeps ==
  ASSUME SoundNow, AnonymousReturns
  PROVE  SoundNow'
<1>1. /\ Running("anonymous") /\ control' = Front(control)
      /\ UNCHANGED <<workspaces, globals, persistents, field>>
  BY DEF AnonymousReturns
<1>2. /\ control # <<>> /\ Len(control) \in Nat \ {0} /\ Top = control[Len(control)]
      /\ Top.kind = "anonymous"
  BY <1>1, TopFacts DEF SoundNow
<1>3. Returned(control, control') /\ \A i \in 1..Len(control') : control'[i] = control[i]
  BY <1>1, <1>2, PoppedStack
<1>4. \A f : Hidden(control', f) <=> Hidden(control, f)
  BY <1>2, <1>3, HiddenAbove DEF Returned
<1>5. ContextsBelow(control, Len(control)) = Active(control)
  BY <1>2, NoContextEnds
<1>6. Typed(control', workspaces, globals, persistents, field)
  BY <1>3, SessionFacts DEF Typed, Returned
<1>7. Len(control') > 0 => control'[Len(control')] = control[Len(control')]
  BY <1>3 DEF Returned
<1>8. /\ FieldContexts(field) \subseteq Active(control)
      /\ Clean(globals, Active(control)) /\ Clean(persistents, Active(control))
      /\ \A f \in Frames : ~Hidden(control', f) => Clean(workspaces[f], Active(control))
  BY <1>4, SessionFacts
<1>9. BlindRemains(control') =>
        /\ Objectless(globals) /\ Objectless(persistents)
        /\ \A f \in Frames : f <= control[Len(control)].frame /\ ~Hidden(control', f)
                             => Objectless(workspaces[f])
  BY <1>3, <1>4, BlindStays, SessionFacts
<1>10. Sound(control', workspaces, globals, persistents, field)
  BY <1>3, <1>5, <1>6, <1>7, <1>8, <1>9, ReturnStep
<1> QED
  BY <1>1, <1>10 DEF SoundNow

LEMMA DelegateReturnsKeeps ==
  ASSUME SoundNow, DelegateReturns
  PROVE  SoundNow'
<1> DEFINE copy == workspaces[Top.frame]
<1>1. /\ Running("delegated")
      /\ control' = Append(Front(Front(control)), [control[Len(control) - 1] EXCEPT !.copy = copy])
      /\ UNCHANGED <<workspaces, globals, persistents, field>>
  BY DEF DelegateReturns
<1>2. /\ control # <<>> /\ Len(control) \in Nat \ {0} /\ Top = control[Len(control)]
      /\ Top.kind = "delegated" /\ Top.frame \in Frames /\ ~Hidden(control, Top.frame)
      /\ Order(control, Len(control))
  BY <1>1, TopFacts DEF SoundNow, EntryTypes
<1>3. OnSame(control, Len(control), {"evaluation", "anonymous"})
  BY <1>2 DEF Order
<1>4. Len(control) > 1 /\ control[Len(control) - 1].kind # "delegated"
  BY <1>3 DEF OnSame
<1> HIDE DEF copy
<1>5. Returned(control, control') /\ control'[Len(control')].copy = copy
  BY <1>1, <1>4, WrittenBackStack
<1>6. Hidden(control', Top.frame)
  BY <1>2, <1>3, <1>5, HiddenUnder
<1>7. \A f : f # Top.frame => (Hidden(control', f) <=> Hidden(control, f))
  BY <1>2, <1>5, HiddenAbove DEF Returned
<1>8. ContextsBelow(control, Len(control)) = Active(control)
  BY <1>2, NoContextEnds
<1>9. Typed(control', workspaces, globals, persistents, field)
  BY <1>5, SessionFacts DEF Typed, Returned
<1>10. /\ FieldContexts(field) \subseteq Active(control)
       /\ Clean(globals, Active(control)) /\ Clean(persistents, Active(control))
       /\ \A f \in Frames : ~Hidden(control', f) => Clean(workspaces[f], Active(control))
  BY <1>6, <1>7, SessionFacts
<1>11. BlindRemains(control') =>
         /\ Objectless(globals) /\ Objectless(persistents)
         /\ \A f \in Frames : f <= control[Len(control)].frame /\ ~Hidden(control', f)
                              => Objectless(workspaces[f])
  BY <1>5, <1>6, <1>7, BlindStays, SessionFacts
<1>12. /\ copy \in Workspace /\ Clean(copy, Active(control))
       /\ BlindRemains(control') => Objectless(copy)
  <2>1. Top.frame <= Top.frame
    BY <1>2 DEF Frames, Base, Function
  <2> QED
    BY <1>2, <1>5, <2>1, BlindStays, SessionFacts DEF copy, Typed
<1>13. Sound(control', workspaces, globals, persistents, field)
  BY <1>5, <1>8, <1>9, <1>10, <1>11, <1>12, ReturnStep
<1> QED
  BY <1>1, <1>13 DEF SoundNow

\* What is restored holds no handle of the evaluation that ends.
LEMMA Restoring ==
  ASSUME field \in Value, NEW N, NEW current \in [N -> Value], NEW original \in [N -> Value],
         Clean(original, Top.allowed)
  PROVE  LET r == RestoreUnsafe(current, original)
         IN /\ r \in [N -> Value]
            /\ Clean(r, Top.allowed)
            /\ Objectless(current) /\ Objectless(original) => Objectless(r)
<1> DEFINE r == RestoreUnsafe(current, original)
<1>1. /\ DOMAIN r = N
      /\ \A name \in N : \/ r[name] = original[name]
                         \/ r[name] = current[name] /\ Contexts(current[name]) \subseteq Top.allowed
  BY DEF RestoreUnsafe, UnsafeHandle
<1>2. r = [name \in N |-> r[name]]
  BY DEF RestoreUnsafe
<1> HIDE DEF r
<1>3. \A name \in N : r[name] \in Value
  BY <1>1
<1>4. r \in [N -> Value]
  BY <1>2, <1>3
<1>5. ASSUME NEW name \in N, r[name].kind = "handle" PROVE r[name].context \in Top.allowed
  <2>1. CASE r[name] = original[name]
    BY <1>5, <2>1 DEF Clean
  <2>2. CASE r[name] = current[name] /\ Contexts(current[name]) \subseteq Top.allowed
    BY <1>5, <2>2, ContextsAre
  <2> QED
    BY <1>1, <2>1, <2>2
<1>6. Clean(r, Top.allowed)
  BY <1>1, <1>5 DEF Clean
<1>7. Objectless(current) /\ Objectless(original) => Objectless(r)
  BY <1>1 DEF Objectless
<1> QED
  BY <1>4, <1>6, <1>7 DEF r

LEMMA FinishEvaluationKeeps ==
  ASSUME SoundNow, FinishEvaluation
  PROVE  SoundNow'
<1> DEFINE n == Len(control)
           A == ContextsBelow(control, n)
<1>1. Running("evaluation")
  BY DEF FinishEvaluation
<1>2. /\ control # <<>> /\ n \in Nat \ {0} /\ Top = control[n] /\ Top.kind = "evaluation"
      /\ EntryTypes(Top) /\ Order(control, n)
      /\ Kept(control, workspaces, n)
      /\ Unreached(control, workspaces, globals, persistents, field, n)
      /\ Top.frame \in Frames
      /\ Top.copy \in Workspace /\ (AnyBlind(control) => Objectless(Top.copy))
      /\ \A m \in OuterFrames(Top.frame) : m \in Frames /\ m < Top.frame /\ ~Hidden(control, m)
  BY <1>1, TopFacts DEF SoundNow, EntryTypes
<1> DEFINE updated == IF Top.output = "none" THEN Top.copy ELSE [Top.copy EXCEPT ![Top.output] = None]
           ancestors == [m \in Frames |-> IF m \in OuterFrames(Top.frame)
                                          THEN RestoreUnsafe(workspaces[m], Top.borrowed[m])
                                          ELSE workspaces[m]]
           restored == RestoreUnsafe(updated, Top.original)
<1>3. PICK output :
        LET held == HeldForEvaluation(updated, Top.frame) \cup {output}
            unsafe == \/ \E value \in held : UnsafeHandle(value, Top.allowed)
                      \/ Top.snapshot /\ UnsafeHandle(Object, Top.allowed)
        IN /\ globals' = RestoreUnsafe(globals, Top.globals)
           /\ persistents' = RestoreUnsafe(persistents, Top.persistents)
           /\ field' = IF unsafe /\ Top.snapshot THEN Top.field ELSE field
           /\ IF Top.below
              THEN /\ control' = Append(Front(Front(control)),
                                   [control[Len(control) - 1] EXCEPT !.copy = restored])
                   /\ workspaces' = ancestors
              ELSE /\ control' = Front(control)
                   /\ workspaces' = [ancestors EXCEPT ![Top.frame] = restored]
  BY DEF FinishEvaluation
<1>4. GivesBack(Top, A)
  BY <1>2 DEF Kept
<1>5. /\ Typed(control, workspaces, globals, persistents, field)
      /\ AnyBlind(control) => Objectless(globals) /\ Objectless(persistents)
  BY SessionFacts
<1>6. updated \in Workspace /\ (AnyBlind(control) => Objectless(updated))
  BY <1>2, KindsDiffer DEF Workspace, Objectless
<1>7. /\ globals' \in Session /\ Clean(globals', Top.allowed)
      /\ Objectless(globals) /\ Objectless(Top.globals) => Objectless(globals')
  BY <1>2, <1>3, <1>4, <1>5, Restoring DEF Session, Typed, EntryTypes, GivesBack
<1>8. /\ persistents' \in Session /\ Clean(persistents', Top.allowed)
      /\ Objectless(persistents) /\ Objectless(Top.persistents) => Objectless(persistents')
  BY <1>2, <1>3, <1>4, <1>5, Restoring DEF Session, Typed, EntryTypes, GivesBack
<1> HIDE DEF updated
<1>9. /\ restored \in Workspace /\ Clean(restored, Top.allowed)
      /\ Objectless(updated) /\ Objectless(Top.original) => Objectless(restored)
  BY <1>2, <1>4, <1>5, <1>6, Restoring DEF Workspace, Typed, EntryTypes, GivesBack
<1>10. ASSUME NEW m \in OuterFrames(Top.frame)
       PROVE  /\ ancestors[m] \in Workspace /\ Clean(ancestors[m], Top.allowed)
              /\ Objectless(workspaces[m]) /\ Objectless(Top.borrowed[m]) => Objectless(ancestors[m])
  <2> DEFINE r == RestoreUnsafe(workspaces[m], Top.borrowed[m])
  <2>1. m \in Frames
    BY <1>2
  <2>2. workspaces[m] \in [Names -> Value] /\ Top.borrowed[m] \in [Names -> Value]
        /\ Clean(Top.borrowed[m], Top.allowed) /\ field \in Value
    BY <1>2, <1>4, <1>5, <2>1 DEF Workspace, Typed, EntryTypes, GivesBack
  <2>3. /\ r \in [Names -> Value] /\ Clean(r, Top.allowed)
        /\ Objectless(workspaces[m]) /\ Objectless(Top.borrowed[m]) => Objectless(r)
    BY <2>2, Restoring
  <2>4. ancestors[m] = r
    BY <2>1
  <2> HIDE DEF r, ancestors
  <2> QED
    BY <2>3, <2>4 DEF Workspace
<1>11. \A m \in Frames : m \notin OuterFrames(Top.frame) => ancestors[m] = workspaces[m]
  OBVIOUS
<1>12. ancestors \in [Frames -> Workspace]
  <2>1. \A m \in Frames : ancestors[m] \in Workspace
    BY <1>5, <1>10, <1>11 DEF Typed
  <2>2. ancestors = [m \in Frames |-> ancestors[m]]
    OBVIOUS
  <2> HIDE DEF ancestors
  <2> QED
    BY <2>1, <2>2
<1> HIDE DEF restored, ancestors
<1>13. Top.allowed \subseteq A
  BY <1>4 DEF GivesBack
<1>14. field' \in Value \ {Object} /\ FieldContexts(field') \subseteq A
       /\ (~Top.snapshot => field' = field)
  <2>1. CASE Top.snapshot
    <3>1. field' = Top.field \/ (field' = field /\ ~UnsafeHandle(Object, Top.allowed))
      BY <1>3, <2>1
    <3>2. CASE field' = Top.field
      BY <1>2, <1>4, <2>1, <3>2 DEF EntryTypes, GivesBack
    <3>3. CASE field' = field /\ ~UnsafeHandle(Object, Top.allowed)
      <4>1. Contexts(Object) = FieldContexts(field)
        BY <1>5, KindsDiffer, ContextsAre DEF Typed
      <4> QED
        BY <1>5, <1>13, <2>1, <3>3, <4>1 DEF UnsafeHandle, Typed
    <3> QED
      BY <3>1, <3>2, <3>3
  <2>2. CASE ~Top.snapshot
    <3>1. field' = field
      BY <1>3, <2>2
    <3>2. field = Top.field
      BY <1>2, <2>2 DEF Unreached, Blind
    <3> QED
      BY <1>2, <1>4, <2>2, <3>1, <3>2 DEF EntryTypes, GivesBack
  <2> QED
    BY <2>1, <2>2
<1>15. Clean(globals', A) /\ Clean(persistents', A) /\ Clean(restored, A)
       /\ \A m \in OuterFrames(Top.frame) : Clean(ancestors[m], A)
  BY <1>7, <1>8, <1>9, <1>10, <1>13, CleanGrows
<1>16. ASSUME NEW d, Returned(control, d), BlindRemains(d)
       PROVE  /\ field' = field /\ Objectless(globals') /\ Objectless(persistents')
              /\ Objectless(restored)
              /\ \A m \in OuterFrames(Top.frame) : Objectless(ancestors[m])
  <2>1. AnyBlind(control) /\ \A m \in OuterFrames(Top.frame) : Objectless(workspaces[m])
    <3>1. \A m \in OuterFrames(Top.frame) : m \in Frames /\ m <= Top.frame /\ ~Hidden(control, m)
      BY <1>2 DEF Frames, Base, Function
    <3> QED
      BY <1>2, <1>16, <3>1, BlindStays
  <2>2. SavedObjectless(Top)
    <3>1. PICK i \in 1..Len(d) : Blind(control, i)
      BY <1>16 DEF BlindRemains
    <3>2. i \in 1..n /\ n \in i..n
      BY <1>2, <1>16 DEF Returned
    <3>3. Unreached(control, workspaces, globals, persistents, field, i)
      BY <3>2 DEF SoundNow, Sound
    <3> QED
      BY <1>2, <3>1, <3>2, <3>3 DEF Unreached
  <2> QED
    BY <1>5, <1>6, <1>7, <1>8, <1>9, <1>10, <1>14, <2>1, <2>2 DEF SavedObjectless
<1>17. ASSUME NEW f \in Frames, f > Top.frame, ~Hidden(control, f)
       PROVE  Clean(workspaces[f], A)
  BY <1>2, <1>17 DEF Kept
<1>18. \A f \in Frames : f \in OuterFrames(Top.frame) \/ f = Top.frame \/ f > Top.frame
  BY <1>2 DEF OuterFrames, Frames, Base, Function
<1>19. \A f \in Frames : f > Top.frame => f # Top.frame /\ f \notin OuterFrames(Top.frame)
  BY <1>2 DEF OuterFrames, Frames, Base, Function
<1>20. CASE Top.below
  <2>1. /\ control' = Append(Front(Front(control)), [control[n - 1] EXCEPT !.copy = restored])
        /\ workspaces' = ancestors
    BY <1>3, <1>20
  <2>2. OnSame(control, n, {"evaluation"})
    BY <1>2, <1>20 DEF Order
  <2>3. n > 1 /\ control[n - 1].kind # "delegated" /\ OnSame(control, n, {"evaluation", "anonymous"})
    BY <2>2 DEF OnSame
  <2>4. Returned(control, control') /\ control'[Len(control')].copy = restored
    BY <2>1, <2>3, WrittenBackStack
  <2>5. Hidden(control', Top.frame)
    BY <1>2, <2>3, <2>4, HiddenUnder
  <2>6. \A f : f # Top.frame => (Hidden(control', f) <=> Hidden(control, f))
    BY <1>2, <2>4, HiddenAbove DEF Returned
  <2>7. Typed(control', workspaces', globals', persistents', field')
    BY <1>7, <1>8, <1>12, <1>14, <2>1, <2>4 DEF Typed, Returned
  <2>8. \A f \in Frames : ~Hidden(control', f) => Clean(workspaces'[f], A)
    BY <1>11, <1>15, <1>17, <1>18, <1>19, <2>1, <2>5, <2>6
  <2>9. \A f \in Frames : f > Top.frame => workspaces'[f] = workspaces[f]
    BY <1>11, <1>19, <2>1
  <2>10. BlindRemains(control') =>
           /\ field' = field /\ Objectless(globals') /\ Objectless(persistents')
           /\ \A f \in Frames : f <= Top.frame /\ ~Hidden(control', f) => Objectless(workspaces'[f])
    <3>1. \A f \in Frames : f <= Top.frame /\ ~Hidden(control', f) => f \in OuterFrames(Top.frame)
      <4> SUFFICES ASSUME NEW f \in Frames, f <= Top.frame, ~Hidden(control', f)
                   PROVE  f \in OuterFrames(Top.frame)
        OBVIOUS
      <4>1. f # Top.frame
        BY <2>5
      <4> QED
        BY <1>2, <4>1 DEF OuterFrames, Frames, Base, Function
    <3> QED
      BY <1>16, <2>1, <2>4, <3>1
  <2>11. /\ control'[Len(control')].copy \in Workspace /\ Clean(control'[Len(control')].copy, A)
         /\ BlindRemains(control') => Objectless(control'[Len(control')].copy)
    BY <1>9, <1>15, <1>16, <2>4
  <2>12. Sound(control', workspaces', globals', persistents', field')
    BY <1>2, <1>14, <1>15, <2>4, <2>7, <2>8, <2>9, <2>10, <2>11, ReturnStep
  <2> QED
    BY <2>12 DEF SoundNow
<1>21. CASE ~Top.below
  <2>1. control' = Front(control) /\ workspaces' = [ancestors EXCEPT ![Top.frame] = restored]
    BY <1>3, <1>21
  <2>2. Returned(control, control') /\ \A i \in 1..Len(control') : control'[i] = control[i]
    BY <1>2, <2>1, PoppedStack
  <2>3. \A f : f # Top.frame => (Hidden(control', f) <=> Hidden(control, f))
    BY <1>2, <2>2, HiddenAbove DEF Returned
  <2>4. /\ workspaces' \in [Frames -> Workspace] /\ workspaces'[Top.frame] = restored
        /\ \A f \in Frames : f # Top.frame => workspaces'[f] = ancestors[f]
    BY <1>2, <1>9, <1>12, <2>1
  <2>5. Typed(control', workspaces', globals', persistents', field')
    BY <1>7, <1>8, <1>14, <2>2, <2>4 DEF Typed, Returned
  <2>6. \A f \in Frames : ~Hidden(control', f) => Clean(workspaces'[f], A)
    <3> SUFFICES ASSUME NEW f \in Frames, ~Hidden(control', f) PROVE Clean(workspaces'[f], A)
      OBVIOUS
    <3>1. CASE f = Top.frame
      BY <1>15, <2>4, <3>1
    <3>2. CASE f > Top.frame
      BY <1>11, <1>17, <1>19, <2>3, <2>4, <3>2
    <3>3. CASE f \in OuterFrames(Top.frame) /\ f # Top.frame
      BY <1>15, <2>4, <3>3
    <3> QED
      BY <1>18, <3>1, <3>2, <3>3
  <2>7. \A f \in Frames : f > Top.frame => workspaces'[f] = workspaces[f]
    BY <1>11, <1>19, <2>4
  <2>8. BlindRemains(control') =>
          /\ field' = field /\ Objectless(globals') /\ Objectless(persistents')
          /\ \A f \in Frames : f <= Top.frame /\ ~Hidden(control', f) => Objectless(workspaces'[f])
    <3>1. \A f \in Frames : f <= Top.frame => f \in OuterFrames(Top.frame) \/ f = Top.frame
      BY <1>2 DEF OuterFrames, Frames, Base, Function
    <3> QED
      BY <1>16, <2>2, <2>4, <3>1
  <2>9. Len(control') > 0 => control'[Len(control')] = control[Len(control')]
    BY <2>2 DEF Returned
  <2>10. Sound(control', workspaces', globals', persistents', field')
    BY <1>2, <1>14, <1>15, <2>2, <2>5, <2>6, <2>7, <2>8, <2>9, ReturnStep
  <2> QED
    BY <2>10 DEF SoundNow
<1> QED
  BY <1>20, <1>21
-----------------------------------------------------------------------------
(***************************************************************************)
(* Every state.                                                            *)
(***************************************************************************)
LEMMA InitiallySound == EvaluationInit => EvaluationInv
<1> SUFFICES ASSUME EvaluationInit PROVE EvaluationInv
  OBVIOUS
<1>1. control = <<>> /\ field = Plain /\ evaluations = 0
      /\ persistents = [name \in WrittenBack |-> None]
  BY DEF EvaluationInit
<1>2. PICK x \in {None, Object, Handle(ParentContext)}, g \in {None, Object}, o \in {None, Plain} :
        /\ workspaces = [frame \in Frames |->
             [name \in Names |-> CASE name = "x" /\ frame = Function -> x
                                   [] name = "y" /\ frame = Base -> Plain
                                   [] name = "output_0" -> o
                                   [] OTHER -> None]]
        /\ globals = [name \in WrittenBack |-> IF name = "y" THEN g ELSE None]
  BY DEF EvaluationInit
<1>3. IsSeq(control) /\ Len(control) = 0
  BY <1>1 DEF IsSeq
<1>4. Active(control) = {ParentContext} /\ ParentContext \in Nat
  BY <1>3 DEF Active, ContextsBelow, ParentContext
<1> DEFINE ok(value) == value \in Value /\ (value.kind = "handle" => value.context \in {ParentContext})
<1>5. ok(None) /\ ok(Plain) /\ ok(Object) /\ ok(Handle(ParentContext))
  BY <1>4, KindsDiffer
<1>6. ok(x) /\ ok(g) /\ ok(o)
  BY <1>5
<1> HIDE DEF ok
<1>7. \A frame \in Frames, name \in Names : ok(workspaces[frame][name])
  BY <1>2, <1>5, <1>6
<1>8. \A frame \in Frames : workspaces[frame] = [name \in Names |-> workspaces[frame][name]]
  BY <1>2
<1>9. \A frame \in Frames : workspaces[frame] \in Workspace /\ Clean(workspaces[frame], {ParentContext})
  BY <1>7, <1>8 DEF Workspace, Clean, ok
<1>10. workspaces \in [Frames -> Workspace]
  BY <1>2, <1>9
<1>11. /\ globals \in Session /\ Clean(globals, {ParentContext})
       /\ persistents \in Session /\ Clean(persistents, {ParentContext})
  BY <1>1, <1>2, <1>5, <1>6 DEF Session, Clean, ok
<1>12. field \in Value \ {Object} /\ FieldContexts(field) = {}
  BY <1>1, KindsDiffer DEF FieldContexts
<1>13. Typed(control, workspaces, globals, persistents, field)
  BY <1>3, <1>10, <1>11, <1>12 DEF Typed
<1>14. SessionClean(control, workspaces, globals, persistents, field)
  BY <1>4, <1>9, <1>11, <1>12 DEF SessionClean
<1>15. \A i \in 1..Len(control) : FALSE
  BY <1>3
<1>16. Sound(control, workspaces, globals, persistents, field)
  BY <1>13, <1>14, <1>15 DEF Sound
<1> QED
  BY <1>1, <1>16 DEF EvaluationInv

LEMMA StepKeeps == EvaluationInv /\ [EvaluationNext]_evaluationVars => EvaluationInv'
<1> SUFFICES ASSUME EvaluationInv, [EvaluationNext]_evaluationVars PROVE EvaluationInv'
  OBVIOUS
<1>1. SoundNow /\ evaluations \in Nat
  BY DEF EvaluationInv, SoundNow
<1>2. CASE StartEvaluation
  <2>1. evaluations' \in Nat
    BY <1>1, <1>2 DEF StartEvaluation, Evaluate
  <2> QED
    BY <1>1, <1>2, <2>1, StartEvaluationKeeps DEF EvaluationInv, SoundNow
<1>3. CASE UNCHANGED evaluations /\ SoundNow'
  BY <1>1, <1>3 DEF EvaluationInv, SoundNow
<1>4. CASE StoreVariable
  BY <1>1, <1>3, <1>4, StoreVariableKeeps DEF StoreVariable
<1>5. CASE AssignIn
  BY <1>1, <1>3, <1>5, AssignInKeeps DEF AssignIn
<1>6. CASE StoreField
  BY <1>1, <1>3, <1>6, StoreFieldKeeps DEF StoreField
<1>7. CASE Declare
  BY <1>1, <1>3, <1>7, DeclareKeeps DEF Declare
<1>8. CASE CallAnonymous
  BY <1>1, <1>3, <1>8, CallAnonymousKeeps DEF CallAnonymous
<1>9. CASE Delegate
  BY <1>1, <1>3, <1>9, DelegateKeeps DEF Delegate
<1>10. CASE DelegatedStore
  BY <1>1, <1>3, <1>10, DelegatedStoreKeeps DEF DelegatedStore
<1>11. CASE DelegateReturns
  BY <1>1, <1>3, <1>11, DelegateReturnsKeeps DEF DelegateReturns
<1>12. CASE AnonymousReturns
  BY <1>1, <1>3, <1>12, AnonymousReturnsKeeps DEF AnonymousReturns
<1>13. CASE FinishEvaluation
  BY <1>1, <1>3, <1>13, FinishEvaluationKeeps DEF FinishEvaluation
<1>14. CASE UNCHANGED evaluationVars
  BY <1>1, <1>3, <1>14 DEF evaluationVars, SoundNow
<1> QED
  BY <1>2, <1>4, <1>5, <1>6, <1>7, <1>8, <1>9, <1>10, <1>11, <1>12, <1>13, <1>14 DEF EvaluationNext

LEMMA GreatestOf ==
  ASSUME NEW n \in Nat, NEW S \in SUBSET (1..n), S # {}
  PROVE  \E x \in S : \A y \in S : y <= x
<1> DEFINE R == {r \in Nat : \E x \in S : r = n - x}
<1>1. R \subseteq Nat /\ R # {}
  <2>1. PICK x \in S : TRUE
    OBVIOUS
  <2>2. n - x \in Nat
    BY <2>1
  <2> QED
    BY <2>1, <2>2
<1>2. IsWellFoundedOn(OpToRel(<, Nat), Nat)
  BY NatLessThanWellFounded, Zenon
<1>3. PICK r \in R : \A t \in R : ~(<<t, r>> \in OpToRel(<, Nat))
  <2> DEFINE rel == OpToRel(<, Nat)
  <2> HIDE DEF rel, R
  <2>1. IsWellFoundedOn(rel, Nat)
    BY <1>2, Zenon DEF rel
  <2>2. \E r \in R : \A t \in R : ~(<<t, r>> \in rel)
    BY <1>1, <2>1, WFMin
  <2> QED
    BY <2>2, Zenon DEF rel
<1>4. PICK x \in S : r = n - x
  BY <1>3, Zenon
<1>5. \A y \in S : y <= x
  <2> SUFFICES ASSUME NEW y \in S, x < y
               PROVE  FALSE
    BY <1>4
  <2>1. n - y \in R
    OBVIOUS
  <2>2. n - y < r
    BY <1>4
  <2>3. <<n - y, r>> \in OpToRel(<, Nat)
    BY <1>1, <1>3, <2>1, <2>2, Zenon DEF OpToRel
  <2> QED
    BY <1>3, <2>1, <2>3, Zenon
<1> QED
  BY <1>4, <1>5

\* What code of a frame sees is a workspace or the copy of an evaluation.
LEMMA VisibleIs ==
  ASSUME SoundNow, NEW frame \in Frames
  PROVE  \/ ~Hidden(control, frame) /\ Visible(frame) = workspaces[frame]
         \/ \E i \in 1..Len(control) :
              /\ control[i].kind = "evaluation" /\ control[i].frame = frame
              /\ Visible(frame) = control[i].copy
<1> DEFINE n == Len(control)
           of == {i \in DOMAIN control : control[i].frame = frame /\ control[i].kind # "anonymous"}
           last == CHOOSE i \in of : \A j \in of : j <= i
<1>1. n \in Nat /\ DOMAIN control = 1..n
  BY Pushed, SessionFacts
<1>2. CASE of = {}
  <2>1. \A i \in 1..n : control[i].frame = frame => control[i].kind # "evaluation"
    BY <1>1, <1>2
  <2>2. ~Hidden(control, frame)
    BY <2>1 DEF Hidden
  <2> QED
    BY <1>2, <2>2 DEF Visible
<1>3. CASE of # {}
  <2>1. of \in SUBSET (1..n)
    BY <1>1
  <2>2. Visible(frame) = IF control[last].kind = "evaluation" THEN control[last].copy ELSE workspaces[frame]
    BY <1>3 DEF Visible
  <2>3. \A i \in of : control[i].frame = frame /\ control[i].kind # "anonymous"
    OBVIOUS
  <2>4. \A i \in 1..n : control[i].frame = frame /\ control[i].kind # "anonymous" => i \in of
    BY <1>1
  <2> HIDE DEF of
  <2>5. last \in of /\ \A j \in of : j <= last
    <3>1. \E i \in of : \A j \in of : j <= i
      BY <1>1, <1>3, <2>1, GreatestOf
    <3> QED
      BY <3>1
  <2> HIDE DEF last
  <2>6. last \in 1..n /\ control[last].frame = frame /\ control[last].kind # "anonymous"
    BY <2>1, <2>3, <2>5
  <2>7. CASE control[last].kind = "evaluation"
    BY <2>2, <2>6, <2>7
  <2>8. CASE control[last].kind # "evaluation"
    <3>1. control[last].kind = "delegated"
      BY <2>6, <2>8 DEF SoundNow, Sound, EntryTypes
    <3>2. \A i \in 1..n : control[i].frame = frame /\ control[i].kind = "evaluation" => i < last
      <4> SUFFICES ASSUME NEW i \in 1..n, control[i].frame = frame, control[i].kind = "evaluation"
                   PROVE  i < last
        OBVIOUS
      <4>1. i \in of /\ i # last
        BY <2>4, <2>8
      <4> QED
        BY <1>1, <2>5, <2>6, <4>1
    <3>3. ~Hidden(control, frame)
      BY <2>6, <3>1, <3>2 DEF Hidden
    <3> QED
      BY <2>2, <2>8, <3>3
  <2> QED
    BY <2>7, <2>8
<1> QED
  BY <1>2, <1>3

\* In every reachable state the control stack nests, values hold handles of the
\* parent module and of evaluations that still run, each evaluation can give
\* back what was there before it, and one that did not see the shared object
\* before cannot reach it.
THEOREM EvaluationInvariance == EvaluationSpec => []EvaluationInv
BY InitiallySound, StepKeeps, PTL DEF EvaluationSpec

\* Whatever evaluated code stores, declares, delegates or fails to restore: no
\* handle of a finished evaluation's module is left in a frame, in session
\* storage or in the shared object (collectSharedFieldSnapshots,
\* restoreUnsafeSessionValues, restoreUnsafeWorkspaceValues).
THEOREM HandlesStay == EvaluationSpec => []TemporaryHandlesStay
<1>1. EvaluationInv => TemporaryHandlesStay
  <2> SUFFICES ASSUME EvaluationInv PROVE TemporaryHandlesStay
    OBVIOUS
  <2> DEFINE all == (UNION {Values(Visible(frame)) : frame \in Frames})
                      \cup Values(globals) \cup Values(persistents)
             S == Active(control)
  <2>1. SoundNow
    BY DEF EvaluationInv, SoundNow
  <2>2. ActiveContexts = S /\ field \in Value /\ FieldContexts(field) \subseteq S
    BY <2>1, SessionFacts, ActiveAre DEF Typed
  <2> HIDE DEF S
  <2>3. ASSUME NEW frame \in Frames
        PROVE  Visible(frame) \in Workspace /\ Clean(Visible(frame), S)
    <3>1. CASE ~Hidden(control, frame) /\ Visible(frame) = workspaces[frame]
      BY <2>1, <3>1, SessionFacts DEF Typed, S
    <3>2. ASSUME NEW i \in 1..Len(control), control[i].kind = "evaluation",
                 Visible(frame) = control[i].copy
          PROVE  Visible(frame) \in Workspace /\ Clean(Visible(frame), S)
      <4>1. EntryTypes(control[i]) /\ Kept(control, workspaces, i)
        BY <2>1 DEF SoundNow, Sound
      <4>2. ContextsBelow(control, i + 1) \subseteq S
        <5>1. Len(control) \in Nat
          BY <2>1, Pushed, SessionFacts
        <5> QED
          BY <5>1, ContextsGrow DEF S, Active
      <4> QED
        BY <3>2, <4>1, <4>2, CleanGrows DEF Kept, EntryTypes
    <3> QED
      BY <2>1, <3>1, <3>2, VisibleIs
  <2>4. ASSUME NEW f, f \in Workspace \/ f \in Session, Clean(f, S), NEW value \in Values(f)
        PROVE  Contexts(value) \subseteq S
    <3>1. value \in Value /\ (value.kind = "handle" => value.context \in S)
      BY <2>4 DEF Values, Workspace, Session, Clean
    <3> QED
      BY <2>2, <3>1, ContextsAre
  <2>5. globals \in Session /\ Clean(globals, S) /\ persistents \in Session /\ Clean(persistents, S)
    BY <2>1, SessionFacts DEF Typed, S
  <2>6. \A value \in all : Contexts(value) \subseteq S
    BY <2>3, <2>4, <2>5
  <2> HIDE DEF all
  <2>7. AllContexts(all) \subseteq S
    BY <2>6 DEF AllContexts
  <2> QED
    BY <2>2, <2>7 DEF TemporaryHandlesStay, all
<1> QED
  BY <1>1, EvaluationInvariance, PTL
-----------------------------------------------------------------------------
(***************************************************************************)
(* What frames see across calls, while anonymous functions of evaluated    *)
(* code do not call back.                                                  *)
(***************************************************************************)
\* A call back runs on the evaluation that made it, and an evaluation that is
\* not given its caller's copy has a workspace no code of the stack hides.
Entered(c, i) ==
    /\ c[i].kind = "delegated" => OnSame(c, i, {"evaluation"})
    /\ c[i].kind = "evaluation" /\ ~c[i].below /\ i > 1 =>
         OnSame(c, i, {"delegated"}) \/ c[i].frame < c[i - 1].frame
AllEntered(c) == \A i \in 1..Len(c) : Entered(c, i)

\* Generated names keep the values they begin with, and an output gets one
\* that has none, so that removing it removes nothing else.
Generated(workspace, o) == workspace["output_0"] = o /\ workspace["output_1"] = None
Outputs(o) == {"none", "output_1"} \cup (IF o = None THEN {"output_0"} ELSE {})
OutputsStay(c, w, o) ==
    /\ \A f \in Frames : Generated(w[f], o)
    /\ \A i \in 1..Len(c) : c[i].kind = "evaluation" =>
         Generated(c[i].copy, o) /\ c[i].output \in Outputs(o)

Ordinary(c, w, o) == AllEntered(c) /\ OutputsStay(c, w, o)
FramesInv == \E o \in {None, Plain} : Ordinary(control, workspaces, o)

\* What code of a frame sees, of any stack and workspaces.
Seen(c, w, frame) ==
    LET of == {i \in DOMAIN c : c[i].frame = frame /\ c[i].kind # "anonymous"}
        last == CHOOSE i \in of : \A j \in of : j <= i
    IN IF of = {} THEN w[frame]
       ELSE IF c[last].kind = "evaluation" THEN c[last].copy ELSE w[frame]

Nowhere(c, f) == DOMAIN c = 1..Len(c) /\ \A i \in 1..Len(c) : c[i].frame # f

LEMMA SeenNowhere ==
  ASSUME NEW c, NEW f, Nowhere(c, f), NEW w
  PROVE  Seen(c, w, f) = w[f]
<1>1. {i \in DOMAIN c : c[i].frame = f /\ c[i].kind # "anonymous"} = {}
  BY DEF Nowhere
<1> QED
  BY <1>1 DEF Seen

OnTop(c, f) ==
    /\ Len(c) \in Nat \ {0} /\ DOMAIN c = 1..Len(c)
    /\ c[Len(c)].frame = f /\ c[Len(c)].kind # "anonymous"

LEMMA SeenTop ==
  ASSUME NEW c, NEW f, OnTop(c, f), NEW w
  PROVE  Seen(c, w, f) = IF c[Len(c)].kind = "evaluation" THEN c[Len(c)].copy ELSE w[f]
<1> DEFINE of == {i \in DOMAIN c : c[i].frame = f /\ c[i].kind # "anonymous"}
           last == CHOOSE i \in of : \A j \in of : j <= i
<1>1. Seen(c, w, f) = IF of = {} THEN w[f]
                      ELSE IF c[last].kind = "evaluation" THEN c[last].copy ELSE w[f]
  BY DEF Seen
<1>2. Len(c) \in Nat /\ Len(c) \in of /\ \A j \in of : j \in 1..Len(c)
  BY DEF OnTop
<1> HIDE DEF of
<1>3. last \in of /\ \A j \in of : j <= last
  BY <1>2
<1> HIDE DEF last
<1>4. last = Len(c)
  BY <1>2, <1>3
<1> QED
  BY <1>1, <1>2, <1>4

\* Two stacks have the same entries of a frame.
SameOf(c, d, f) ==
    /\ DOMAIN c = 1..Len(c) /\ DOMAIN d = 1..Len(d) /\ Len(c) \in Nat
    /\ \A i : i \in 1..Len(c) /\ c[i].frame = f /\ c[i].kind # "anonymous"
              <=> i \in 1..Len(d) /\ d[i].frame = f /\ d[i].kind # "anonymous"
    /\ \A i \in 1..Len(c) : c[i].frame = f /\ c[i].kind # "anonymous" => d[i] = c[i]

LEMMA SeenAlike ==
  ASSUME NEW c, NEW d, NEW f, SameOf(c, d, f), NEW w, NEW w2, w2[f] = w[f]
  PROVE  Seen(d, w2, f) = Seen(c, w, f)
<1> DEFINE of == {i \in DOMAIN c : c[i].frame = f /\ c[i].kind # "anonymous"}
           same == {i \in DOMAIN d : d[i].frame = f /\ d[i].kind # "anonymous"}
           last == CHOOSE i \in of : \A j \in of : j <= i
           final == CHOOSE i \in same : \A j \in same : j <= i
<1>1. Seen(c, w, f) = IF of = {} THEN w[f]
                      ELSE IF c[last].kind = "evaluation" THEN c[last].copy ELSE w[f]
  BY DEF Seen
<1>2. Seen(d, w2, f) = IF same = {} THEN w2[f]
                       ELSE IF d[final].kind = "evaluation" THEN d[final].copy ELSE w2[f]
  BY DEF Seen
<1>3. same = of
  BY DEF SameOf
<1>4. of \in SUBSET (1..Len(c)) /\ (\A i \in of : d[i] = c[i]) /\ Len(c) \in Nat
  BY DEF SameOf
<1>5. final = last
  BY <1>3
<1> HIDE DEF of, same, final
<1>6. CASE of = {}
  BY <1>1, <1>2, <1>3, <1>6
<1>7. CASE of # {}
  <2>1. \E i \in of : \A j \in of : j <= i
    BY <1>4, <1>7, GreatestOf
  <2>2. last \in of
    BY <2>1
  <2> HIDE DEF last
  <2> QED
    BY <1>1, <1>2, <1>3, <1>4, <1>5, <1>7, <2>2
<1> QED
  BY <1>6, <1>7

\* An entry entered, or one that returned, hides nothing of a frame.
Shows(c, w, e, w2, f) ==
    /\ f # e.frame \/ e.kind = "anonymous" => w2[f] = w[f]
    /\ f = e.frame /\ e.kind # "anonymous" =>
         Seen(c, w, f) = IF e.kind = "evaluation" THEN e.copy ELSE w2[f]

LEMMA SeenPushed ==
  ASSUME NEW c, IsSeq(c), NEW d, IsSeq(d), Enters(c, d), NEW w, NEW w2, NEW f,
         Shows(c, w, d[Len(d)], w2, f)
  PROVE  Seen(d, w2, f) = Seen(c, w, f)
<1> DEFINE n == Len(c)
           e == d[Len(d)]
<1>1. /\ n \in Nat /\ Len(d) = n + 1 /\ Len(c) = n /\ Len(d) \in Nat \ {0}
      /\ DOMAIN c = 1..Len(c) /\ DOMAIN d = 1..Len(d)
      /\ \A i \in 1..n : d[i] = c[i]
      /\ e = d[Len(d)] /\ e = d[n + 1]
  <2>1. DOMAIN c = 1..Len(c) /\ DOMAIN d = 1..Len(d)
    BY Pushed
  <2> QED
    BY <2>1 DEF Enters
<1>2. Shows(c, w, e, w2, f)
  OBVIOUS
<1> HIDE DEF n, e
<1>3. CASE f = e.frame /\ e.kind # "anonymous"
  <2>1. OnTop(d, f)
    BY <1>1, <1>3 DEF OnTop
  <2>2. Seen(d, w2, f) = IF d[Len(d)].kind = "evaluation" THEN d[Len(d)].copy ELSE w2[f]
    BY <2>1, SeenTop
  <2> QED
    BY <1>1, <1>2, <1>3, <2>2 DEF Shows
<1>4. CASE f # e.frame \/ e.kind = "anonymous"
  <2>1. w2[f] = w[f]
    BY <1>2, <1>4 DEF Shows
  <2>2. \A i \in 1..(n + 1) : i \in 1..n \/ i = n + 1
    BY <1>1
  <2>3. \A i \in 1..n : i \in 1..(n + 1)
    BY <1>1
  <2>4. \A i : i \in 1..Len(c) /\ c[i].frame = f /\ c[i].kind # "anonymous"
               <=> i \in 1..Len(d) /\ d[i].frame = f /\ d[i].kind # "anonymous"
    BY <1>1, <1>4, <2>2, <2>3
  <2>5. \A i \in 1..Len(c) : c[i].frame = f /\ c[i].kind # "anonymous" => d[i] = c[i]
    BY <1>1
  <2>6. DOMAIN c = 1..Len(c) /\ DOMAIN d = 1..Len(d) /\ Len(c) \in Nat
    BY <1>1
  <2>7. SameOf(c, d, f)
    BY <2>4, <2>5, <2>6 DEF SameOf
  <2> QED
    BY <2>1, <2>7, SeenAlike
<1> QED
  BY <1>3, <1>4

LEMMA SeenReturned ==
  ASSUME NEW c, IsSeq(c), NEW d, Returned(c, d), NEW w, NEW w2, NEW f,
         f # c[Len(c)].frame \/ c[Len(c)].kind = "anonymous", w2[f] = w[f],
         Len(d) > 0 /\ d[Len(d)] # c[Len(d)] => d[Len(d)].frame # f
  PROVE  Seen(d, w2, f) = Seen(c, w, f)
<1> DEFINE n == Len(d)
<1>1. /\ n \in Nat /\ Len(d) = n /\ Len(c) = n + 1 /\ Len(c) \in Nat
      /\ DOMAIN c = 1..Len(c) /\ DOMAIN d = 1..Len(d)
      /\ \A i \in 1..n : d[i].frame = c[i].frame /\ d[i].kind = c[i].kind
      /\ \A i \in 1..n : i = n \/ d[i] = c[i]
      /\ n > 0 /\ d[n] # c[n] => d[n].frame # f
      /\ f # c[n + 1].frame \/ c[n + 1].kind = "anonymous"
  <2>1. /\ n \in Nat /\ Len(c) = n + 1 /\ Len(c) \in Nat
        /\ DOMAIN c = 1..Len(c) /\ DOMAIN d = 1..Len(d)
    BY Pushed DEF Returned
  <2>2. \A i \in 1..n : d[i].frame = c[i].frame /\ d[i].kind = c[i].kind
    BY DEF Returned, SameBelow, Alike
  <2>3. \A i \in 1..n : i = n \/ d[i] = c[i]
    BY <2>1 DEF Returned
  <2>4. f # c[n + 1].frame \/ c[n + 1].kind = "anonymous"
    BY <2>1
  <2> QED
    BY <2>1, <2>2, <2>3, <2>4
<1> HIDE DEF n
<1>2. /\ \A i \in 1..(n + 1) : i \in 1..n \/ i = n + 1
      /\ \A i \in 1..n : i \in 1..(n + 1) /\ n > 0
  BY <1>1
<1>3. \A i : i \in 1..Len(c) /\ c[i].frame = f /\ c[i].kind # "anonymous"
             <=> i \in 1..Len(d) /\ d[i].frame = f /\ d[i].kind # "anonymous"
  BY <1>1, <1>2
<1>4. \A i \in 1..Len(c) : c[i].frame = f /\ c[i].kind # "anonymous" => d[i] = c[i]
  <2> SUFFICES ASSUME NEW i \in 1..Len(c), c[i].frame = f, c[i].kind # "anonymous"
               PROVE  d[i] = c[i]
    OBVIOUS
  <2>1. i \in 1..n /\ d[i].frame = f
    BY <1>1, <1>3
  <2>2. CASE i = n
    BY <1>1, <1>2, <2>1, <2>2
  <2> QED
    BY <1>1, <2>1, <2>2
<1>5. DOMAIN c = 1..Len(c) /\ DOMAIN d = 1..Len(d) /\ Len(c) \in Nat
  BY <1>1
<1>6. SameOf(c, d, f)
  BY <1>3, <1>4, <1>5 DEF SameOf
<1> QED
  BY <1>6, SeenAlike

-----------------------------------------------------------------------------
LEMMA EnteredRemain ==
  ASSUME NEW c, AllEntered(c), Len(c) \in Nat, NEW d, Len(d) \in Nat, Len(d) <= Len(c),
         SameBelow(d, c, Len(d))
  PROVE  AllEntered(d)
<1> SUFFICES ASSUME NEW i \in 1..Len(d) PROVE Entered(d, i)
  BY DEF AllEntered
<1>1. /\ i \in 1..Len(c) /\ Entered(c, i)
      /\ i > 1 => i - 1 \in 1..Len(d)
  BY DEF AllEntered
<1>2. /\ d[i].kind = c[i].kind /\ d[i].frame = c[i].frame
      /\ c[i].kind = "evaluation" => d[i].below = c[i].below
      /\ i > 1 => d[i - 1].kind = c[i - 1].kind /\ d[i - 1].frame = c[i - 1].frame
  BY <1>1 DEF SameBelow, Alike
<1> QED
  BY <1>1, <1>2 DEF Entered, OnSame

LEMMA EnteredPushed ==
  ASSUME NEW c, AllEntered(c), NEW d, Enters(c, d), Entered(d, Len(d))
  PROVE  AllEntered(d)
<1> SUFFICES ASSUME NEW i \in 1..Len(d) PROVE Entered(d, i)
  BY DEF AllEntered
<1>1. CASE i = Len(d)
  BY <1>1
<1>2. CASE i # Len(d)
  <2>1. /\ i \in 1..Len(c) /\ Entered(c, i)
        /\ i > 1 => i - 1 \in 1..Len(c)
    BY <1>2 DEF AllEntered, Enters
  <2>2. d[i] = c[i] /\ (i > 1 => d[i - 1] = c[i - 1])
    BY <2>1 DEF Enters
  <2> QED
    BY <2>1, <2>2 DEF Entered, OnSame
<1> QED
  BY <1>1, <1>2

LEMMA OutputsRemain ==
  ASSUME NEW c, NEW w, NEW o, OutputsStay(c, w, o), Len(c) \in Nat,
         NEW d, Len(d) \in Nat, Len(d) <= Len(c), SameBelow(d, c, Len(d)),
         \A i \in 1..Len(d) : d[i] = c[i] \/ d[i].kind # "evaluation" \/ Generated(d[i].copy, o),
         NEW w2, \A f \in Frames : Generated(w2[f], o)
  PROVE  OutputsStay(d, w2, o)
<1> SUFFICES ASSUME NEW i \in 1..Len(d), d[i].kind = "evaluation"
             PROVE  Generated(d[i].copy, o) /\ d[i].output \in Outputs(o)
  BY DEF OutputsStay
<1>1. i \in 1..Len(c) /\ Alike(d[i], c[i])
  BY DEF SameBelow
<1>2. c[i].kind = "evaluation" /\ d[i].output = c[i].output
  BY <1>1 DEF Alike
<1> QED
  BY <1>1, <1>2 DEF OutputsStay

LEMMA OutputsPushed ==
  ASSUME NEW c, NEW w, NEW o, OutputsStay(c, w, o), NEW d, Enters(c, d),
         NEW w2, \A f \in Frames : Generated(w2[f], o),
         d[Len(d)].kind = "evaluation" =>
           Generated(d[Len(d)].copy, o) /\ d[Len(d)].output \in Outputs(o)
  PROVE  OutputsStay(d, w2, o)
<1> SUFFICES ASSUME NEW i \in 1..Len(d), d[i].kind = "evaluation", i # Len(d)
             PROVE  Generated(d[i].copy, o) /\ d[i].output \in Outputs(o)
  BY DEF OutputsStay
<1>1. i \in 1..Len(c) /\ d[i] = c[i]
  BY DEF Enters
<1> QED
  BY <1>1 DEF OutputsStay

LEMMA GeneratedStored ==
  ASSUME NEW workspace \in Workspace, NEW o, Generated(workspace, o),
         NEW name \in WrittenBack, NEW value
  PROVE  Generated([workspace EXCEPT ![name] = value], o)
BY DEF Generated, WrittenBack, Workspace, Names

\* What evaluated code and a delegated call store.
LEMMA TopCopied ==
  ASSUME SoundNow, Running("evaluation"), NEW copy,
         NEW d, d = Append(Front(control), [Top EXCEPT !.copy = copy])
  PROVE  /\ Len(control) \in Nat \ {0} /\ Len(d) = Len(control)
         /\ SameBelow(d, control, Len(control))
         /\ d[Len(control)].copy = copy
         /\ \A i \in 1..Len(control) : d[i] = control[i] \/ i = Len(control)
<1> DEFINE n == Len(control)
           x == [Top EXCEPT !.copy = copy]
<1>1. /\ IsSeq(control) /\ control # <<>> /\ n \in Nat \ {0} /\ Top = control[n]
      /\ Top.kind = "evaluation" /\ EntryTypes(Top)
  BY TopFacts, SessionFacts DEF SoundNow
<1>2. Alike(x, control[n]) /\ x.copy = copy
  BY <1>1, CopyChanges
<1>3. \A i \in 1..n : EntryTypes(control[i])
  BY DEF SoundNow, Sound
<1> DEFINE b == Front(control)
<1>8. IsSeq(b) /\ Len(b) = n - 1 /\ \A i \in 1..(n - 1) : b[i] = control[i]
  BY <1>1, Popped
<1>4. d = Append(b, x)
  OBVIOUS
<1> HIDE DEF n, x, b
<1>9. /\ Len(Append(b, x)) = Len(b) + 1 /\ Append(b, x)[Len(b) + 1] = x
      /\ \A i \in 1..Len(b) : Append(b, x)[i] = b[i]
  BY <1>8, Pushed
<1>5. /\ Len(d) = n /\ d[n] = x /\ \A i \in 1..(n - 1) : d[i] = control[i]
  BY <1>1, <1>4, <1>8, <1>9
<1>6. \A i \in 1..n : d[i] = control[i] \/ i = n
  BY <1>1, <1>5
<1>7. SameBelow(d, control, n)
  BY <1>2, <1>3, <1>5, <1>6, EntryAlike DEF SameBelow
<1> QED
  BY <1>1, <1>2, <1>5, <1>6, <1>7 DEF n

InCopy(name, value) == Running("evaluation") /\ ReplaceTop([Top EXCEPT !.copy[name] = value])
Stored(name, value, m) ==
    /\ control' = control \/ InCopy(name, value)
    /\ workspaces' = workspaces \/ workspaces' = [workspaces EXCEPT ![m][name] = value]

LEMMA StoringIsOrdinary ==
  ASSUME SoundNow, NEW o, Ordinary(control, workspaces, o),
         NEW name \in WrittenBack, NEW value, NEW m \in Frames, Stored(name, value, m)
  PROVE  Ordinary(control', workspaces', o) /\ Len(control') = Len(control)
<1>1. /\ AllEntered(control) /\ OutputsStay(control, workspaces, o)
      /\ \A f \in Frames : Generated(workspaces[f], o)
  BY DEF Ordinary, OutputsStay
<1>2. workspaces \in [Frames -> Workspace] /\ IsSeq(control) /\ Len(control) \in Nat
  BY Pushed, SessionFacts DEF Typed
<1>3. \A f \in Frames : Generated(workspaces'[f], o)
  <2>1. CASE workspaces' = workspaces
    BY <1>1, <2>1
  <2>2. CASE workspaces' = [workspaces EXCEPT ![m][name] = value]
    <3> DEFINE row == [workspaces[m] EXCEPT ![name] = value]
    <3>1. Generated(row, o)
      BY <1>1, <1>2, GeneratedStored
    <3>2. workspaces' = [workspaces EXCEPT ![m] = row]
      BY <2>2
    <3> HIDE DEF row
    <3> QED
      BY <1>1, <1>2, <3>1, <3>2
  <2> QED
    BY <2>1, <2>2 DEF Stored
<1>4. CASE control' = control
  <2>1. OutputsStay(control', workspaces', o)
    BY <1>1, <1>3, <1>4 DEF OutputsStay
  <2> QED
    BY <1>1, <1>4, <2>1 DEF Ordinary
<1>5. CASE InCopy(name, value)
  <2>8. Running("evaluation") /\ ReplaceTop([Top EXCEPT !.copy[name] = value])
    BY <1>5 DEF InCopy
  <2> DEFINE copy == [Top.copy EXCEPT ![name] = value]
  <2>1. control' = Append(Front(control), [Top EXCEPT !.copy = copy])
    BY <2>8 DEF ReplaceTop
  <2>2. Top.copy \in Workspace /\ Generated(Top.copy, o)
    <3>1. /\ Top = control[Len(control)] /\ Top.kind = "evaluation" /\ Len(control) \in Nat \ {0}
          /\ Top.copy \in Workspace
      BY <2>8, TopFacts DEF SoundNow
    <3>2. Len(control) \in 1..Len(control)
      BY <3>1
    <3> QED
      BY <1>1, <3>1, <3>2 DEF OutputsStay
  <2>3. Generated(copy, o)
    BY <2>2, GeneratedStored
  <2> HIDE DEF copy
  <2>4. /\ Len(control) \in Nat \ {0} /\ Len(control') = Len(control)
        /\ SameBelow(control', control, Len(control))
        /\ control'[Len(control)].copy = copy
        /\ \A i \in 1..Len(control) : control'[i] = control[i] \/ i = Len(control)
    BY <2>1, <2>8, TopCopied
  <2>5. AllEntered(control')
    BY <1>1, <2>4, EnteredRemain
  <2>6. \A i \in 1..Len(control') : control'[i] = control[i] \/ Generated(control'[i].copy, o)
    BY <2>3, <2>4
  <2>7. OutputsStay(control', workspaces', o)
    BY <1>1, <1>3, <2>4, <2>6, OutputsRemain
  <2> QED
    BY <2>4, <2>5, <2>7 DEF Ordinary
<1> QED
  BY <1>4, <1>5 DEF Stored

LEMMA StoresAre ==
  ASSUME SoundNow, StoreVariable \/ AssignIn \/ StoreField \/ Declare \/ DelegatedStore
  PROVE  \E name \in WrittenBack, m \in Frames : \E value : Stored(name, value, m)
<1>1. ASSUME NEW kind, Running(kind) PROVE Top.frame \in Frames
  BY <1>1, TopFacts DEF SoundNow, EntryTypes
<1>2. CASE StoreVariable
  <2>1. PICK name \in WrittenBack, value \in VisibleIn : ReplaceTop([Top EXCEPT !.copy[name] = value])
    BY <1>2 DEF StoreVariable
  <2>2. Running("evaluation") /\ workspaces' = workspaces /\ Base \in Frames
    BY <1>2 DEF StoreVariable, Frames
  <2>3. Stored(name, value, Base)
    BY <2>1, <2>2 DEF Stored, InCopy
  <2> QED
    BY <2>2, <2>3
<1>3. CASE AssignIn
  <2>1. PICK m \in OuterFrames(Top.frame), name \in WrittenBack, value \in VisibleIn :
          workspaces' = [workspaces EXCEPT ![m][name] = value]
    BY <1>3 DEF AssignIn
  <2>2. control' = control /\ m \in Frames
    BY <1>3 DEF AssignIn, OuterFrames
  <2>3. Stored(name, value, m)
    BY <2>1, <2>2 DEF Stored
  <2> QED
    BY <2>2, <2>3
<1>4. CASE StoreField
  <2>1. control' = control /\ workspaces' = workspaces /\ Base \in Frames /\ "x" \in WrittenBack
    BY <1>4 DEF StoreField, Frames, WrittenBack
  <2>2. Stored("x", None, Base)
    BY <2>1 DEF Stored
  <2> QED
    BY <2>1, <2>2
<1>5. CASE Declare
  <2>1. PICK name \in WrittenBack :
          \/ DeclareGlobal(Top.frame, name, Top.copy[name])
          \/ DeclarePersistent(Top.frame, name, Top.copy[name])
          \/ Top.frame = Base /\ DeclareInScript(name, Top.copy[name])
    BY <1>5 DEF Declare
  <2>2. Running("evaluation") /\ Top.frame \in Frames
    BY <1>1, <1>5 DEF Declare
  <2>3. \E value : /\ workspaces' = [workspaces EXCEPT ![Top.frame][name] = value]
                   /\ ReplaceTop([Top EXCEPT !.copy[name] = value])
    <3>1. CASE DeclareGlobal(Top.frame, name, Top.copy[name])
      BY <3>1 DEF DeclareGlobal
    <3>2. CASE DeclarePersistent(Top.frame, name, Top.copy[name])
      BY <3>2 DEF DeclarePersistent
    <3>3. CASE Top.frame = Base /\ DeclareInScript(name, Top.copy[name])
      BY <3>3 DEF DeclareInScript
    <3> QED
      BY <2>1, <3>1, <3>2, <3>3
  <2> QED
    BY <2>2, <2>3 DEF Stored, InCopy
<1>6. CASE DelegatedStore
  <2>1. PICK name \in WrittenBack, value \in {Plain, Handle(ParentContext)} :
          workspaces' = [workspaces EXCEPT ![Top.frame][name] = value]
    BY <1>6 DEF DelegatedStore
  <2>2. control' = control /\ Top.frame \in Frames
    BY <1>1, <1>6 DEF DelegatedStore
  <2>3. Stored(name, value, Top.frame)
    BY <2>1, <2>2 DEF Stored
  <2> QED
    BY <2>2, <2>3
<1> QED
  BY <1>2, <1>3, <1>4, <1>5, <1>6

-----------------------------------------------------------------------------
\* A step keeps what the frames see unless it reports an escape.
FramesStep(o) ==
    /\ Ordinary(control', workspaces', o)
    /\ ~reported' => \A f \in Frames : Seen(control', workspaces', f) = Seen(control, workspaces, f)

\* The step enters e.
Pushes(e) ==
    /\ IsSeq(control) /\ IsSeq(control')
    /\ Enters(control, control') /\ control'[Len(control')] = e

LEMMA AppendPushes ==
  ASSUME SoundNow, NEW e, control' = Append(control, e)
  PROVE  Pushes(e)
BY Appended, SessionFacts DEF Pushes

LEMMA Entering ==
  ASSUME NEW o, Ordinary(control, workspaces, o), NEW e, Pushes(e),
         Entered(control', Len(control')),
         \A f \in Frames : Generated(workspaces'[f], o),
         e.kind = "evaluation" => Generated(e.copy, o) /\ e.output \in Outputs(o),
         \A f \in Frames : Shows(control, workspaces, e, workspaces', f)
  PROVE  FramesStep(o)
<1>1. /\ IsSeq(control') /\ Enters(control, control') /\ control'[Len(control')] = e
      /\ IsSeq(control)
  BY DEF Pushes
<1>2. AllEntered(control')
  BY <1>1, EnteredPushed DEF Ordinary
<1>3. OutputsStay(control', workspaces', o)
  BY <1>1, OutputsPushed DEF Ordinary
<1>4. ASSUME NEW f \in Frames
      PROVE  Seen(control', workspaces', f) = Seen(control, workspaces, f)
  <2>1. Shows(control, workspaces, control'[Len(control')], workspaces', f)
    BY <1>1
  <2> QED
    BY <1>1, <2>1, SeenPushed
<1> QED
  BY <1>2, <1>3, <1>4 DEF FramesStep, Ordinary

LEMMA CallAnonymousStep ==
  ASSUME SoundNow, NEW o, Ordinary(control, workspaces, o), CallAnonymous
  PROVE  FramesStep(o)
<1> DEFINE e == [kind |-> "anonymous", frame |-> Top.frame,
                 copy |-> [name \in Names |-> IF name = "x" THEN Plain ELSE None]]
<1>1. control' = Append(control, e) /\ workspaces' = workspaces /\ e.kind = "anonymous"
  BY DEF CallAnonymous
<1> HIDE DEF e
<1>2. control'[Len(control')] = e
  BY <1>1, Appended
<1>3. Entered(control', Len(control'))
  BY <1>1, <1>2 DEF Entered
<1>4. \A f \in Frames : Shows(control, workspaces, e, workspaces', f)
  BY <1>1 DEF Shows
<1>5. \A f \in Frames : Generated(workspaces'[f], o)
  BY <1>1 DEF Ordinary, OutputsStay
<1>6. e.kind = "evaluation" => Generated(e.copy, o) /\ e.output \in Outputs(o)
  BY <1>1
<1> QED
  BY <1>1, <1>3, <1>4, <1>5, <1>6, AppendPushes, Entering

\* What the innermost entry sees.
LEMMA TopSees ==
  ASSUME SoundNow, NEW kind, Running(kind), kind # "anonymous"
  PROVE  /\ Top.frame \in Frames
         /\ Seen(control, workspaces, Top.frame) =
              IF kind = "evaluation" THEN Top.copy ELSE workspaces[Top.frame]
<1>1. /\ Len(control) \in Nat \ {0} /\ Top = control[Len(control)] /\ Top.kind = kind
      /\ Top.frame \in Frames /\ DOMAIN control = 1..Len(control)
  <2>1. DOMAIN control = 1..Len(control)
    BY Pushed, SessionFacts
  <2> QED
    BY <2>1, TopFacts DEF SoundNow, EntryTypes
<1>2. OnTop(control, Top.frame)
  BY <1>1 DEF OnTop
<1>3. Seen(control, workspaces, Top.frame) =
        IF control[Len(control)].kind = "evaluation" THEN control[Len(control)].copy
        ELSE workspaces[Top.frame]
  BY <1>2, SeenTop
<1> QED
  BY <1>1, <1>3

LEMMA TopGenerated ==
  ASSUME SoundNow, NEW o, Ordinary(control, workspaces, o), Running("evaluation")
  PROVE  Top.copy \in Workspace /\ Generated(Top.copy, o) /\ Top.output \in Outputs(o)
<1>1. /\ Len(control) \in Nat \ {0} /\ Top = control[Len(control)] /\ Top.kind = "evaluation"
      /\ Top.copy \in Workspace
  BY TopFacts DEF SoundNow
<1>2. Len(control) \in 1..Len(control)
  BY <1>1
<1> QED
  BY <1>1, <1>2 DEF Ordinary, OutputsStay

LEMMA DelegateStep ==
  ASSUME SoundNow, NEW o, Ordinary(control, workspaces, o), ~AnonymousDelegates, Delegate
  PROVE  FramesStep(o)
<1> DEFINE e == [kind |-> "delegated", frame |-> Top.frame]
<1>1. Running("evaluation") /\ control' = Append(control, e)
      /\ workspaces' = [workspaces EXCEPT ![Top.frame] = Top.copy]
  BY DEF Delegate, Callers, Publish
<1>2. e.kind = "delegated" /\ e.frame = Top.frame
  OBVIOUS
<1> HIDE DEF e
<1>3. /\ Top.frame \in Frames /\ Seen(control, workspaces, Top.frame) = Top.copy
      /\ Generated(Top.copy, o)
      /\ Len(control) \in Nat \ {0} /\ Top = control[Len(control)] /\ Top.kind = "evaluation"
  BY <1>1, TopSees, TopGenerated, TopFacts DEF SoundNow
<1>4. /\ workspaces'[Top.frame] = Top.copy
      /\ \A f \in Frames : f # Top.frame => workspaces'[f] = workspaces[f]
  BY <1>1, <1>3, SessionFacts DEF Typed
<1>5. /\ Len(control') = Len(control) + 1 /\ control'[Len(control')] = e
      /\ \A i \in 1..Len(control) : control'[i] = control[i]
  BY <1>1, Appended DEF Enters
<1>6. OnSame(control', Len(control'), {"evaluation"})
  BY <1>2, <1>3, <1>5 DEF OnSame
<1>7. Entered(control', Len(control'))
  BY <1>2, <1>5, <1>6 DEF Entered
<1>8. \A f \in Frames : Shows(control, workspaces, e, workspaces', f)
  BY <1>2, <1>3, <1>4 DEF Shows
<1>9. \A f \in Frames : Generated(workspaces'[f], o)
  BY <1>3, <1>4 DEF Ordinary, OutputsStay
<1>10. e.kind = "evaluation" => Generated(e.copy, o) /\ e.output \in Outputs(o)
  BY <1>2
<1> QED
  BY <1>1, <1>7, <1>8, <1>9, <1>10, AppendPushes, Entering

LEMMA OutputsAre ==
  ASSUME NEW o, NEW workspace, Generated(workspace, o), NEW expression \in BOOLEAN
  PROVE  (IF expression THEN OutputName(workspace) ELSE "none") \in Outputs(o)
<1> DEFINE free == {i \in 1..2 : workspace[GeneratedNames[i]] = None}
           chosen == CHOOSE i \in free : \A j \in free : i <= j
<1>1. /\ DOMAIN GeneratedNames = 1..2
      /\ GeneratedNames[1] = "output_0" /\ GeneratedNames[2] = "output_1"
  BY DEF GeneratedNames
<1>2. OutputName(workspace) = GeneratedNames[chosen]
  BY <1>1 DEF OutputName
<1>3. 2 \in free /\ (1 \in free => o = None) /\ free \subseteq {1, 2}
  BY <1>1 DEF Generated
<1> HIDE DEF free
<1>4. \E i \in free : \A j \in free : i <= j
  BY <1>3
<1>5. chosen \in free
  BY <1>4
<1> HIDE DEF chosen
<1>6. chosen = 2 \/ (chosen = 1 /\ o = None)
  BY <1>3, <1>5
<1>7. "none" \in Outputs(o) /\ "output_1" \in Outputs(o) /\ (o = None => "output_0" \in Outputs(o))
  BY DEF Outputs
<1> QED
  BY <1>1, <1>2, <1>6, <1>7

LEMMA EvaluateStep ==
  ASSUME SoundNow, NEW o, Ordinary(control, workspaces, o),
         NEW frame, NEW workspace, NEW below \in BOOLEAN,
         Evaluate(frame, workspace, below),
         Seen(control, workspaces, frame) = workspace, Generated(workspace, o),
         \/ below \/ control = <<>>
         \/ Running("delegated") /\ Top.frame = frame
         \/ \E kind : Running(kind) /\ frame < Top.frame
  PROVE  FramesStep(o)
<1>1. PICK expression \in BOOLEAN :
        control' = Append(control,
          [kind |-> "evaluation", frame |-> frame, below |-> below,
           context |-> evaluations + 1, copy |-> workspace, original |-> workspace,
           borrowed |-> workspaces, globals |-> globals, persistents |-> persistents,
           snapshot |-> SnapshotShared(workspace, frame), field |-> field,
           allowed |-> {ParentContext} \cup AllContexts(HeldForEvaluation(workspace, frame)),
           output |-> IF expression THEN OutputName(workspace) ELSE "none"])
  BY DEF Evaluate
<1> DEFINE e == [kind |-> "evaluation", frame |-> frame, below |-> below,
                 context |-> evaluations + 1, copy |-> workspace, original |-> workspace,
                 borrowed |-> workspaces, globals |-> globals, persistents |-> persistents,
                 snapshot |-> SnapshotShared(workspace, frame), field |-> field,
                 allowed |-> {ParentContext} \cup AllContexts(HeldForEvaluation(workspace, frame)),
                 output |-> IF expression THEN OutputName(workspace) ELSE "none"]
<1>2. /\ e.kind = "evaluation" /\ e.frame = frame /\ e.below = below /\ e.copy = workspace
      /\ e.output = IF expression THEN OutputName(workspace) ELSE "none"
  OBVIOUS
<1>3. control' = Append(control, e)
  BY <1>1
<1> HIDE DEF e
<1>4. workspaces' = workspaces
  BY DEF Evaluate
<1>5. Pushes(e)
  BY <1>3, AppendPushes
<1>6. /\ Len(control) \in Nat /\ Len(control') = Len(control) + 1 /\ control'[Len(control')] = e
      /\ \A i \in 1..Len(control) : control'[i] = control[i]
  BY <1>5 DEF Pushes, Enters
<1>7. e.below \/ Len(control') = 1 \/ OnSame(control', Len(control'), {"delegated"})
      \/ frame < control'[Len(control') - 1].frame
  <2>1. CASE control = <<>>
    BY <1>6, <2>1
  <2>2. ASSUME NEW kind, Running(kind)
        PROVE  /\ Len(control') - 1 \in 1..Len(control) /\ Len(control') > 1
               /\ control'[Len(control') - 1] = Top /\ Top.kind = kind
    <3>1. Len(control) \in Nat \ {0} /\ Top = control[Len(control)] /\ Top.kind = kind
      BY <2>2, TopFacts DEF SoundNow
    <3> QED
      BY <1>6, <3>1
  <2>3. CASE Running("delegated") /\ Top.frame = frame
    <3>1. OnSame(control', Len(control'), {"delegated"})
      BY <1>2, <1>6, <2>2, <2>3 DEF OnSame
    <3> QED
      BY <3>1
  <2>4. CASE \E kind : Running(kind) /\ frame < Top.frame
    BY <2>2, <2>4
  <2> QED
    BY <1>2, <2>1, <2>3, <2>4
<1>8. Entered(control', Len(control'))
  BY <1>2, <1>6, <1>7 DEF Entered
<1>9. \A f \in Frames : Shows(control, workspaces, e, workspaces', f)
  BY <1>2, <1>4 DEF Shows
<1>10. \A f \in Frames : Generated(workspaces'[f], o)
  BY <1>4 DEF Ordinary, OutputsStay
<1>11. e.kind = "evaluation" => Generated(e.copy, o) /\ e.output \in Outputs(o)
  BY <1>2, OutputsAre
<1> QED
  BY <1>5, <1>8, <1>9, <1>10, <1>11, Entering

\* Where no entry is, code sees the workspace.
LEMMA OuterSees ==
  ASSUME SoundNow, NEW m, \A i \in 1..Len(control) : control[i].frame # m
  PROVE  Seen(control, workspaces, m) = workspaces[m]
<1>1. DOMAIN control = 1..Len(control)
  BY Pushed, SessionFacts
<1> QED
  BY <1>1, SeenNowhere DEF Nowhere

LEMMA StartEvaluationStep ==
  ASSUME SoundNow, NEW o, Ordinary(control, workspaces, o), StartEvaluation
  PROVE  FramesStep(o)
<1>1. \A f \in Frames : Generated(workspaces[f], o)
  BY DEF Ordinary, OutputsStay
<1>2. ASSUME control = <<>>, NEW frame \in Frames, Evaluate(frame, workspaces[frame], FALSE)
      PROVE  FramesStep(o)
  <2>1. Len(control) = 0
    BY <1>2
  <2>2. \A i \in 1..Len(control) : control[i].frame # frame
    BY <2>1
  <2>3. Seen(control, workspaces, frame) = workspaces[frame]
    BY <2>2, OuterSees
  <2> QED
    BY <1>1, <1>2, <2>3, EvaluateStep
<1>3. ASSUME Running("delegated"), Evaluate(Top.frame, workspaces[Top.frame], FALSE)
      PROVE  FramesStep(o)
  <2>1. Top.frame \in Frames /\ Seen(control, workspaces, Top.frame) = workspaces[Top.frame]
    BY <1>3, TopSees
  <2> QED
    BY <1>1, <1>3, <2>1, EvaluateStep
<1>4. ASSUME Running("evaluation"), Evaluate(Top.frame, Top.copy, TRUE)
      PROVE  FramesStep(o)
  <2>1. Seen(control, workspaces, Top.frame) = Top.copy /\ Generated(Top.copy, o)
    BY <1>4, TopSees, TopGenerated
  <2> QED
    BY <1>4, <2>1, EvaluateStep
<1>5. ASSUME Running("evaluation"), NEW m \in OuterFrames(Top.frame), Evaluate(m, workspaces[m], FALSE)
      PROVE  FramesStep(o)
  <2>1. /\ m \in Frames /\ m < Top.frame /\ Top.frame \in Frames
        /\ \A i \in 1..Len(control) : Top.frame <= control[i].frame /\ control[i].frame \in Frames
    BY <1>5, TopFacts DEF SoundNow, EntryTypes
  <2>2. \A i \in 1..Len(control) : control[i].frame # m
    BY <2>1 DEF Frames, Base, Function
  <2>3. Seen(control, workspaces, m) = workspaces[m]
    BY <2>2, OuterSees
  <2> QED
    BY <1>1, <1>5, <2>1, <2>3, EvaluateStep
<1> QED
  BY <1>2, <1>3, <1>4, <1>5 DEF StartEvaluation

\* What remains when the last entry returns.
LEMMA Returning ==
  ASSUME NEW o, Ordinary(control, workspaces, o), Returned(control, control'),
         \A f \in Frames : Generated(workspaces'[f], o),
         \A i \in 1..Len(control') : control'[i] = control[i] \/ Generated(control'[i].copy, o)
  PROVE  Ordinary(control', workspaces', o)
<1>1. /\ Len(control) \in Nat /\ Len(control') \in Nat /\ Len(control') <= Len(control)
      /\ SameBelow(control', control, Len(control'))
  BY DEF Returned
<1>2. AllEntered(control')
  BY <1>1, EnteredRemain DEF Ordinary
<1>3. OutputsStay(control', workspaces', o)
  BY <1>1, OutputsRemain DEF Ordinary
<1> QED
  BY <1>2, <1>3 DEF Ordinary

LEMMA AnonymousReturnsStep ==
  ASSUME SoundNow, NEW o, Ordinary(control, workspaces, o), AnonymousReturns
  PROVE  FramesStep(o)
<1>1. Running("anonymous") /\ control' = Front(control) /\ workspaces' = workspaces
  BY DEF AnonymousReturns
<1>2. /\ control # <<>> /\ Top = control[Len(control)] /\ Top.kind = "anonymous"
  BY <1>1, TopFacts DEF SoundNow
<1>3. Returned(control, control') /\ \A i \in 1..Len(control') : control'[i] = control[i]
  BY <1>1, <1>2, PoppedStack
<1>4. Ordinary(control', workspaces', o)
  <2>1. \A f \in Frames : Generated(workspaces'[f], o)
    BY <1>1 DEF Ordinary, OutputsStay
  <2> QED
    BY <1>3, <2>1, Returning
<1>5. ASSUME NEW f \in Frames
      PROVE  Seen(control', workspaces', f) = Seen(control, workspaces, f)
  <2>1. Len(control') > 0 => Len(control') \in 1..Len(control')
    BY <1>3 DEF Returned
  <2>2. ~(Len(control') > 0 /\ control'[Len(control')] # control[Len(control')])
    BY <1>3, <2>1
  <2>3. control[Len(control)].kind = "anonymous" /\ workspaces'[f] = workspaces[f] /\ IsSeq(control)
    BY <1>1, <1>2, SessionFacts
  <2> QED
    BY <1>3, <2>2, <2>3, SeenReturned
<1> QED
  BY <1>4, <1>5 DEF FramesStep

\* The last entry returned to the evaluation of its frame that entered it.
ReturnsTo(frame, copy) ==
    /\ Returned(control, control')
    /\ Len(control') \in Nat \ {0} /\ DOMAIN control' = 1..Len(control')
    /\ control'[Len(control')].kind = "evaluation"
    /\ control'[Len(control')].frame = frame
    /\ control'[Len(control')].copy = copy

LEMMA WritesBack ==
  ASSUME SoundNow, NEW kind, Running(kind), OnSame(control, Len(control), {"evaluation"}), NEW copy,
         control' = Append(Front(Front(control)), [control[Len(control) - 1] EXCEPT !.copy = copy])
  PROVE  ReturnsTo(Top.frame, copy)
<1>1. /\ Len(control) \in Nat \ {0} /\ Top = control[Len(control)]
  BY TopFacts DEF SoundNow
<1>2. /\ Len(control) > 1 /\ control[Len(control) - 1].kind = "evaluation"
      /\ control[Len(control) - 1].frame = Top.frame
  BY <1>1 DEF OnSame
<1>3. Returned(control, control') /\ control'[Len(control')].copy = copy
  BY <1>2, WrittenBackStack
<1>4. /\ IsSeq(control') /\ Len(control') = Len(control) - 1
      /\ SameBelow(control', control, Len(control'))
  BY <1>3 DEF Returned
<1>5. Len(control') \in Nat \ {0} /\ Len(control') \in 1..Len(control')
  BY <1>1, <1>2, <1>4
<1>6. Alike(control'[Len(control')], control[Len(control) - 1])
  BY <1>4, <1>5 DEF SameBelow
<1>7. DOMAIN control' = 1..Len(control')
  BY <1>4, Pushed
<1> QED
  BY <1>2, <1>3, <1>5, <1>6, <1>7 DEF ReturnsTo, Alike

\* All frames see what they saw when the copy is what the frame saw.
LEMMA ReturnsSeen ==
  ASSUME SoundNow, NEW kind, Running(kind), NEW copy, ReturnsTo(Top.frame, copy),
         Seen(control, workspaces, Top.frame) = copy,
         \A f \in Frames : f # Top.frame => workspaces'[f] = workspaces[f]
  PROVE  \A f \in Frames : Seen(control', workspaces', f) = Seen(control, workspaces, f)
<1> SUFFICES ASSUME NEW f \in Frames
             PROVE  Seen(control', workspaces', f) = Seen(control, workspaces, f)
  OBVIOUS
<1>1. CASE f = Top.frame
  <2>1. OnTop(control', f) /\ control'[Len(control')].kind = "evaluation"
        /\ control'[Len(control')].copy = copy
    BY <1>1 DEF ReturnsTo, OnTop
  <2>2. Seen(control', workspaces', f) =
          IF control'[Len(control')].kind = "evaluation" THEN control'[Len(control')].copy
          ELSE workspaces'[f]
    BY <2>1, SeenTop
  <2> QED
    BY <1>1, <2>1, <2>2
<1>2. CASE f # Top.frame
  <2>1. f # control[Len(control)].frame /\ workspaces'[f] = workspaces[f] /\ IsSeq(control)
    BY <1>2, TopFacts, SessionFacts DEF SoundNow
  <2>2. Returned(control, control') /\ control'[Len(control')].frame # f
    BY <1>2 DEF ReturnsTo
  <2> QED
    BY <2>1, <2>2, SeenReturned
<1> QED
  BY <1>1, <1>2

LEMMA WrittenBackOnly ==
  ASSUME NEW frame, NEW copy, ReturnsTo(frame, copy)
  PROVE  \A i \in 1..Len(control') : control'[i] = control[i] \/ control'[i].copy = copy
<1> SUFFICES ASSUME NEW i \in 1..Len(control'), i # Len(control') PROVE control'[i] = control[i]
  BY DEF ReturnsTo
<1>1. i \in 1..(Len(control') - 1)
  BY DEF ReturnsTo
<1> QED
  BY <1>1 DEF ReturnsTo, Returned

LEMMA DelegateReturnsStep ==
  ASSUME SoundNow, NEW o, Ordinary(control, workspaces, o), DelegateReturns
  PROVE  FramesStep(o)
<1> DEFINE copy == workspaces[Top.frame]
<1>1. /\ Running("delegated") /\ workspaces' = workspaces
      /\ control' = Append(Front(Front(control)), [control[Len(control) - 1] EXCEPT !.copy = copy])
  BY DEF DelegateReturns
<1>2. /\ Len(control) \in Nat \ {0} /\ Top = control[Len(control)] /\ Top.kind = "delegated"
  BY <1>1, TopFacts DEF SoundNow
<1>3. Top.frame \in Frames /\ Seen(control, workspaces, Top.frame) = copy
  BY <1>1, TopSees
<1>4. \A f \in Frames : Generated(workspaces'[f], o)
  BY <1>1 DEF Ordinary, OutputsStay
<1>5. Generated(copy, o)
  BY <1>1, <1>3, <1>4
<1> HIDE DEF copy
<1>6. OnSame(control, Len(control), {"evaluation"})
  <2>1. Len(control) \in 1..Len(control)
    BY <1>2
  <2> QED
    BY <1>2, <2>1 DEF Ordinary, AllEntered, Entered
<1>7. ReturnsTo(Top.frame, copy)
  BY <1>1, <1>6, WritesBack
<1>8. \A i \in 1..Len(control') : control'[i] = control[i] \/ Generated(control'[i].copy, o)
  BY <1>5, <1>7, WrittenBackOnly
<1>9. Returned(control, control')
  BY <1>7 DEF ReturnsTo
<1>10. Ordinary(control', workspaces', o)
  BY <1>4, <1>8, <1>9, Returning
<1>11. \A f \in Frames : Seen(control', workspaces', f) = Seen(control, workspaces, f)
  BY <1>1, <1>3, <1>7, ReturnsSeen
<1> QED
  BY <1>10, <1>11 DEF FramesStep

LEMMA RestoredGenerated ==
  ASSUME NEW o \in {None, Plain}, NEW workspace \in Workspace, Generated(workspace, o), NEW original
  PROVE  Generated(RestoreUnsafe(workspace, original), o)
<1>1. "output_0" \in DOMAIN workspace /\ "output_1" \in DOMAIN workspace
  BY DEF Workspace, Names, WrittenBack, GeneratedNames, ToSet
<1>2. None.kind = "none" /\ Plain.kind = "plain" /\ "none" # "handle" /\ "none" # "object"
      /\ "plain" # "handle" /\ "plain" # "object"
  BY DEF None, Plain
<1>3. Contexts(None) = {} /\ Contexts(Plain) = {}
  BY <1>2 DEF Contexts
<1>4. ~UnsafeHandle(None, Top.allowed) /\ ~UnsafeHandle(Plain, Top.allowed)
  BY <1>3 DEF UnsafeHandle
<1> QED
  BY <1>1, <1>4 DEF RestoreUnsafe, Generated

LEMMA RestoredSafe ==
  ASSUME NEW workspace \in Workspace, NEW original,
         \A value \in Values(workspace) : ~UnsafeHandle(value, Top.allowed)
  PROVE  RestoreUnsafe(workspace, original) = workspace
<1>1. \A name \in DOMAIN workspace : ~UnsafeHandle(workspace[name], Top.allowed)
  BY DEF Values
<1>2. workspace = [name \in DOMAIN workspace |-> workspace[name]]
  BY DEF Workspace
<1> QED
  BY <1>1, <1>2 DEF RestoreUnsafe

\* An output has no value in the copy: taking it out changes nothing.
LEMMA OutputTaken ==
  ASSUME NEW o, NEW copy \in Workspace, Generated(copy, o), NEW output \in Outputs(o)
  PROVE  (IF output = "none" THEN copy ELSE [copy EXCEPT ![output] = None]) = copy
<1>1. CASE output = "none"
  BY <1>1
<1>2. CASE output # "none"
  <2>1. output = "output_1" \/ (output = "output_0" /\ o = None)
    BY <1>2 DEF Outputs
  <2>2. copy[output] = None
    BY <2>1 DEF Generated
  <2>3. [copy EXCEPT ![output] = None] = copy
    BY <2>2 DEF Workspace
  <2> QED
    BY <2>3
<1> QED
  BY <1>1, <1>2

\* The entry under an evaluation that is not given its caller's copy.
LEMMA UncoveredSees ==
  ASSUME SoundNow, NEW o, Ordinary(control, workspaces, o), Running("evaluation"), ~Top.below,
         NEW d, Returned(control, d), \A i \in 1..Len(d) : d[i] = control[i], NEW w
  PROVE  Seen(d, w, Top.frame) = w[Top.frame]
<1> DEFINE n == Len(control)
<1>1. /\ n \in Nat \ {0} /\ Top = control[n] /\ Top.kind = "evaluation"
      /\ Len(d) = n - 1 /\ DOMAIN d = 1..Len(d)
      /\ \A i \in 1..n : Order(control, i) /\ control[i].frame \in Frames
  <2>1. n \in Nat \ {0} /\ Top = control[n] /\ Top.kind = "evaluation"
    BY TopFacts DEF SoundNow
  <2>2. IsSeq(d) /\ Len(d) = n - 1
    BY DEF Returned
  <2>3. DOMAIN d = 1..Len(d)
    BY <2>2, Pushed
  <2>4. \A i \in 1..n : Order(control, i) /\ control[i].frame \in Frames
    BY DEF SoundNow, Sound, EntryTypes
  <2> QED
    BY <2>1, <2>2, <2>3, <2>4
<1>2. n > 1 => OnSame(control, n, {"delegated"}) \/ Top.frame < control[n - 1].frame
  <2>1. Entered(control, n)
    BY <1>1 DEF Ordinary, AllEntered
  <2> QED
    BY <1>1, <2>1 DEF Entered
<1>3. \A i \in 1..(n - 1) : d[i] = control[i]
  BY <1>1
<1> HIDE DEF n
<1>4. CASE n > 1 /\ OnSame(control, n, {"delegated"})
  <2>1. /\ Len(d) \in Nat \ {0} /\ d[Len(d)] = control[n - 1]
        /\ control[n - 1].kind = "delegated" /\ control[n - 1].frame = Top.frame
    BY <1>1, <1>3, <1>4 DEF OnSame
  <2>2. OnTop(d, Top.frame) /\ d[Len(d)].kind # "evaluation"
    BY <1>1, <2>1 DEF OnTop
  <2>3. Seen(d, w, Top.frame) = IF d[Len(d)].kind = "evaluation" THEN d[Len(d)].copy ELSE w[Top.frame]
    BY <2>2, SeenTop
  <2> QED
    BY <2>2, <2>3
<1>5. CASE ~(n > 1) \/ Top.frame < control[n - 1].frame
  <2>1. ASSUME NEW i \in 1..Len(d) PROVE d[i].frame # Top.frame
    <3>1. /\ n > 1 /\ i \in 1..(n - 1) /\ n - 1 \in 1..n /\ d[i] = control[i] /\ i \in 1..n
      BY <1>1, <1>3
    <3>2. /\ control[n - 1].frame <= control[i].frame /\ Top.frame < control[n - 1].frame
          /\ control[i].frame \in Frames /\ control[n - 1].frame \in Frames
      BY <1>1, <1>5, <3>1 DEF Order
    <3>3. Top.frame \in Frames
      BY <1>1
    <3> QED
      BY <3>1, <3>2, <3>3 DEF Frames, Base, Function
  <2>2. Nowhere(d, Top.frame)
    BY <1>1, <2>1 DEF Nowhere
  <2> QED
    BY <2>2, SeenNowhere
<1> QED
  BY <1>2, <1>4, <1>5

LEMMA FinishEvaluationStep ==
  ASSUME SoundNow, NEW o \in {None, Plain}, Ordinary(control, workspaces, o), FinishEvaluation
  PROVE  FramesStep(o)
<1>1. Running("evaluation")
  BY DEF FinishEvaluation
<1>2. /\ control # <<>> /\ Len(control) \in Nat \ {0} /\ Top = control[Len(control)]
      /\ Top.kind = "evaluation" /\ Top.frame \in Frames
      /\ Order(control, Len(control))
      /\ workspaces \in [Frames -> Workspace]
      /\ \A f \in Frames : Generated(workspaces[f], o)
      /\ Seen(control, workspaces, Top.frame) = Top.copy
      /\ Top.copy \in Workspace /\ Generated(Top.copy, o) /\ Top.output \in Outputs(o)
  BY <1>1, TopFacts, TopSees, TopGenerated, SessionFacts DEF SoundNow, Typed, Ordinary, OutputsStay
<1> DEFINE updated == IF Top.output = "none" THEN Top.copy ELSE [Top.copy EXCEPT ![Top.output] = None]
           ancestors == [m \in Frames |-> IF m \in OuterFrames(Top.frame)
                                          THEN RestoreUnsafe(workspaces[m], Top.borrowed[m])
                                          ELSE workspaces[m]]
           restored == RestoreUnsafe(updated, Top.original)
<1>3. /\ \A value \in HeldForEvaluation(updated, Top.frame) :
           ~reported' => ~UnsafeHandle(value, Top.allowed)
      /\ IF Top.below
         THEN /\ control' = Append(Front(Front(control)),
                              [control[Len(control) - 1] EXCEPT !.copy = restored])
              /\ workspaces' = ancestors
         ELSE /\ control' = Front(control)
              /\ workspaces' = [ancestors EXCEPT ![Top.frame] = restored]
  BY DEF FinishEvaluation
<1>4. updated = Top.copy
  BY <1>2, OutputTaken
<1> HIDE DEF updated
<1>5. Generated(restored, o)
  BY <1>2, <1>4, RestoredGenerated
<1>6. /\ ancestors = [m \in Frames |-> ancestors[m]]
      /\ \A m \in Frames : \/ ancestors[m] = workspaces[m]
                           \/ /\ ancestors[m] = RestoreUnsafe(workspaces[m], Top.borrowed[m])
                              /\ m \in OuterFrames(Top.frame)
  OBVIOUS
<1>7. ASSUME ~reported'
      PROVE  restored = Top.copy /\ ancestors = workspaces
  <2>1. \A value \in Values(Top.copy) : ~UnsafeHandle(value, Top.allowed)
    BY <1>3, <1>4, <1>7 DEF HeldForEvaluation, HeldInWorkspaces
  <2>2. restored = Top.copy
    BY <1>2, <1>4, <2>1, RestoredSafe
  <2>3. ASSUME NEW m \in OuterFrames(Top.frame)
        PROVE  \A value \in Values(workspaces[m]) : ~UnsafeHandle(value, Top.allowed)
    BY <1>3, <1>7 DEF HeldForEvaluation, HeldInWorkspaces
  <2> HIDE DEF restored, ancestors
  <2>4. ASSUME NEW m \in Frames PROVE ancestors[m] = workspaces[m]
    <3>1. CASE m \in OuterFrames(Top.frame) /\ ancestors[m] = RestoreUnsafe(workspaces[m], Top.borrowed[m])
      <4>1. workspaces[m] \in Workspace
        BY <1>2
      <4>2. RestoreUnsafe(workspaces[m], Top.borrowed[m]) = workspaces[m]
        BY <2>3, <3>1, <4>1, RestoredSafe
      <4> QED
        BY <3>1, <4>2
    <3> QED
      BY <1>6, <3>1
  <2>5. workspaces = [m \in Frames |-> workspaces[m]]
    BY <1>2
  <2>6. ancestors = workspaces
    BY <1>6, <2>4, <2>5
  <2> QED
    BY <2>2, <2>6
<1> HIDE DEF restored, ancestors
<1>8. \A m \in Frames : Generated(ancestors[m], o)
  <2> SUFFICES ASSUME NEW m \in Frames PROVE Generated(ancestors[m], o)
    OBVIOUS
  <2>1. workspaces[m] \in Workspace /\ Generated(workspaces[m], o)
    BY <1>2
  <2>2. Generated(RestoreUnsafe(workspaces[m], Top.borrowed[m]), o)
    BY <2>1, RestoredGenerated
  <2> QED
    BY <1>6, <2>1, <2>2
<1>9. CASE Top.below
  <2>1. /\ control' = Append(Front(Front(control)), [control[Len(control) - 1] EXCEPT !.copy = restored])
        /\ workspaces' = ancestors
    BY <1>3, <1>9
  <2>2. OnSame(control, Len(control), {"evaluation"})
    BY <1>2, <1>9 DEF Order
  <2>3. ReturnsTo(Top.frame, restored)
    BY <1>1, <2>1, <2>2, WritesBack
  <2>4. \A i \in 1..Len(control') : control'[i] = control[i] \/ Generated(control'[i].copy, o)
    BY <1>5, <2>3, WrittenBackOnly
  <2>5. Returned(control, control')
    BY <2>3 DEF ReturnsTo
  <2>6. Ordinary(control', workspaces', o)
    BY <1>8, <2>1, <2>4, <2>5, Returning
  <2>7. ASSUME ~reported'
        PROVE  \A f \in Frames : Seen(control', workspaces', f) = Seen(control, workspaces, f)
    <3>1. workspaces' = workspaces /\ ReturnsTo(Top.frame, Top.copy)
      BY <1>7, <2>1, <2>3, <2>7
    <3> QED
      BY <1>1, <1>2, <3>1, ReturnsSeen
  <2> QED
    BY <2>6, <2>7 DEF FramesStep
<1>10. CASE ~Top.below
  <2>1. control' = Front(control) /\ workspaces' = [ancestors EXCEPT ![Top.frame] = restored]
    BY <1>3, <1>10
  <2>2. Returned(control, control') /\ \A i \in 1..Len(control') : control'[i] = control[i]
    BY <1>2, <2>1, PoppedStack
  <2>3. /\ workspaces'[Top.frame] = restored
        /\ \A f \in Frames : f # Top.frame => workspaces'[f] = ancestors[f]
    BY <1>2, <1>6, <2>1
  <2>4. \A f \in Frames : Generated(workspaces'[f], o)
    BY <1>5, <1>8, <2>3
  <2>5. Ordinary(control', workspaces', o)
    BY <2>2, <2>4, Returning
  <2>6. ASSUME ~reported', NEW f \in Frames
        PROVE  Seen(control', workspaces', f) = Seen(control, workspaces, f)
    <3>1. CASE f = Top.frame
      <4>1. Seen(control', workspaces', Top.frame) = workspaces'[Top.frame]
        BY <1>1, <1>10, <2>2, UncoveredSees
      <4> QED
        BY <1>2, <1>7, <2>3, <2>6, <3>1, <4>1
    <3>2. CASE f # Top.frame
      <4>1. /\ workspaces'[f] = workspaces[f] /\ f # control[Len(control)].frame
            /\ IsSeq(control)
        BY <1>2, <1>7, <2>3, <2>6, <3>2, SessionFacts
      <4>2. Len(control') > 0 => Len(control') \in 1..Len(control')
        BY <2>2 DEF Returned
      <4>3. ~(Len(control') > 0 /\ control'[Len(control')] # control[Len(control')])
        BY <2>2, <4>2
      <4> QED
        BY <2>2, <4>1, <4>3, SeenReturned
    <3> QED
      BY <3>1, <3>2
  <2> QED
    BY <2>5, <2>6 DEF FramesStep
<1> QED
  BY <1>9, <1>10

-----------------------------------------------------------------------------
\* What FramesKeptAcrossCalls says of one step.
KeptOrReported ==
    Len(control') # Len(control) /\ ~reported'
      => \A frame \in Frames : Visible(frame)' = Visible(frame)

LEMMA InitiallyOrdinary == EvaluationInit => FramesInv
<1> SUFFICES ASSUME EvaluationInit PROVE FramesInv
  OBVIOUS
<1>1. PICK x \in {None, Object, Handle(ParentContext)}, o \in {None, Plain} :
        workspaces = [frame \in Frames |->
          [name \in Names |-> CASE name = "x" /\ frame = Function -> x
                                [] name = "y" /\ frame = Base -> Plain
                                [] name = "output_0" -> o
                                [] OTHER -> None]]
  BY DEF EvaluationInit
<1>2. control = <<>> /\ Len(control) = 0
  BY DEF EvaluationInit
<1>3. "output_0" \in Names /\ "output_1" \in Names
  BY DEF Names, GeneratedNames, ToSet
<1>4. \A f \in Frames : workspaces[f]["output_0"] = o /\ workspaces[f]["output_1"] = None
  BY <1>1, <1>3
<1>5. OutputsStay(control, workspaces, o)
  BY <1>2, <1>4 DEF OutputsStay, Generated
<1>6. AllEntered(control)
  BY <1>2 DEF AllEntered
<1> QED
  BY <1>5, <1>6 DEF FramesInv, Ordinary

LEMMA VisibleSeen == \A frame : Visible(frame) = Seen(control, workspaces, frame)
BY DEF Visible, Seen

LEMMA VisibleSeenNext == \A frame : Visible(frame)' = Seen(control', workspaces', frame)
BY DEF Visible, Seen

LEMMA OrdinaryStep ==
  ASSUME ~AnonymousDelegates, EvaluationInv, FramesInv, [EvaluationNext]_evaluationVars
  PROVE  FramesInv' /\ [KeptOrReported]_evaluationVars
<1>1. PICK o \in {None, Plain} : Ordinary(control, workspaces, o)
  BY DEF FramesInv
<1>2. SoundNow
  BY DEF EvaluationInv, SoundNow
<1>3. SUFFICES Ordinary(control', workspaces', o) /\ [KeptOrReported]_evaluationVars
  BY DEF FramesInv
<1>4. CASE UNCHANGED evaluationVars
  <2>1. control' = control /\ workspaces' = workspaces
    BY <1>4 DEF evaluationVars
  <2> QED
    BY <1>1, <1>4, <2>1
<1>5. ASSUME FramesStep(o) PROVE Ordinary(control', workspaces', o) /\ KeptOrReported
  BY <1>5, VisibleSeen, VisibleSeenNext DEF FramesStep, KeptOrReported
<1>6. CASE StoreVariable \/ AssignIn \/ StoreField \/ Declare \/ DelegatedStore
  <2>1. Ordinary(control', workspaces', o) /\ Len(control') = Len(control)
    BY <1>1, <1>2, <1>6, StoresAre, StoringIsOrdinary
  <2> QED
    BY <2>1 DEF KeptOrReported
<1>7. CASE StartEvaluation
  BY <1>1, <1>2, <1>5, <1>7, StartEvaluationStep
<1>8. CASE CallAnonymous
  BY <1>1, <1>2, <1>5, <1>8, CallAnonymousStep
<1>9. CASE Delegate
  BY <1>1, <1>2, <1>5, <1>9, DelegateStep
<1>10. CASE DelegateReturns
  BY <1>1, <1>2, <1>5, <1>10, DelegateReturnsStep
<1>11. CASE AnonymousReturns
  BY <1>1, <1>2, <1>5, <1>11, AnonymousReturnsStep
<1>12. CASE FinishEvaluation
  BY <1>1, <1>2, <1>5, <1>12, FinishEvaluationStep
<1> QED
  BY <1>4, <1>6, <1>7, <1>8, <1>9, <1>10, <1>11, <1>12 DEF EvaluationNext

\* While anonymous functions of evaluated code do not call back, entering and
\* leaving evaluated code and delegated calls changes no variable any frame
\* sees unless an escape is reported (docs/architecture.md, "synchronizes").
THEOREM FramesStay == ~AnonymousDelegates => (EvaluationSpec => FramesKeptAcrossCalls)
<1> SUFFICES ASSUME ~AnonymousDelegates PROVE EvaluationSpec => FramesKeptAcrossCalls
  OBVIOUS
<1>1. EvaluationInv /\ FramesInv /\ [EvaluationNext]_evaluationVars => FramesInv'
  BY OrdinaryStep
<1>2. EvaluationInv /\ FramesInv /\ [EvaluationNext]_evaluationVars => [KeptOrReported]_evaluationVars
  BY OrdinaryStep
<1>3. EvaluationSpec => [][KeptOrReported]_evaluationVars
  BY <1>1, <1>2, EvaluationInvariance, InitiallyOrdinary, PTL DEF EvaluationSpec
<1> QED
  BY <1>3, PTL DEF FramesKeptAcrossCalls, KeptOrReported
=============================================================================
