---------------------------- MODULE MCTypedRegion ----------------------------
(***************************************************************************)
(* Loops of one or two statements over the names below, and the values     *)
(* they may find.                                                          *)
(***************************************************************************)
EXTENDS TypedRegion

Lit(n) == [k |-> "lit", n |-> n]
Var(name) == [k |-> "var", name |-> name]
Op(name, left, right) == [k |-> "op", name |-> name, left |-> left, right |-> right]
At(name, left) == [k |-> "at", name |-> name, left |-> left]
Calls(name, left) == [k |-> "call", name |-> name, left |-> left]
Set(name, value) == [k |-> "set", name |-> name, value |-> value]
SetAt(name, index, value) == [k |-> "setAt", name |-> name, index |-> index, value |-> value]
If(cond, then, else) == [k |-> "if", cond |-> cond, then |-> then, else |-> else]
For(name, from, to, body) ==
  [k |-> "for", name |-> name, single |-> FALSE, from |-> from, to |-> to, body |-> body]
ForOne(name, over, body) ==
  [k |-> "for", name |-> name, single |-> TRUE, from |-> over, to |-> over, body |-> body]

Statements ==
  <<Set("x", Op("-", Var("x"), Lit(1))),
   Set("x", Op("-", Var("i"), Var("y"))),
   Set("y", Op("<", Var("x"), Lit(2))),
   Set("x", Calls("sqrt", Var("x"))),
   Set("y", Calls("f", Var("x"))),
   Set("x", At("a", Var("i"))),
   SetAt("a", Var("i"), Op("-", Var("x"), Var("i"))),
   If(Op("<", Var("i"), Lit(2)), <<Set("y", Lit(0))>>, <<>>),
   If(Op("<", Var("x"), Var("y")), <<Set("x", Var("i"))>>, <<SetAt("a", Lit(2), Lit(9))>>),
   For("j", Lit(1), Var("x"), <<Set("y", Op("-", Var("y"), Var("j")))>>),
   ForOne("j", Var("x"), <<If(Op("<", Var("j"), Lit(1)), <<Set("y", Var("j"))>>, <<>>)>>),
   Set("i", Op("-", Var("i"), Lit(2))),
   Set("x", Var("j")),
   Set("x", [k |-> "text"])>>

(* One statement or two.   *)
MCLoops ==
  LET count == Len(Statements)
      Body(n) == LET second == n \div count
                 IN <<Statements[(n % count) + 1]>>
                    \o IF second = 0 THEN <<>> ELSE <<Statements[second]>>
  IN {Analysed([variable |-> "i", body |-> Body(n)]) : n \in 0 .. count * (count + 1) - 1}

(* A number that is not there is a condition nowhere but here.              *)
MCConditions ==
  {Analysed([variable |-> "i", body |-> <<If(Var("x"), <<Set("y", Lit(0))>>, <<>>)>>])}

Two == [kind |-> "array", class |-> "double", elements |-> <<1, 2>>]
Usual == [x |-> Double(4), y |-> Double(1), a |-> Two]
With(name, value) == Bind(Usual, name, value)
Without(name) == [n \in DOMAIN Usual \ {name} |-> Usual[n]]

MCWorkspaces ==
  {Usual, With("x", Double(1)), With("x", Double(NaN)), With("x", Logical(TRUE)),
   With("x", Text), With("x", Complex), With("x", Two), With("y", Double(NaN)), With("y", Two),
   With("a", Double(5)), With("j", Double(7)), With("f", Two), With("i", Text),
   With("sqrt", Two), Without("x"), Without("y"), Without("a")}

MCLoopRanges ==
  {Two, Double(2), Logical(TRUE), Text,
   [kind |-> "array", class |-> "double", elements |-> <<>>]}

=============================================================================
