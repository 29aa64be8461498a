---------------------------- MODULE LoopContract ----------------------------
(***************************************************************************)
(* What a for loop over numbers means, read off its syntax tree.  Whatever *)
(* runs the loop takes one step from the values before it to these.        *)
(*                                                                         *)
(* A value is [kind, class, elements]: a "number" (1x1), an "array", a     *)
(* "complex" number whose parts are left out, or "text".                   *)
(***************************************************************************)
EXTENDS Integers, SequencesExt, FiniteSetsExt, TLC

NaN == 1000   \* no program counts that far

Double(v) == [kind |-> "number", class |-> "double", elements |-> <<v>>]
Logical(b) == [kind |-> "number", class |-> "logical", elements |-> <<IF b THEN 1 ELSE 0>>]
Array(elements) == [kind |-> "array", class |-> "double", elements |-> elements]
Complex == [kind |-> "complex", class |-> "double", elements |-> <<0>>]
Text == [kind |-> "text", class |-> "char", elements |-> <<>>]

IsDouble(value) == value.kind = "number" /\ value.class = "double"
Scalar(value) == value.elements[1]

SubtractReal(a, b) == IF NaN \in {a, b} THEN NaN ELSE a - b
LessReal(a, b) == NaN \notin {a, b} /\ a < b
RootReal(a) == IF a = NaN THEN NaN ELSE CHOOSE r \in 0 .. a : r * r <= a /\ (r + 1) * (r + 1) > a

Failed == [kind |-> "failed"]

-----------------------------------------------------------------------------
(* Operations on values.                                                    *)

(* An operation on each element, a number standing for as many as needed.   *)
Elementwise(a, b, class, Op(_, _)) ==
  LET Make(elements) == [kind |-> IF Len(elements) = 1 THEN "number" ELSE "array",
                         class |-> class, elements |-> elements]
      Element(value, i) == IF Len(value.elements) = 1 THEN Scalar(value) ELSE value.elements[i]
      size == IF Len(a.elements) = 1 THEN Len(b.elements) ELSE Len(a.elements)
  IN IF Len(b.elements) \notin {1, size} THEN Failed
     ELSE Make([i \in 1 .. size |-> Op(Element(a, i), Element(b, i))])

Bit(b) == IF b THEN 1 ELSE 0
LessBit(a, b) == Bit(LessReal(a, b))

Subtract(a, b) ==
  CASE "text" \in {a.kind, b.kind} -> Failed
    [] "complex" \in {a.kind, b.kind} -> Complex
    [] OTHER -> Elementwise(a, b, "double", SubtractReal)

LessThan(a, b) ==
  IF {"text", "complex"} \cap {a.kind, b.kind} # {} THEN Failed
  ELSE Elementwise(a, b, "logical", LessBit)

SquareRoot(a) ==
  CASE a.kind = "text" -> Failed
    [] a.kind = "complex" \/ \E x \in ToSet(a.elements) : x < 0 -> Complex
    [] OTHER -> [a EXCEPT !.class = "double", !.elements = [i \in DOMAIN @ |-> RootReal(@[i])]]

ElementAt(a, index) ==
  IF a.kind \in {"array", "number"} /\ index.kind = "number"
     /\ Scalar(index) \in DOMAIN a.elements
  THEN [kind |-> "number", class |-> a.class, elements |-> <<a.elements[Scalar(index)]>>]
  ELSE Failed

(* Assignment behind the end fills with zeros.                              *)
PutElement(a, index, value) ==
  LET i == Scalar(index)
      size == IF i > Len(a.elements) THEN i ELSE Len(a.elements)
  IN IF a.kind \notin {"array", "number"} \/ index.kind # "number" \/ value.kind # "number"
        \/ i < 1 \/ i = NaN
     THEN Failed
     ELSE [kind |-> IF size = 1 THEN "number" ELSE "array", class |-> a.class,
           elements |-> [j \in 1 .. size |-> IF j = i THEN Scalar(value)
                           ELSE IF j \in DOMAIN a.elements THEN a.elements[j] ELSE 0]]

ColonRange(from, to) ==
  IF {from.kind, to.kind} # {"number"} THEN Failed
  ELSE LET a == Scalar(from)
           b == Scalar(to)
           elements == IF NaN \in {a, b} THEN <<NaN>>
                       ELSE IF b < a THEN <<>> ELSE [i \in 1 .. b - a + 1 |-> a + i - 1]
       IN [kind |-> IF Len(elements) = 1 THEN "number" ELSE "array", class |-> "double",
           elements |-> elements]

(* The values a loop takes; a number is one column.                         *)
Columns(value) == [i \in DOMAIN value.elements |-> [kind |-> "number", class |-> value.class,
                                                    elements |-> <<value.elements[i]>>]]

(* The first element that is zero or NaN decides.                           *)
Truth(value) ==
  LET deciding == {i \in DOMAIN value.elements : value.elements[i] \in {0, NaN}}
  IN CASE value.kind \notin {"number", "array"} -> "failed"
       [] deciding = {} -> IF value.elements = <<>> THEN "false" ELSE "true"
       [] OTHER -> IF value.elements[Min(deciding)] = 0 THEN "false" ELSE "failed"

Bind(workspace, name, value) ==
  (name :> value) @@ workspace

-----------------------------------------------------------------------------
(* Expressions and statements; a failure keeps what was stored before it.   *)

RECURSIVE Value(_, _, _)
Value(e, workspace, limited) ==
  CASE e.k = "lit"  -> Double(e.n)
    [] e.k = "text" -> Text
    [] e.k = "var"  -> IF e.name \in DOMAIN workspace THEN workspace[e.name] ELSE Failed
    [] e.k = "op"   ->
         LET left == Value(e.left, workspace, limited)
             right == Value(e.right, workspace, limited)
         IN IF Failed \in {left, right} THEN Failed
            ELSE IF e.name = "-" THEN Subtract(left, right) ELSE LessThan(left, right)
    [] e.k = "at"   ->
         LET index == Value(e.left, workspace, limited)
         IN IF e.name \notin DOMAIN workspace \/ index = Failed THEN Failed
            ELSE ElementAt(workspace[e.name], index)
    [] e.k = "call" ->
         LET argument == Value(e.left, workspace, limited)
         IN CASE argument = Failed -> Failed
              [] e.name \in DOMAIN workspace -> ElementAt(workspace[e.name], argument)
              [] e.name = "sqrt" -> SquareRoot(argument)
              [] limited -> Failed
              [] OTHER -> LET less == Subtract(argument, Double(1))
                          IN IF less = Failed THEN Failed ELSE SquareRoot(less)

Ran(workspace) == [failed |-> FALSE, workspace |-> workspace]

RECURSIVE Run(_, _, _), RunOver(_, _, _, _, _)
RunStatement(s, workspace, limited) ==
  LET Fail == [failed |-> TRUE, workspace |-> workspace]
  IN CASE s.k = "set" ->
            LET value == Value(s.value, workspace, limited)
            IN IF value = Failed THEN Fail ELSE Ran(Bind(workspace, s.name, value))
       [] s.k = "setAt" ->
            LET value == Value(s.value, workspace, limited)
                index == Value(s.index, workspace, limited)
            IN IF s.name \notin DOMAIN workspace \/ Failed \in {value, index} THEN Fail
               ELSE LET put == PutElement(workspace[s.name], index, value)
                    IN IF put = Failed THEN Fail ELSE Ran(Bind(workspace, s.name, put))
       [] s.k = "if" ->
            LET cond == Value(s.cond, workspace, limited)
            IN CASE cond = Failed -> Fail
                 [] Truth(cond) = "failed" -> Fail
                 [] Truth(cond) = "true" -> Run(s.then, workspace, limited)
                 [] OTHER -> Run(s.else, workspace, limited)
       [] s.k = "for" ->
            LET from == Value(s.from, workspace, limited)
                over == IF s.single \/ from = Failed THEN from
                        ELSE ColonRange(from, Value(s.to, workspace, limited))
            IN IF over.kind \notin {"number", "array"} THEN Fail
               ELSE RunOver(s.name, Columns(over), s.body, workspace, limited)

Run(body, workspace, limited) ==
  LET Then(done, s) == IF done.failed THEN done ELSE RunStatement(s, done.workspace, limited)
  IN FoldLeft(Then, Ran(workspace), body)

RunOver(variable, values, body, workspace, limited) ==
  LET Then(done, value) ==
        IF done.failed THEN done ELSE Run(body, Bind(done.workspace, variable, value), limited)
  IN FoldLeft(Then, Ran(workspace), values)

=============================================================================
