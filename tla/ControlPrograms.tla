--------------------------- MODULE ControlPrograms ---------------------------
(* Families of control-flow programs the checks run over, indexed so that a
   state names a program by a number.                                       *)
EXTENDS BytecodeVerifier

Set == Leaf("set")

(* The construct number i around leaf or statement s.                       *)
Constructs == 6
Around(i, s) ==
  CASE i = 1 -> For(<<s>>)
    [] i = 2 -> While(<<s>>)
    [] i = 3 -> Switch(<<Arm("case", <<s>>), Arm("otherwise", <<Set>>)>>)
    [] i = 4 -> Try(<<s>>, <<Set>>)
    [] i = 5 -> Try(<<Leaf("path")>>, <<s>>)
    [] i = 6 -> If(<<Arm("then", <<s>>), Arm("else", <<Leaf("sum")>>)>>)

Leaves0 == <<"set", "sum", "call", "path", "lambda", "break", "continue", "return">>

(* Bodies of the local function.                                            *)
Functions0 ==
  <<<<For(<<Try(<<Set, Leaf("return")>>, <<Leaf("continue")>>)>>)>>,
    <<Try(<<Switch(<<Arm("case", <<Leaf("sum")>>)>>)>>, <<Leaf("return")>>), Set>>>>

(* Three nested constructs would triple the depth without a new interaction
   of brackets: two around a leaf, every leaf, every function body.         *)
TreeCount == Constructs * Constructs * Len(Leaves0) * Len(Functions0)

Digit(i, place, base) == (((i - 1) \div place) % base) + 1

Main(i) ==
  LET leaf == Leaf(Leaves0[Digit(i, 1, 8)])
  IN <<Around(Digit(i, 48, 6), Around(Digit(i, 8, 6), leaf)), Set>>

FunctionBody(i) == Functions0[Digit(i, 288, 2)]

-----------------------------------------------------------------------------
(* Programs no lowering produces: a lowered one with one target changed, or  *)
(* one instruction replaced by an operand-neutral transfer.                  *)

Case(body) == Arm("case", body)

Bases ==
  <<Lower(<<For(<<Try(<<Leaf("path")>>, <<Leaf("continue")>>)>>), Set>>, <<Set>>),
    Lower(<<While(<<Switch(<<Case(<<Leaf("break")>>), Case(<<Set>>)>>)>>)>>,
          <<For(<<Set, Leaf("return")>>)>>),
    Lower(<<Try(<<For(<<Switch(<<Case(<<Leaf("break")>>)>>)>>)>>, <<Leaf("call")>>)>>,
          <<Try(<<Set, Leaf("return")>>, <<Set>>)>>),
    Lower(<<For(<<For(<<Leaf("set")>>), Leaf("break")>>), Leaf("lambda"), Set>>, <<Set>>)>>

Replacements == {"Jump", "Break", "Continue", "Return", "TryEnd", "ForNext"}

(* A program is named by its change; the lowered ones have no base.          *)
Change(b, pc, op, target) == [base |-> b, pc |-> pc, op |-> op, target |-> target]
With(b, ops) == {pc \in DOMAIN Bases[b] : Bases[b][pc].op \in ops}

Retargeted(b) ==
  {Change(b, pc, Bases[b][pc].op, target) :
     pc \in With(b, Targeted), target \in 1 .. Len(Bases[b]) + 1}

Replaced(b) ==
  {Change(b, pc, op, IF op = "Return" THEN NoTarget ELSE target) :
     pc \in With(b, Replacements \cup {"SwitchEnd", "BeginIndexArgument"}),
     op \in Replacements, target \in 1 .. Len(Bases[b]) + 1}

Changes == UNION {Retargeted(b) \cup Replaced(b) : b \in DOMAIN Bases}

Tampered(k) ==
  [Bases[k.base] EXCEPT ![k.pc] = [EmitTo(k.op, k.target) EXCEPT
                                     !.event = Bases[k.base][k.pc].event]]

Original(i) == Change(0, i, "none", NoTarget)

Unchanged == {Original(i) : i \in 1 .. TreeCount}

FirstProgram == Original(1)

AllPrograms ==
  [k \in Unchanged \cup Changes |->
     Prepare(IF k.base = 0 THEN Lower(Main(k.pc), FunctionBody(k.pc)) ELSE Tampered(k))]

-----------------------------------------------------------------------------
(* The sources both engines are compared on, and one they disagree about.    *)

Compared == {"set", "call", "lambda", "break", "continue", "return"}

AgreementTrees ==
  [k \in {Original(i) : i \in {j \in 1 .. TreeCount :
            FunctionBody(j) = Functions0[1] /\ Leaves0[Digit(j, 1, 8)] \in Compared}} |->
     [main |-> Main(k.pc), function |-> FunctionBody(k.pc)]]

ShortCircuitTrees == <<[main |-> <<Leaf("and")>>, function |-> <<Set>>]>>

ShortCircuitPrepared ==
  [i \in DOMAIN ShortCircuitTrees |->
     Prepare(Lower(ShortCircuitTrees[i].main, ShortCircuitTrees[i].function))]

=============================================================================
