-------------------------- MODULE ControlInterpreter --------------------------
(***************************************************************************)
(* The reference interpreter's walk over the HIR                           *)
(* (src/mparser/execution/interpreter.cpp), driven by the outcomes another *)
(* engine met: Interpret(source, answers) follows `answers`, a sequence of *)
(* <<event, outcome>>, and is `diverged` when it asks for another event.   *)
(* Diagnostics, the trap of the enclosing try and the pending control      *)
(* signal are carried in the state s; s.value is the last value, Raise     *)
(* standing for the missing value a failed evaluation leaves.              *)
(***************************************************************************)
EXTENDS ControlLowering

Start(source, answers) ==
  [source |-> source, answers |-> answers, asked |-> 0, diverged |-> FALSE,
   diagnostics |-> <<>>, trapBase |-> 0, signal |-> "None",
   caught |-> NoEvent, value |-> 1]

AddDiagnostic(s, d) == [s EXCEPT !.diagnostics = Append(@, d), !.value = Raise]

(* diagnosticTrapTriggered; a walk that diverged is not followed further.   *)
Trapped(s) == s.diverged \/ Len(s.diagnostics) > s.trapBase
Interrupted(s) == Trapped(s) \/ s.signal # "None"

Ask(s, event) ==
  LET n == s.asked + 1
  IN IF s.diverged \/ n > Len(s.answers) \/ s.answers[n][1] # event
     THEN [s EXCEPT !.diverged = TRUE, !.value = Raise]
     ELSE LET known == [s EXCEPT !.asked = n, !.value = s.answers[n][2]]
          IN IF known.value = Raise THEN AddDiagnostic(known, event) ELSE known

-----------------------------------------------------------------------------
(* Expressions.  Both operands are evaluated before either is looked at,     *)
(* except by &&, which stops at a false left operand.                        *)

EvaluateBinary(s, path) ==
  LET left == Ask(s, Event(path, "left"))
      right == Ask(left, Event(path, "right"))
  IN IF left.value = Raise \/ right.value = Raise
     THEN AddDiagnostic(right, Event(path, "operands"))
     ELSE [right EXCEPT !.value = left.value * right.value]

EvaluateShortCircuit(s, path) ==
  LET left == Ask(s, Event(path, "left"))
  IN IF left.value \in {Raise, 0} THEN left ELSE Ask(left, Event(path, "right"))

RECURSIVE ExecuteFrom(_, _, _, _), ExecuteNode(_, _, _), Assign(_, _, _)
RECURSIVE CallFunctionNode(_), ForColumns(_, _, _, _), WhileTurn(_, _, _)
RECURSIVE IfArm(_, _, _, _), CaseArm(_, _, _, _)

ExecuteRange(s, body, path) == ExecuteFrom(s, body, path, 1)

ExecuteFrom(s, body, path, i) ==
  IF i > Len(body) THEN s
  ELSE LET after == ExecuteNode(s, body[i], Append(path, i))
       IN IF Interrupted(after) THEN after ELSE ExecuteFrom(after, body, path, i + 1)

(* The callee starts without a signal and leaves the caller's as it was.     *)
CallFunctionNode(s) ==
  LET default == Ask([s EXCEPT !.signal = "None"], Event(DefaultPath, "default"))
      body == ExecuteRange(default, s.source.function, FunctionPath)
  IN IF default.value = Raise THEN [default EXCEPT !.signal = s.signal]
     ELSE [body EXCEPT !.signal = s.signal, !.value = 1]

(* executeAssignment: a target is assigned only after a value without a
   diagnostic; the subscripts of a path are not checked again.               *)
Assign(s, node, path) ==
  CASE node.k = "set" -> Ask(s, Event(path, "value"))
    [] node.k = "sum" -> EvaluateBinary(s, path)
    [] node.k = "and" -> EvaluateShortCircuit(s, path)
    [] node.k = "call" -> CallFunctionNode(s)
    [] node.k = "lambda" -> Ask(s, Event(path, "result"))
    [] node.k = "path" ->
         LET value == Ask(s, Event(path, "value"))
         IN IF value.value = Raise THEN value
            ELSE Ask(CallFunctionNode(value), Event(path, "store"))

-----------------------------------------------------------------------------
(* Control statements                                                        *)

(* After a body, a loop takes its signal; a return stays.                    *)
LeavesLoop(s) == Trapped(s) \/ s.signal \in {"Break", "Return"}
TakeBreak(s) == IF s.signal = "Break" /\ ~Trapped(s) THEN [s EXCEPT !.signal = "None"] ELSE s
TakeContinue(s) == [s EXCEPT !.signal = "None"]

ForColumns(s, node, path, left) ==
  IF left = 0 THEN s
  ELSE LET after == ExecuteRange(s, node.arms[1].body, ArmPath(path, 1))
       IN IF LeavesLoop(after) THEN TakeBreak(after)
          ELSE ForColumns(TakeContinue(after), node, path, left - 1)

(* A range that is missing is a diagnostic of its own.                       *)
ExecuteFor(s, node, path) ==
  LET range == Ask(s, Event(HeaderPath(path, 1), "range"))
  IN IF range.value = Raise
     THEN AddDiagnostic(range, Event(HeaderPath(path, 1), "columns"))
     ELSE ForColumns(range, node, path, range.value)

WhileTurn(s, node, path) ==
  LET condition == Ask(s, Event(HeaderPath(path, 1), "cond"))
  IN IF Trapped(condition) \/ condition.value = 0 THEN condition
     ELSE LET after == ExecuteRange(condition, node.arms[1].body, ArmPath(path, 1))
          IN IF LeavesLoop(after) THEN TakeBreak(after)
             ELSE WhileTurn(TakeContinue(after), node, path)

IfArm(s, node, path, i) ==
  IF i > Len(node.arms) THEN s
  ELSE LET arm == node.arms[i]
           condition == Ask(s, Event(HeaderPath(path, i), "cond"))
       IN CASE arm.label = "else" -> ExecuteRange(s, arm.body, ArmPath(path, i))
            [] arm.label # "else" /\ Trapped(condition) -> condition
            [] arm.label # "else" /\ ~Trapped(condition) /\ condition.value = 1 ->
                 ExecuteRange(condition, arm.body, ArmPath(path, i))
            [] OTHER -> IfArm(condition, node, path, i + 1)

(* No diagnostic stops the search for an arm: neither the selector's nor a
   case's.  The last `otherwise` is taken when no case, before or after it,
   matches.                                                                  *)
CaseArm(s, node, path, i) ==
  IF i > Len(node.arms)
  THEN LET others == {a \in DOMAIN node.arms : node.arms[a].label = "otherwise"}
           last == CHOOSE a \in others : \A b \in others : b <= a
       IN IF others = {} THEN s
          ELSE ExecuteRange(s, node.arms[last].body, ArmPath(path, last))
  ELSE LET arm == node.arms[i]
           case == Ask(s, Event(HeaderPath(path, i), "case"))
       IN CASE arm.label # "case" -> CaseArm(s, node, path, i + 1)
            [] arm.label = "case" /\ case.value = 1 ->
                 ExecuteRange(case, arm.body, ArmPath(path, i))
            [] OTHER -> CaseArm(case, node, path, i + 1)

ExecuteSwitch(s, node, path) ==
  CaseArm(Ask(s, Event(HeaderPath(path, 0), "selector")), node, path, 1)

ExecuteTry(s, node, path) ==
  LET base == Len(s.diagnostics)
      body == [ExecuteRange([s EXCEPT !.trapBase = base],
                            node.arms[1].body, ArmPath(path, 1))
                 EXCEPT !.trapBase = s.trapBase]
  IN IF body.diverged \/ body.signal # "None" \/ Len(body.diagnostics) = base
        \/ Len(node.arms) = 1
     THEN body
     ELSE ExecuteRange([body EXCEPT !.caught = Last(body.diagnostics),
                                    !.diagnostics = SubSeq(@, 1, base)],
                       node.arms[2].body, ArmPath(path, 2))

Signals == [break |-> "Break", continue |-> "Continue", return |-> "Return"]

ExecuteNode(s, node, path) ==
  CASE node.k = "if" -> IfArm(s, node, path, 1)
    [] node.k = "while" -> WhileTurn(s, node, path)
    [] node.k = "for" -> ExecuteFor(s, node, path)
    [] node.k = "switch" -> ExecuteSwitch(s, node, path)
    [] node.k = "try" -> ExecuteTry(s, node, path)
    [] node.k \in DOMAIN Signals -> [s EXCEPT !.signal = Signals[node.k]]
    [] OTHER -> Assign(s, node, path)

(* A return at the top of the script just ends it.                           *)
Interpret(source, answers) ==
  ExecuteRange(Start(source, answers), source.main, MainPath)

=============================================================================
