--------------------------- MODULE ControlLowering ---------------------------
(***************************************************************************)
(* Lowering of structured control flow to linear bytecode                  *)
(* (src/mparser/execution/bytecode/bytecode.cpp, class BytecodeLowerer).   *)
(*                                                                         *)
(* A statement of the HIR is a node [k, arms]; an arm is [label, body] and *)
(* a body a sequence of nodes.  A leaf has no arms:                        *)
(*   "set"    x = e             "sum"    x = a + b      "and" x = a && b   *)
(*   "call"   x = f()           "lambda" h = @() e; x = h()                *)
(*   "path"   s.a(f()) = e      "break", "continue", "return"              *)
(* The path of a node (its child indices from the root) stands for its     *)
(* source span.                                                            *)
(***************************************************************************)
EXTENDS BytecodeInstructions

-----------------------------------------------------------------------------
(* Nodes *)

Leaf(k) == [k |-> k, arms |-> <<>>]
Arm(label, body) == [label |-> label, body |-> body]

If(arms) == [k |-> "if", arms |-> arms]
While(body) == [k |-> "while", arms |-> <<Arm("body", body)>>]
For(body) == [k |-> "for", arms |-> <<Arm("body", body)>>]
Switch(arms) == [k |-> "switch", arms |-> arms]
Try(body, handler) ==
  [k |-> "try", arms |-> <<Arm("body", body), Arm("catch", handler)>>]
TryOnly(body) == [k |-> "try", arms |-> <<Arm("body", body)>>]

-----------------------------------------------------------------------------
(* Expressions and assignments *)

LoadCallee == Emit("LoadName")

(* A direct call of a local function needs no index context; a handle held
   in a variable may turn out to be an array, so it gets one.               *)
CallOrIndex(indexed) == [Emit("CallOrIndex") EXCEPT !.context = indexed]

(* The body of an anonymous function is inline, and skipped.                *)
FunctionHandle(body, at) == <<EmitTo("MakeFunctionHandle", at + 1 + Len(body))>> \o body

LowerAssignment(node, path, at) ==
  CASE node.k = "set" -> <<Load(path, "value"), Emit("StoreName")>>
    [] node.k \in {"sum", "and"} ->
         <<Load(path, "left"), Load(path, "right"),
           EmitN("BinaryOp", 2), Emit("StoreName")>>
    [] node.k = "call" -> <<LoadCallee, CallOrIndex(FALSE), Emit("StoreName")>>
    [] node.k = "lambda" ->
         FunctionHandle(<<Load(path, "result")>>, at)
         \o <<Emit("StoreName"), LoadCallee, EmitN("BeginIndexContext", 0),
              CallOrIndex(TRUE), Emit("StoreName")>>
    [] node.k = "path" ->
         <<Load(path, "value"), EmitN("BeginLvalue", 2),
           EmitN("LvalueDescendMember", 0),
           EmitN("BeginLvalueIndexContext", 1), EmitN("BeginIndexArgument", 0),
           LoadCallee, CallOrIndex(FALSE),
           [EmitN("StorePathIndex", 1) EXCEPT !.event = Event(path, "store")]>>

(* `loop` is the kind of the innermost loop: "none", "while" or "for".      *)
LowerControlStatement(node, loop) ==
  CASE node.k = "break" ->
         <<EmitTo(IF loop = "for" THEN "Break" ELSE "Jump", BreakTarget)>>
    [] node.k = "continue" ->
         <<EmitTo(IF loop = "while" THEN "Jump" ELSE "Continue", ContinueTarget)>>
    [] node.k = "return" -> <<Emit("Return")>>

-----------------------------------------------------------------------------
(* Control statements.  Each takes the address its code starts at.          *)

RECURSIVE LowerNode(_, _, _, _), LowerFrom(_, _, _, _, _)
RECURSIVE LowerIfArms(_, _, _, _, _), LowerSwitchArms(_, _, _, _, _)

LowerFrom(i, body, path, at, loop) ==
  IF i > Len(body) THEN <<>>
  ELSE LET code == LowerNode(body[i], Append(path, i), at, loop)
       IN code \o LowerFrom(i + 1, body, path, at + Len(code), loop)

LowerRange(body, path, at, loop) == LowerFrom(1, body, path, at, loop)

ArmPath(path, i) == Append(path, i)
HeaderPath(path, i) == Append(Append(path, i), 0)

(* Every arm but `else` tests its header and is skipped to the next arm.    *)
LowerIfArms(i, arms, path, at, loop) ==
  IF i > Len(arms) THEN <<>>
  ELSE LET arm == arms[i]
           tested == arm.label # "else"
           body == LowerRange(arm.body, ArmPath(path, i), at + IF tested THEN 2 ELSE 0, loop)
           jump == <<EmitTo("Jump", ExitTarget)>>
           next == at + 3 + Len(body)
       IN IF tested
          THEN <<Load(HeaderPath(path, i), "cond"), EmitTo("JumpIfFalse", next)>>
               \o body \o jump \o LowerIfArms(i + 1, arms, path, next, loop)
          ELSE body \o jump

LowerIf(node, path, at, loop) ==
  LET code == LowerIfArms(1, node.arms, path, at, loop)
  IN PatchTarget(code, ExitTarget, at + Len(code))

LowerWhileSkippingTest(node, path, at) ==
  LET body == LowerRange(node.arms[1].body, ArmPath(path, 1), at + 2, "while")
      after == at + 3 + Len(body)
      code == <<Load(HeaderPath(path, 1), "cond"), EmitTo("JumpIfFalse", after)>>
              \o body \o <<EmitTo("Jump", at)>>
  IN PatchTarget(PatchTarget(code, BreakTarget, after), ContinueTarget, at + 2)

LowerWhile(node, path, at) ==
  LET body == LowerRange(node.arms[1].body, ArmPath(path, 1), at + 2, "while")
      after == at + 3 + Len(body)
      code == <<Load(HeaderPath(path, 1), "cond"), EmitTo("JumpIfFalse", after)>>
              \o body \o <<EmitTo("Jump", at)>>
  IN PatchTarget(PatchTarget(code, BreakTarget, after), ContinueTarget, at)

LowerForBreakingShort(node, path, at) ==
  LET body == LowerRange(node.arms[1].body, ArmPath(path, 1), at + 2, "for")
      next == at + 2 + Len(body)
      code == <<Load(HeaderPath(path, 1), "range"), EmitTo("ForBegin", next + 1)>>
              \o body \o <<EmitTo("ForNext", at + 2)>>
  IN PatchTarget(PatchTarget(code, BreakTarget, next), ContinueTarget, next)

LowerFor(node, path, at) ==
  LET body == LowerRange(node.arms[1].body, ArmPath(path, 1), at + 2, "for")
      next == at + 2 + Len(body)
      code == <<Load(HeaderPath(path, 1), "range"), EmitTo("ForBegin", next + 1)>>
              \o body \o <<EmitTo("ForNext", at + 2)>>
  IN PatchTarget(PatchTarget(code, BreakTarget, next + 1), ContinueTarget, next)

(* A switch ends at its `otherwise` arm; later arms are not lowered.        *)
LowerSwitchArms(i, arms, path, at, loop) ==
  IF i > Len(arms) THEN <<>>
  ELSE LET arm == arms[i]
           isCase == arm.label = "case"
           body == LowerRange(arm.body, ArmPath(path, i), at + IF isCase THEN 2 ELSE 1, loop)
           jump == <<EmitTo("Jump", ExitTarget)>>
           next == at + 3 + Len(body)
       IN IF isCase
          THEN <<Load(HeaderPath(path, i), "case"), EmitTo("SwitchCase", next)>>
               \o body \o jump \o LowerSwitchArms(i + 1, arms, path, next, loop)
          ELSE <<EmitTo("SwitchOtherwise", ExitTarget)>> \o body \o jump

LowerSwitch(node, path, at, loop) ==
  LET code == <<Load(HeaderPath(path, 0), "selector"), Emit("SwitchBegin")>>
              \o LowerSwitchArms(1, node.arms, path, at + 2, loop)
  IN PatchTarget(code, ExitTarget, at + Len(code)) \o <<Emit("SwitchEnd")>>

(* Without a catch arm the block is its body alone.                         *)
LowerTry(node, path, at, loop) ==
  IF Len(node.arms) = 1
  THEN LowerRange(node.arms[1].body, ArmPath(path, 1), at, loop)
  ELSE LET body == LowerRange(node.arms[1].body, ArmPath(path, 1), at + 1, loop)
           catchStart == at + 2 + Len(body)
           handler == LowerRange(node.arms[2].body, ArmPath(path, 2), catchStart, loop)
       IN <<EmitTo("TryBegin", catchStart)>> \o body
          \o <<EmitTo("TryEnd", catchStart + Len(handler))>> \o handler

LowerNode(node, path, at, loop) ==
  CASE node.k = "if" -> LowerIf(node, path, at, loop)
    [] node.k = "while" -> LowerWhile(node, path, at)
    [] node.k = "for" -> LowerFor(node, path, at)
    [] node.k = "switch" -> LowerSwitch(node, path, at, loop)
    [] node.k = "try" -> LowerTry(node, path, at, loop)
    [] node.k \in {"break", "continue", "return"} -> LowerControlStatement(node, loop)
    [] OTHER -> LowerAssignment(node, path, at)

-----------------------------------------------------------------------------
(* A script and the local function f that its "call" and "path" leaves       *)
(* invoke.  f has one parameter, given a default by an argument block.       *)

MainPath == <<1>>
FunctionPath == <<2>>
DefaultPath == <<3>>

LowerFunction(body, at) ==
  <<Emit("EnterFunction"), EmitTo("EnterArgumentDefault", at + 4),
    Load(DefaultPath, "default"), Emit("LeaveArgumentDefault")>>
  \o LowerRange(body, FunctionPath, at + 4, "none")
  \o <<Emit("LeaveFunction")>>

(* A break or continue outside every loop keeps no target.                  *)
ClearStray(code) ==
  PatchTarget(PatchTarget(code, BreakTarget, NoTarget), ContinueTarget, NoTarget)

Lower(main, function) ==
  LET script == LowerRange(main, MainPath, 2, "none")
  IN ClearStray(<<Emit("EnterModule")>> \o script
                \o LowerFunction(function, 2 + Len(script))
                \o <<Emit("LeaveModule")>>)

=============================================================================
