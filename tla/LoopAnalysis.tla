---------------------------- MODULE LoopAnalysis ----------------------------
(***************************************************************************)
(* The bytecode of a for loop's body and what bytecode_region.cpp reads    *)
(* off it: whether a typed region can take the loop, the names it needs    *)
(* from the workspace and the names it calls.                              *)
(***************************************************************************)
EXTENDS LoopContract

-----------------------------------------------------------------------------
(* Bytecode of a loop body.  A body starts at 1; the latch follows it.      *)

Ins(op) == [op |-> op, name |-> "", n |-> 0, target |-> 0]
InsName(op, name) == [Ins(op) EXCEPT !.name = name]

RECURSIVE LowerExpression(_)
LowerExpression(e) ==
  CASE e.k = "lit"  -> <<[Ins("LoadLiteral") EXCEPT !.n = e.n]>>
    [] e.k = "text" -> <<Ins("LoadText")>>
    [] e.k = "var"  -> <<InsName("LoadName", e.name)>>
    [] e.k = "op"   -> LowerExpression(e.left) \o LowerExpression(e.right)
                       \o <<InsName("BinaryOp", e.name)>>
    [] e.k = "call" -> <<InsName("LoadCallee", e.name)>> \o LowerExpression(e.left)
                       \o <<InsName("Call", e.name)>>
    [] e.k = "at"   -> <<InsName("LoadName", e.name)>> \o LowerExpression(e.left)
                       \o <<Ins("Index")>>

RECURSIVE LowerBody(_, _)
LowerStatement(s, at) ==
  CASE s.k = "set" -> LowerExpression(s.value) \o <<InsName("StoreName", s.name)>>
    [] s.k = "setAt" ->
         LowerExpression(s.value) \o <<InsName("LoadName", s.name)>>
         \o LowerExpression(s.index) \o <<InsName("StoreIndex", s.name)>>
    [] s.k = "if" ->
         LET cond == LowerExpression(s.cond)
             then == LowerBody(s.then, at + Len(cond) + 1)
             otherwise == at + Len(cond) + Len(then) + 2
             else == LowerBody(s.else, otherwise)
             end == otherwise + Len(else) + IF s.else = <<>> THEN 0 ELSE 1
             jump == [Ins("Jump") EXCEPT !.target = end]
         IN cond \o <<[Ins("JumpIfFalse") EXCEPT !.target = otherwise]>> \o then
            \o <<jump>> \o else \o (IF s.else = <<>> THEN <<>> ELSE <<jump>>)
    [] s.k = "for" ->
         LET from == LowerExpression(s.from)
             over == IF s.single THEN from
                     ELSE from \o LowerExpression(s.to) \o <<InsName("BinaryOp", ":")>>
             begin == at + Len(over)
             body == LowerBody(s.body, begin + 1)
             exit == begin + Len(body) + 2
         IN over \o <<[InsName("ForBegin", s.name) EXCEPT !.target = exit]>> \o body
            \o <<[InsName("ForNext", s.name) EXCEPT !.target = begin + 1]>>

LowerBody(body, at) ==
  IF body = <<>> THEN <<>>
  ELSE LET code == LowerStatement(Head(body), at)
       IN code \o LowerBody(Tail(body), at + Len(code))

-----------------------------------------------------------------------------
(* bytecode_region.cpp: what the region reads before it defines it.         *)

Supported(ins) == ins.op # "LoadText"

(* Where control goes from pc, and the names surely defined on the way.     *)
Flows(code, at, defined) ==
  LET ins == code[at]
      next == {<<at + 1, defined>>}
  IN CASE ins.op = "StoreName"   -> {<<at + 1, defined \cup {ins.name}>>}
       [] ins.op = "ForBegin"    -> {<<ins.target, defined>>,
                                     <<at + 1, defined \cup {ins.name}>>}
       [] ins.op = "ForNext"     -> next \cup {<<ins.target, defined>>}
       [] ins.op = "Jump"        -> {<<ins.target, defined>>}
       [] ins.op = "JumpIfFalse" -> next \cup {<<ins.target, defined>>}
       [] OTHER -> next

MergeEither(left, right) == left \cup right
MergeDefinitions(left, right) == left \cap right

Unreached == {"unreached"}

(* The worklist until nothing changes.  The loop variable is defined.       *)
RECURSIVE Definitions(_, _, _)
Definitions(code, states, pending) ==
  IF pending = {} THEN states
  ELSE LET at == CHOOSE p \in pending : TRUE
           flows == IF at > Len(code) THEN {} ELSE Flows(code, at, states[at])
           merged == <<>> \o [p \in DOMAIN states |->
                        LET into == {f[2] : f \in {g \in flows : g[1] = p}}
                            old == IF states[p] = Unreached THEN {} ELSE {states[p]}
                        IN FoldSet(LAMBDA d, acc : IF acc = Unreached THEN d
                                                   ELSE MergeDefinitions(acc, d),
                                   Unreached, into \cup old)]
       IN Definitions(code, merged,
                      (pending \ {at}) \cup {p \in DOMAIN states : merged[p] # states[p]})

CollectDefiniteInputs(code, variable) ==
  LET start == [p \in 1 .. Len(code) + 1 |-> IF p = 1 THEN {variable} ELSE Unreached]
      states == Definitions(code, start, {1})
  IN {code[p].name : p \in {q \in DOMAIN code :
        /\ code[q].op = "LoadName" /\ states[q] # Unreached
        /\ code[q].name \notin states[q]}}

CallTargets(code) == {code[p].name : p \in {q \in DOMAIN code : code[q].op = "Call"}}

(* The analysis of one loop, computed once: TLC keeps it in the constant.   *)
Analysed(source) ==
  LET code == LowerBody(source.body, 1)
  IN [variable |-> source.variable, body |-> source.body, code |-> code,
      inputs |-> CollectDefiniteInputs(code, source.variable),
      callTargets |-> CallTargets(code),
      eligible |-> \A p \in DOMAIN code : Supported(code[p])]

=============================================================================
