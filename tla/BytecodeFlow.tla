---------------------------- MODULE BytecodeFlow ----------------------------
(***************************************************************************)
(* What the verifier knows of bytecode and the virtual machine relies on   *)
(* (src/mparser/execution/bytecode/bytecode_verifier.cpp): how brackets    *)
(* pair, where jumps may lead, the execution ranges, and the machine state *)
(* that every instruction of a range hands to the next.                    *)
(***************************************************************************)
EXTENDS BytecodeInstructions, Selection


NoPc == 0
Earliest(pcs) == CHOOSE pc \in pcs : \A other \in pcs : pc <= other
Latest(pcs) == CHOOSE pc \in pcs : \A other \in pcs : pc >= other

None == [none |-> TRUE]

WithLast(s, last) == [s EXCEPT ![Len(s)] = last]

-----------------------------------------------------------------------------
(* Instruction tables *)

MatchingEnter ==
  [LeaveModule |-> "EnterModule", LeaveFunction |-> "EnterFunction",
   LeaveArgumentDefault |-> "EnterArgumentDefault"]

Leaves == DOMAIN MatchingEnter
Enters == {MatchingEnter[op] : op \in Leaves}

Targeted == {"EnterArgumentDefault", "SwitchCase", "SwitchOtherwise", "TryBegin",
             "TryEnd", "Jump", "JumpIfFalse", "Break", "Continue", "ForBegin",
             "ForNext", "MakeFunctionHandle"}

(* Operands an instruction needs and the change it makes to the depth.      *)
StackEffect(i) ==
  LET n == i.operandCount
  IN CASE i.op = "LoadName" -> [requires |-> 0, delta |-> i.results]
       [] i.op = "MakeFunctionHandle" -> [requires |-> 0, delta |-> 1]
       [] i.op \in {"StoreName", "Pop", "JumpIfFalse", "ForBegin", "SwitchBegin",
                    "SwitchCase"} -> [requires |-> 1, delta |-> -1]
       [] i.op = "BinaryOp" -> [requires |-> n, delta |-> 1 - n]
       [] i.op = "CallOrIndex" -> [requires |-> n + 1, delta |-> i.results - n - 1]
       [] i.op = "LvalueDescendMember" -> [requires |-> n, delta |-> -n]
       [] i.op = "StorePathIndex" -> [requires |-> n + 1, delta |-> -n - 1]
       [] i.op = "BeginIndexContext" -> [requires |-> 1, delta |-> 0]
       [] OTHER -> [requires |-> 0, delta |-> 0]

-----------------------------------------------------------------------------
(* Structured ranges.  lex[pc] holds the brackets open before pc, innermost *)
(* last; index Len(code) + 1 is the state after the last instruction.       *)

Closers == [boundary |-> Leaves, for |-> {"ForNext"}, switch |-> {"SwitchEnd"},
            try |-> {"TryEnd"}]
Openers == [boundary |-> Enters, for |-> {"ForBegin"}, switch |-> {"SwitchBegin"},
            try |-> {"TryBegin"}]
Families == DOMAIN Closers

Bracket(open, family, op, pc) ==
  CASE op \in Openers[family] -> Append(open, pc)
    [] op \in Closers[family] /\ open # <<>> -> Front(open)
    [] OTHER -> open

BracketsFound(code, lex) ==
  /\ lex \in Seq([Families -> Seq(Nat)]) /\ Len(lex) = Len(code) + 1
  /\ \A f \in Families :
       /\ lex[1][f] = <<>>
       /\ \A pc \in DOMAIN code : lex[pc + 1][f] = Bracket(lex[pc][f], f, code[pc].op, pc)

Innermost(open) == IF open = <<>> THEN NoPc ELSE Last(open)

(* The instruction that closes the bracket opened at `begin`.               *)
ClosedBy(code, lex, family, begin) ==
  LET ends == {pc \in begin + 1 .. Len(code) :
                 code[pc].op \in Closers[family] /\ Innermost(lex[pc][family]) = begin}
  IN IF ends = {} THEN NoPc ELSE Earliest(ends)

(* The body of an anonymous function and the handle that owns each address. *)
AnonymousOwners(code) ==
  {pc \in DOMAIN code : /\ code[pc].op = "MakeFunctionHandle"
                        /\ code[pc].target > pc + 1
                        /\ code[pc].target <= Len(code) + 1}

AnonymousOwner(code, pc) ==
  LET owners == {o \in AnonymousOwners(code) : o < pc /\ pc < code[o].target}
  IN IF owners = {} THEN NoPc ELSE Latest(owners)

NestedBodies(code) ==
  \A a, b \in AnonymousOwners(code) :
    a < b /\ b + 1 < code[a].target => code[b].target <= code[a].target

(* Two addresses belong to the same function, initializer or handle body.   *)
SameExecutableOwner(code, lex, a, b) ==
  /\ Innermost(lex[a].boundary) = Innermost(lex[b].boundary)
  /\ AnonymousOwner(code, a) = AnonymousOwner(code, b)

InsideBoundary(code, lex, pc, op) ==
  \E i \in DOMAIN lex[pc].boundary : code[lex[pc].boundary[i]].op = op

OtherwiseBefore(code, lex, pc) ==
  \E o \in 1 .. pc - 1 : /\ code[o].op = "SwitchOtherwise"
                         /\ Innermost(lex[o].switch) = Innermost(lex[pc].switch)

StructuredAt(code, lex, pc) ==
  LET op == code[pc].op
  IN /\ op = "EnterModule" => lex[pc].boundary = <<>>
     /\ op = "EnterArgumentDefault" => InsideBoundary(code, lex, pc, "EnterFunction")
     /\ op \in Leaves =>
          /\ lex[pc].boundary # <<>>
          /\ code[Last(lex[pc].boundary)].op = MatchingEnter[op]
     /\ \A f \in Families \ {"boundary"} : op \in Closers[f] =>
          /\ lex[pc][f] # <<>>
          /\ SameExecutableOwner(code, lex, Last(lex[pc][f]), pc)
     /\ op = "Break" => lex[pc].for # <<>>
     /\ op \in {"SwitchCase", "SwitchOtherwise"} =>
          lex[pc].switch # <<>> /\ ~OtherwiseBefore(code, lex, pc)

StructuredRangesOk(code, lex) ==
  /\ NestedBodies(code)
  /\ \A f \in Families : lex[Len(code) + 1][f] = <<>>
  /\ \A pc \in DOMAIN code : StructuredAt(code, lex, pc)

-----------------------------------------------------------------------------
(* Targets *)

(* A handle nested in a handle's body may end where its owner's body ends.  *)
HandleEndsWithOwner(code, lex, pc, target) ==
  LET owner == AnonymousOwner(code, pc)
  IN /\ code[pc].op = "MakeFunctionHandle"
     /\ owner # NoPc
     /\ code[owner].target = target
     /\ Innermost(lex[pc].boundary) = Innermost(lex[target].boundary)

TargetFits(code, lex, pc) ==
  LET op == code[pc].op
      target == code[pc].target
  IN CASE op = "EnterArgumentDefault" ->
            target = ClosedBy(code, lex, "boundary", pc) + 1
       [] op = "MakeFunctionHandle" -> target > pc + 1
       [] op \in {"JumpIfFalse", "Break", "TryEnd"} -> target > pc
       [] op = "ForBegin" -> target = ClosedBy(code, lex, "for", pc) + 1
       [] op = "ForNext" -> target = Innermost(lex[pc].for) + 1
       [] op \in {"SwitchCase", "SwitchOtherwise"} ->
            /\ target > pc
            /\ target <= ClosedBy(code, lex, "switch", Innermost(lex[pc].switch))
       [] op = "TryBegin" -> target = ClosedBy(code, lex, "try", pc) + 1
       [] OTHER -> TRUE

TargetsOk(code, lex) ==
  \A pc \in DOMAIN code :
    IF code[pc].op \in Targeted
    THEN /\ code[pc].target \in 1 .. Len(code) + 1
         /\ \/ SameExecutableOwner(code, lex, pc, code[pc].target)
            \/ HandleEndsWithOwner(code, lex, pc, code[pc].target)
         /\ TargetFits(code, lex, pc)
    ELSE code[pc].target = NoTarget

-----------------------------------------------------------------------------
(* Index and lvalue contexts.  A flow state carries them as the machine     *)
(* will; both the linear pass and the data-flow pass step them this way.    *)

NoContexts == [idxs |-> <<>>, lvals |-> <<>>]

ClosesIndex(i) == i.op = "CallOrIndex" /\ i.context
ClosesLvalueIndex(i) == i.op = "StorePathIndex"

CompletedIndex(idxs, i, lvalue) ==
  /\ idxs # <<>>
  /\ Last(idxs).lvalue = lvalue
  /\ Last(idxs).next = Last(idxs).total
  /\ Last(idxs).total = i.operandCount

(* The contexts after instruction i at pc, or None if it may not run here.  *)
StepContexts(c, i, pc) ==
  LET opened == [lvalue |-> i.op = "BeginLvalueIndexContext", pc |-> pc,
                 total |-> i.operandCount, next |-> 0]
      index == Last(c.idxs)
      deeper == [Last(c.lvals) EXCEPT !.completed = @ + 1]
  IN CASE i.op \in {"BeginIndexContext", "BeginLvalueIndexContext"} ->
            [c EXCEPT !.idxs = Append(@, opened)]
       [] i.op = "BeginIndexArgument" ->
            IF c.idxs # <<>> /\ index.next = i.operandCount /\ i.operandCount < index.total
            THEN [c EXCEPT !.idxs = WithLast(@, [index EXCEPT !.next = @ + 1])] ELSE None
       [] ClosesIndex(i) ->
            IF CompletedIndex(c.idxs, i, FALSE)
            THEN [c EXCEPT !.idxs = Front(@)] ELSE None
       [] i.op = "BeginLvalue" ->
            IF c.lvals # <<>> THEN None
            ELSE [c EXCEPT !.lvals = <<[pc |-> pc, segments |-> i.operandCount,
                                        completed |-> 0]>>]
       [] i.op = "LvalueDescendMember" ->
            IF c.lvals # <<>> /\ deeper.completed < deeper.segments
            THEN [c EXCEPT !.lvals = WithLast(@, deeper)] ELSE None
       [] ClosesLvalueIndex(i) ->
            IF /\ CompletedIndex(c.idxs, i, TRUE)
               /\ c.lvals # <<>>
               /\ deeper.completed = deeper.segments
            THEN [idxs |-> Front(c.idxs), lvals |-> Front(c.lvals)] ELSE None
       [] OTHER -> c

(* A context is used by the executable that opened it.                      *)
ContextsOwned(code, lex, c, pc) ==
  LET i == code[pc]
      owns(open) == open = <<>> \/ SameExecutableOwner(code, lex, Last(open).pc, pc)
  IN /\ i.op = "BeginIndexArgument" \/ ClosesIndex(i) \/ ClosesLvalueIndex(i) => owns(c.idxs)
     /\ i.op = "LvalueDescendMember" \/ ClosesLvalueIndex(i) => owns(c.lvals)

-----------------------------------------------------------------------------
(* Execution ranges [begin, end) and the operand depth each exits with.     *)

Range0(begin, end, depth) == [begin |-> begin, end |-> end, depth |-> depth]

ExecutionRanges(code, lex) ==
  {Range0(1, Len(code) + 1, 0)}
  \cup {Range0(pc + 1, ClosedBy(code, lex, "boundary", pc), 0) :
          pc \in {p \in DOMAIN code : code[p].op = "EnterFunction"}}
  \cup {Range0(pc + 1, ClosedBy(code, lex, "boundary", pc), 1) :
          pc \in {p \in DOMAIN code : code[p].op = "EnterArgumentDefault"}}
  \cup {Range0(pc + 1, code[pc].target, 1) : pc \in AnonymousOwners(code)}

-----------------------------------------------------------------------------
(* Data flow over one range.  A state has the operand depth, the open for,   *)
(* switch and try brackets, and the index and lvalue contexts.               *)

EntryState == [depth |-> 0, for |-> <<>>, switch |-> <<>>, try |-> <<>>,
               contexts |-> NoContexts]

ExpectedWithin(lex, family, target, range) ==
  IF target >= range.end THEN <<>>
  ELSE LET open == lex[target][family]
       IN Picked(open, {i \in DOMAIN open : range.begin <= open[i] /\ open[i] < range.end})

MatchesStructured(lex, state, target, range) ==
  \A f \in {"for", "switch", "try"} :
    state[f] = ExpectedWithin(lex, f, target, range)

Shorten(open, n) == SubSeq(open, 1, IF n < Len(open) THEN n ELSE Len(open))

(* A legal jump leaves the switches and tries its target is outside of.     *)
UnwindFor(lex, state, target, range) ==
  [state EXCEPT
     !.switch = Shorten(@, Len(ExpectedWithin(lex, "switch", target, range))),
     !.try = Shorten(@, Len(ExpectedWithin(lex, "try", target, range)))]

Flows(edges) == [ok |-> TRUE, edges |-> edges]
Rejected == [ok |-> FALSE, edges |-> <<>>]
FlowsIf(condition, edges) == IF condition THEN Flows(edges) ELSE Rejected

(* The edges out of an instruction, <<target, state>> in relaxation order,   *)
(* once the state `out` has its operands and contexts taken.                 *)
Transfers(code, lex, range, pc, out) ==
  LET i == code[pc]
      next == <<pc + 1, out>>
      to(state) == <<i.target, state>>
      unwound(state) == UnwindFor(lex, state, i.target, range)
      innermost(f) == Innermost(out[f]) # NoPc /\ Innermost(out[f]) = Innermost(lex[pc][f])
  IN CASE i.op = "Jump" -> Flows(<<to(unwound(out))>>)
       [] i.op = "JumpIfFalse" -> Flows(<<next, to(unwound(out))>>)
       [] i.op \in {"SwitchCase", "SwitchOtherwise"} ->
            FlowsIf(innermost("switch"), <<next, to(out)>>)
       [] i.op = "ForBegin" ->
            Flows(<<<<pc + 1, [out EXCEPT !.for = Append(@, pc)]>>, to(out)>>)
       [] i.op = "ForNext" ->
            FlowsIf(innermost("for"),
                    <<to(out), <<pc + 1, [out EXCEPT !.for = Front(@)]>>>>)
       [] i.op = "Break" ->
            FlowsIf(out.for # <<>>, <<to(unwound([out EXCEPT !.for = Front(@)]))>>)
       [] i.op = "Continue" ->
            FlowsIf(/\ out.for # <<>>
                    /\ i.target = ClosedBy(code, lex, "for", Last(out.for)),
                    <<to(unwound(out))>>)
       [] i.op = "SwitchBegin" -> Flows(<<<<pc + 1, [out EXCEPT !.switch = Append(@, pc)]>>>>)
       [] i.op = "SwitchEnd" ->
            FlowsIf(innermost("switch"), <<<<pc + 1, [out EXCEPT !.switch = Front(@)]>>>>)
       [] i.op = "TryBegin" ->
            Flows(<<<<pc + 1, [out EXCEPT !.try = Append(@, pc)]>>, to(out)>>)
       [] i.op = "TryEnd" ->
            FlowsIf(innermost("try"), <<to([out EXCEPT !.try = Front(@)])>>)
       [] i.op = "Return" ->
            FlowsIf(out.depth = range.depth /\ out.contexts = NoContexts, <<>>)
       [] i.op = "MakeFunctionHandle" -> Flows(<<to(out)>>)
       [] OTHER -> Flows(<<next>>)

(* A definition is stepped over; an instruction that lacks an operand or a   *)
(* context is rejected.                                                      *)
Edges(code, lex, range, pc, input) ==
  LET i == code[pc]
      effect == StackEffect(i)
      contexts == StepContexts(input.contexts, i, pc)
  IN IF i.op = "EnterFunction"
     THEN Flows(<<<<ClosedBy(code, lex, "boundary", pc) + 1, input>>>>)
     ELSE IF i.op = "EnterArgumentDefault" THEN Flows(<<<<i.target, input>>>>)
     ELSE IF \/ input.depth < effect.requires
             \/ contexts = None
             \/ i.op = "BeginLvalueIndexContext" /\ contexts.lvals = <<>> THEN Rejected
     ELSE Transfers(code, lex, range, pc,
            [input EXCEPT !.depth = @ + effect.delta, !.contexts = contexts])

ExitAnywhere(range, states) == range.end \in DOMAIN states

ExitOk(range, states) ==
  \/ states[range.end] = None
  \/ states[range.end] = [EntryState EXCEPT !.depth = range.depth]

(* A flow that propagation has finished: it starts at the entry state, and   *)
(* every state in it matches its brackets and has all its edges in it.       *)
Places == [pc : Nat, segments : Nat, completed : Nat]
Indexes == [lvalue : BOOLEAN, pc : Nat, total : Nat, next : Nat]
FlowStates ==
  [depth : Nat, for : Seq(Nat), switch : Seq(Nat), try : Seq(Nat),
   contexts : [idxs : Seq(Indexes), lvals : Seq(Places)]]

Settled(code, lex, range, states, pc) ==
  LET flow == Edges(code, lex, range, pc, states[pc])
  IN /\ flow.ok
     /\ \A i \in DOMAIN flow.edges :
          /\ flow.edges[i][1] \in range.begin .. range.end
          /\ states[flow.edges[i][1]] = flow.edges[i][2]

FlowFound(code, lex, range, states) ==
  /\ DOMAIN states = range.begin .. range.end
  /\ range.begin < range.end => states[range.begin] = EntryState
  /\ \A pc \in DOMAIN states : states[pc] # None =>
       /\ states[pc] \in FlowStates
       /\ MatchesStructured(lex, states[pc], pc, range)
       /\ pc < range.end => Settled(code, lex, range, states, pc)
  /\ ExitOk(range, states)

=============================================================================
