------------------------------ MODULE ControlVm ------------------------------
(***************************************************************************)
(* The control machine of the bytecode VM                                  *)
(* (src/mparser/execution/bytecode/vm/bytecode_vm.cpp): the operand stack, *)
(* the for, switch, try, index and lvalue context stacks, calls of local   *)
(* functions, argument defaults and anonymous functions, recovery of a     *)
(* diagnostic by the nearest try, and the stop of a controlled run.        *)
(*                                                                         *)
(* Values are abstracted to what control flow tells apart: a condition, a  *)
(* case match, a number of iterations.  The environment chooses the        *)
(* outcome of every event, Raise standing for a failed evaluation.         *)
(*                                                                         *)
(* The machine runs one of `Programs`, each with the verifier's verdict;   *)
(* it refuses a program that was not accepted.                             *)
(***************************************************************************)
EXTENDS BytecodeFlow, FiniteSets

CONSTANTS
  Programs,      \* the programs, each as Prepare makes it, by some index
  MaxIterations, \* columns of a for range: 0 .. MaxIterations
  Raising,       \* parts of the events whose evaluation may fail
  MayStop        \* whether a controlled run may be stopped

Instructions ==
  [op : STRING, operandCount : Nat, results : Nat, target : Int,
   event : Seq(Nat) \X STRING, context : BOOLEAN]

(* What the verifier found of a program it accepted.                        *)
Verified(code, lex, flow) ==
  /\ BracketsFound(code, lex) /\ StructuredRangesOk(code, lex) /\ TargetsOk(code, lex)
  /\ DOMAIN flow = ExecutionRanges(code, lex)
  /\ \A range \in DOMAIN flow : FlowFound(code, lex, range, flow[range])

(* What the lowering makes besides: instructions have the operands their     *)
(* statement has, a failure has a source, a handle is made before it is      *)
(* called, every function has a default, no range is empty, and a try is a   *)
(* statement.                                                                *)
InstructionMade(code, pc) ==
  LET i == code[pc]
  IN /\ i.op \in {"LoadName", "CallOrIndex"} => i.results = 1
     /\ i.op = "BinaryOp" => i.operandCount = 2
     /\ i.op = "LvalueDescendMember" => i.operandCount = 0
     /\ i.event[2] \in Raising => i.event[1] # <<>>
     /\ i.op = "CallOrIndex" =>
          \E made \in DOMAIN code :
            IF i.context THEN code[made].op = "MakeFunctionHandle" /\ made < pc
                         ELSE code[made].op = "EnterFunction"

FunctionMade(code, entry) ==
  entry + 1 \in DOMAIN code /\ code[entry + 1].op = "EnterArgumentDefault"

Made(code, flow) ==
  /\ code \in Seq(Instructions)
  /\ \A pc \in DOMAIN code : InstructionMade(code, pc)
  /\ \A pc \in DOMAIN code : code[pc].op = "EnterFunction" => FunctionMade(code, pc)
  /\ \A range \in DOMAIN flow : range.begin < range.end
  /\ \A range \in DOMAIN flow : \A pc \in DOMAIN flow[range] \ {range.end} :
       code[pc].op = "TryBegin" /\ flow[range][pc] # None =>
         flow[range][pc].depth = 0 /\ flow[range][pc].contexts = NoContexts

ASSUME ControlVmAssumption ==
  /\ MaxIterations \in Nat /\ MayStop \in BOOLEAN
  /\ \A k \in DOMAIN Programs :
       LET p == Programs[k]
       IN p.accepted => Verified(p.code, p.lex, p.flow) /\ Made(p.code, p.flow)

VARIABLES
  program,    \* index of the running program
  frames,     \* active executions, innermost last
  stack,      \* stack_: operands of every frame
  lvals,      \* lvalueStack_: the frame depth each active lvalue belongs to
  diags,      \* diagnostics_: identities of the collected diagnostics
  exception,  \* the diagnostic the last catch variable was bound to
  stopped     \* executionControl_->stopReason() # None

vmVars == <<program, frames, stack, lvals, diags, exception, stopped>>

-----------------------------------------------------------------------------
(* Program text *)

Code == Programs[program].code
NoDiag == NoEvent
StopDiag == <<<<>>, "stop">>
Internal(op) == <<<<>>, op>>

(* What an event's evaluation may yield.                                    *)
Outcomes(event) ==
  LET part == event[2]
  IN (CASE part \in {"cond", "case", "left", "right"} -> {0, 1}
        [] part = "range" -> 0 .. MaxIterations
        [] OTHER -> {1})
     \cup (IF part \in Raising THEN {Raise} ELSE {})

(* switchEndAt_, tryEndAt_ and functionEndAt_: where a bracket closes.       *)
EndOf(family, begin) == ClosedBy(Code, Programs[program].lex, family, begin)

FunctionEntry == CHOOSE pc \in DOMAIN Code : Code[pc].op = "EnterFunction"

-----------------------------------------------------------------------------
(* Frames *)

Frame(kind, begin, end, base) ==
  [kind |-> kind, pc |-> begin, begin |-> begin, end |-> end, base |-> base,
   fors |-> <<>>, switches |-> <<>>, tries |-> <<>>, idxs |-> <<>>,
   return |-> FALSE, done |-> FALSE]

Top == Last(frames)
Running == frames # <<>> /\ ~Top.done /\ Top.pc < Top.end
Instruction == Code[Top.pc]
At(op) == Running /\ ~stopped /\ Instruction.op = op

Resize(s, n, filler) ==
  [i \in 1 .. n |-> IF i <= Len(s) THEN s[i] ELSE filler]

-----------------------------------------------------------------------------
(* What follows every instruction: collected diagnostics go to the nearest   *)
(* try of the frame, or end it; a return ends it; otherwise it goes on.      *)

RecoverWithoutBinding(rest, f, s, l, ds) ==
  LET try == Last(f.tries)
  IN /\ frames' = Append(rest, [f EXCEPT !.pc = try.catch, !.tries = Front(@)])
     /\ stack' = Resize(s, try.stack, 0)
     /\ lvals' = Resize(l, try.lvals, 0)
     /\ diags' = SubSeq(ds, 1, try.base)
     /\ UNCHANGED exception

(* recoverTryDiagnostic: f, above the frames `rest`, goes on at the handler
   with its stacks cut back to where the try began.                         *)
Recover(rest, f, s, l, ds) ==
  LET try == Last(f.tries)
  IN /\ frames' = Append(rest,
          [f EXCEPT !.pc = try.catch, !.tries = Front(@),
                    !.fors = Resize(@, try.fors, [left |-> 0, begin |-> NoPc]),
                    !.idxs = Resize(@, try.idxs, 0),
                    !.switches = Resize(@, try.switches,
                                   [matched |-> FALSE, begin |-> NoPc, end |-> NoPc])])
     /\ stack' = Resize(s, try.stack, 0)
     /\ lvals' = Resize(l, try.lvals, 0)
     /\ diags' = SubSeq(ds, 1, try.base)
     /\ exception' = Last(ds)

SettleCatchingStops(rest, f, next, s, l, ds) ==
  IF ds # <<>> /\ f.tries # <<>>
  THEN Recover(rest, f, s, l, ds)
  ELSE /\ frames' = Append(rest,
             IF ds # <<>> \/ f.return THEN [f EXCEPT !.done = TRUE]
                                      ELSE [f EXCEPT !.pc = next])
       /\ stack' = s /\ lvals' = l /\ diags' = ds
       /\ UNCHANGED exception

(* The tail of the instruction loop, for frame f that would go on at next.  *)
Settle(rest, f, next, s, l, ds) ==
  IF ds # <<>> /\ ~stopped /\ f.tries # <<>>
  THEN Recover(rest, f, s, l, ds)
  ELSE /\ frames' = Append(rest,
             IF ds # <<>> \/ f.return THEN [f EXCEPT !.done = TRUE]
                                      ELSE [f EXCEPT !.pc = next])
       /\ stack' = s /\ lvals' = l /\ diags' = ds
       /\ UNCHANGED exception

(* afterControlledInstruction: the stop is noticed before any recovery.     *)
StopAfter(rest, f, s, l, ds) ==
  /\ MayStop /\ ~stopped
  /\ stopped' = TRUE
  /\ frames' = Append(rest, [f EXCEPT !.done = TRUE])
  /\ stack' = s /\ lvals' = l /\ diags' = Append(ds, StopDiag)
  /\ UNCHANGED exception

AfterInstruction(rest, f, next, s, l, ds) ==
  /\ UNCHANGED program
  /\ \/ Settle(rest, f, next, s, l, ds) /\ UNCHANGED stopped
     \/ StopAfter(rest, f, s, l, ds)

Complete(f, next, s, l) == AfterInstruction(Front(frames), f, next, s, l, diags)
Fail(diag, f, s, l) ==
  AfterInstruction(Front(frames), f, f.pc + 1, s, l, Append(diags, diag))

Continue(s) == Complete(Top, Top.pc + 1, s, lvals)
Goto(f, target) == Complete(f, target, stack, lvals)

(* An instruction that pops n operands; popping too many is a diagnostic.   *)
Depth == Len(stack)
Pops(n, effect) ==
  IF Depth < n THEN Fail(Internal("underflow"), Top, <<>>, lvals) ELSE effect
Popped(n) == SubSeq(stack, 1, Depth - n)

(* One that needs a context: without it a diagnostic.                       *)
Needs(contexts, effect) ==
  IF contexts = <<>> THEN Fail(Internal(Instruction.op), Top, stack, lvals) ELSE effect

-----------------------------------------------------------------------------
(* Operand instructions *)

(* An unknown name or a failed expression pushes nothing.                   *)
LoadName(out) ==
  /\ At("LoadName")
  /\ out \in Outcomes(Instruction.event)
  /\ IF out = Raise
     THEN Fail(Instruction.event, Top, stack, lvals)
     ELSE Continue(Append(stack, out))

StoreName == At("StoreName") /\ Pops(1, Continue(Popped(1)))

(* "+" and "&&" alike: both operands are on the stack.                      *)
BinaryOp ==
  /\ At("BinaryOp")
  /\ Pops(2, Continue(Append(Popped(2), stack[Depth] * stack[Depth - 1])))

(* The body is skipped; the handle's value is its address.                  *)
MakeFunctionHandle ==
  At("MakeFunctionHandle")
  /\ Complete(Top, Instruction.target, Append(stack, Top.pc), lvals)

-----------------------------------------------------------------------------
(* Jumps *)

UnwindTriesOnly(f, target) ==
  LET kept == {i \in DOMAIN f.tries : /\ f.tries[i].begin < target
                                     /\ target <= f.tries[i].end}
  IN [f EXCEPT !.tries = SubSeq(@, 1, IF kept = {} THEN 0 ELSE Latest(kept))]

(* unwindStructuredContexts: leave every switch and try around the target.   *)
Unwind(f, target) ==
  LET inside(c) == c.begin < target /\ target <= c.end
      keep(s) == LET kept == {i \in DOMAIN s : inside(s[i])}
                 IN SubSeq(s, 1, IF kept = {} THEN 0 ELSE Latest(kept))
  IN [f EXCEPT !.switches = keep(@), !.tries = keep(@)]

Jump ==
  At("Jump") /\ Goto(Unwind(Top, Instruction.target), Instruction.target)

JumpIfFalse ==
  At("JumpIfFalse")
  /\ Pops(1, IF stack[Depth] = 0
             THEN Complete(Unwind(Top, Instruction.target), Instruction.target,
                           Popped(1), lvals)
             ELSE Continue(Popped(1)))

Return == At("Return") /\ Goto([Top EXCEPT !.return = TRUE], Top.pc + 1)

(* A frame never enters the definitions it meets in its range.              *)
SkipBoundary ==
  \/ At("EnterFunction") /\ Goto(Top, EndOf("boundary", Top.pc) + 1)
  \/ At("EnterArgumentDefault") /\ Goto(Top, Instruction.target)
  \/ (At("EnterModule") \/ At("LeaveModule")) /\ Goto(Top, Top.pc + 1)

-----------------------------------------------------------------------------
(* for *)

(* An empty range goes straight to the exit.                                *)
BeginFor ==
  At("ForBegin")
  /\ Pops(1, IF stack[Depth] = 0
             THEN Complete(Top, Instruction.target, Popped(1), lvals)
             ELSE Complete([Top EXCEPT !.fors = Append(@,
                              [left |-> stack[Depth] - 1, begin |-> Top.pc])],
                           Top.pc + 1, Popped(1), lvals))

Iterated(loops) ==
  LET loop == Last(loops) IN WithLast(loops, [loop EXCEPT !.left = @ - 1])

NextFor ==
  At("ForNext")
  /\ Needs(Top.fors,
       IF Last(Top.fors).left = 0
       THEN Goto([Top EXCEPT !.fors = Front(@)], Top.pc + 1)
       ELSE Goto([Top EXCEPT !.fors = Iterated(@)], Instruction.target))

BreakLoop ==
  At("Break")
  /\ Needs(Top.fors, Goto(Unwind([Top EXCEPT !.fors = Front(@)], Instruction.target),
                          Instruction.target))

ContinueLoop ==
  At("Continue") /\ Goto(Unwind(Top, Instruction.target), Instruction.target)

-----------------------------------------------------------------------------
(* switch *)

SwitchBegin ==
  At("SwitchBegin")
  /\ Pops(1, Complete([Top EXCEPT !.switches = Append(@,
                         [matched |-> FALSE, begin |-> Top.pc,
                          end |-> EndOf("switch", Top.pc)])],
                      Top.pc + 1, Popped(1), lvals))

Matched(f) ==
  [f EXCEPT !.switches = WithLast(@, [Last(@) EXCEPT !.matched = TRUE])]

(* The operand tells whether the case equals the selector.                  *)
SwitchCase ==
  At("SwitchCase")
  /\ Pops(1, Needs(Top.switches,
       IF Last(Top.switches).matched \/ stack[Depth] = 0
       THEN Complete(Top, Instruction.target, Popped(1), lvals)
       ELSE Complete(Matched(Top), Top.pc + 1, Popped(1), lvals)))

SwitchOtherwise ==
  At("SwitchOtherwise")
  /\ Needs(Top.switches,
       IF Last(Top.switches).matched THEN Goto(Top, Instruction.target)
                                     ELSE Goto(Matched(Top), Top.pc + 1))

SwitchEnd ==
  At("SwitchEnd")
  /\ Needs(Top.switches, Goto([Top EXCEPT !.switches = Front(@)], Top.pc + 1))

-----------------------------------------------------------------------------
(* try *)

TryBegin ==
  At("TryBegin")
  /\ Goto([Top EXCEPT !.tries = Append(@,
             [base |-> Len(diags), catch |-> Instruction.target,
              stack |-> Depth, fors |-> Len(Top.fors), idxs |-> Len(Top.idxs),
              lvals |-> Len(lvals), switches |-> Len(Top.switches),
              begin |-> Top.pc, end |-> EndOf("try", Top.pc)])],
          Top.pc + 1)

TryEnd ==
  At("TryEnd")
  /\ Needs(Top.tries, Goto([Top EXCEPT !.tries = Front(@)], Instruction.target))

-----------------------------------------------------------------------------
(* Index and lvalue contexts.  An index context holds its arity.            *)

BeginIndexContext ==
  At("BeginIndexContext")
  /\ Needs(stack, Goto([Top EXCEPT !.idxs = Append(@, Instruction.operandCount)],
                       Top.pc + 1))

BeginIndexArgument ==
  At("BeginIndexArgument") /\ Needs(Top.idxs, Goto(Top, Top.pc + 1))

BeginLvalue ==
  At("BeginLvalue") /\ Complete(Top, Top.pc + 1, stack, Append(lvals, Len(frames)))

BeginLvalueIndexContext ==
  At("BeginLvalueIndexContext")
  /\ Needs(lvals, Goto([Top EXCEPT !.idxs = Append(@, Instruction.operandCount)],
                       Top.pc + 1))

LvalueDescendMember ==
  At("LvalueDescendMember") /\ Needs(lvals, Goto(Top, Top.pc + 1))

(* finishIndexContext pops silently.                                        *)
FinishIndexContext(f) ==
  [f EXCEPT !.idxs = IF @ = <<>> THEN @ ELSE Front(@)]

(* The path is dropped before the assignment is tried.                      *)
StorePathIndex(out) ==
  /\ At("StorePathIndex")
  /\ out \in Outcomes(Instruction.event)
  /\ LET f == FinishIndexContext(Top)
         n == Instruction.operandCount + 1
     IN Pops(n, Needs(lvals,
          IF out = Raise THEN Fail(Instruction.event, f, Popped(n), Front(lvals))
          ELSE Complete(f, f.pc + 1, Popped(n), Front(lvals))))

-----------------------------------------------------------------------------
(* Calls.  The callee's frame starts with empty context stacks; operands and *)
(* lvalues of the caller stay below it.                                      *)

(* The default is evaluated before the body, in a range of its own.         *)
CallFunction ==
  /\ At("CallOrIndex") /\ ~Instruction.context
  /\ Pops(Instruction.operandCount + 1,
       LET entry == FunctionEntry
           below == Depth - Instruction.operandCount - 1
       IN /\ frames' = frames \o
               <<Frame("function", entry + 1, EndOf("boundary", entry), below),
                 Frame("default", entry + 2, EndOf("boundary", entry + 1), below)>>
          /\ stack' = SubSeq(stack, 1, below)
          /\ UNCHANGED <<program, lvals, diags, exception, stopped>>)

(* The handle called is the one created last.                               *)
CallAnonymous ==
  /\ At("CallOrIndex") /\ Instruction.context
  /\ Pops(Instruction.operandCount + 1,
       LET below == Depth - Instruction.operandCount - 1
           body == Latest({pc \in 1 .. Top.pc : Code[pc].op = "MakeFunctionHandle"})
       IN /\ frames' = Append(frames,
                         Frame("anonymous", body + 1, Code[body].target, below))
          /\ stack' = SubSeq(stack, 1, below)
          /\ UNCHANGED <<program, lvals, diags, exception, stopped>>)

Ended(kind) == frames # <<>> /\ Top.kind = kind /\ ~Running

Caller == frames[Len(frames) - 1]

(* Without a value the body is not entered.                                 *)
FinishDefault ==
  /\ Ended("default")
  /\ stack' = SubSeq(stack, 1, Top.base)
  /\ LET ds == IF diags = <<>> /\ Depth # Top.base + 1
               THEN <<Internal("default")>> ELSE diags
     IN /\ diags' = ds
        /\ frames' = WithLast(Front(frames), [Caller EXCEPT !.done = ds # <<>>])
  /\ UNCHANGED <<program, lvals, exception, stopped>>

(* The caller gets its own stacks back and its call instruction completes.  *)
ResumeCaller(f, s, ds) ==
  AfterInstruction(SubSeq(frames, 1, Len(frames) - 2),
                   f, f.pc + 1, Append(s, 1), lvals, ds)

FinishFunction == Ended("function") /\ ResumeCaller(Caller, stack, diags)

(* Only an anonymous call cuts the operands back and insists on a value.    *)
FinishAnonymous ==
  /\ Ended("anonymous")
  /\ ResumeCaller(FinishIndexContext(Caller), Resize(stack, Top.base, 0),
                  IF Depth <= Top.base /\ diags = <<>>
                  THEN <<Internal("noValue")>> ELSE diags)

-----------------------------------------------------------------------------
(* Control of the run *)

(* beforeControlledInstruction refuses: the frame ends, nothing recovers.    *)
StopBefore ==
  /\ MayStop /\ Running /\ ~stopped
  /\ stopped' = TRUE
  /\ diags' = Append(diags, StopDiag)
  /\ frames' = Append(Front(frames), [Top EXCEPT !.done = TRUE])
  /\ UNCHANGED <<program, stack, lvals, exception>>

StartMachine ==
  /\ Programs[program].accepted
  /\ frames = <<Frame("script", 1, Len(Code) + 1, 0)>>
  /\ stack = <<>> /\ lvals = <<>> /\ diags = <<>>
  /\ exception = NoDiag
  /\ stopped = FALSE

VmInit == program \in DOMAIN Programs /\ StartMachine

Terminated == Ended("script") /\ UNCHANGED vmVars

(* Steps in which the environment chooses, and all others.                  *)
Evaluate(out) == LoadName(out) \/ StorePathIndex(out)

Operate == StoreName \/ BinaryOp \/ MakeFunctionHandle
Transfer == Jump \/ JumpIfFalse \/ Return \/ SkipBoundary
Loop == BeginFor \/ NextFor \/ BreakLoop \/ ContinueLoop
Select == SwitchBegin \/ SwitchCase \/ SwitchOtherwise \/ SwitchEnd
Guarded == TryBegin \/ TryEnd
Address == \/ BeginIndexContext \/ BeginIndexArgument \/ BeginLvalue
           \/ BeginLvalueIndexContext \/ LvalueDescendMember
Call == CallFunction \/ CallAnonymous \/ FinishDefault \/ FinishFunction \/ FinishAnonymous

Machine == Operate \/ Transfer \/ Loop \/ Select \/ Guarded \/ Address \/ Call \/ StopBefore

AllOutcomes == {Raise} \cup 0 .. (MaxIterations + 1)

VmNext == (\E out \in AllOutcomes : Evaluate(out)) \/ Machine \/ Terminated

VmSpec == VmInit /\ [][VmNext]_vmVars

-----------------------------------------------------------------------------
(* Properties *)

Begins(contexts) == [i \in DOMAIN contexts |-> contexts[i].begin]
Totals(idxs) == [i \in DOMAIN idxs |-> idxs[i].total]

RangeDepth(f) == IF f.kind \in {"default", "anonymous"} THEN 1 ELSE 0

FlowOf(f) == Programs[program].flow[Range0(f.begin, f.end, RangeDepth(f))]

ContextsMatchVerifier ==
  LET f == Top
      expected == FlowOf(f)[f.pc]
      mine == {i \in DOMAIN lvals : lvals[i] = Len(frames)}
  IN Running =>
       /\ expected # None
       /\ Len(stack) = f.base + expected.depth
       /\ Begins(f.fors) = expected.for
       /\ Begins(f.switches) = expected.switch
       /\ Begins(f.tries) = expected.try
       /\ f.idxs = Totals(expected.contexts.idxs)
       /\ Cardinality(mine) = Len(expected.contexts.lvals)

RunsWithoutFault ==
  /\ \A i \in DOMAIN diags : diags[i][1] # <<>> \/ diags[i] = StopDiag
  /\ exception[1] # <<>> \/ exception \in {NoDiag, StopDiag}

RecoveryOnlyDiscards ==
  \A i \in DOMAIN Top.tries :
    LET try == Top.tries[i]
    IN /\ try.base <= Len(diags)
       /\ try.stack <= Len(stack)
       /\ try.fors <= Len(Top.fors)
       /\ try.idxs <= Len(Top.idxs)
       /\ try.lvals <= Len(lvals)
       /\ try.switches <= Len(Top.switches)

(* At every instruction the machine reaches, on every path, through catches,
   breaks out of switches and returns from calls, its operand depth and its
   context stacks are the ones the verifier computed for that instruction
   (docs/architecture.md: every merge preserves the complete operand and
   structured-context state).  Recovery only ever discards: no stack is shorter
   than an active try of the frame recorded, so resize never invents an operand
   or a loop.  And a verified program never meets the machine's
   own diagnostics: operand underflow, a loop, switch, try or index instruction
   without its context.                                                      *)
RunsAsVerified == ContextsMatchVerifier /\ RecoveryOnlyDiscards /\ RunsWithoutFault

(* A stop is a terminal failure of the request: no catch block ever binds an
   exception, and no frame goes on, once the run was stopped
   (docs/runtime-boundaries.md: resource stops are uncatchable).            *)
StopIsNotCaught ==
  [][stopped => /\ exception' = exception
                /\ Len(frames') <= Len(frames)
                /\ \A i \in DOMAIN frames' : frames'[i].pc = frames[i].pc]_vmVars

=============================================================================
