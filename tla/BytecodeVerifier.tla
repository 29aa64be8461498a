--------------------------- MODULE BytecodeVerifier ---------------------------
(***************************************************************************)
(* The verifier that every program passes before the virtual machine runs  *)
(* it (src/mparser/execution/bytecode/bytecode_verifier.cpp).              *)
(*                                                                         *)
(* A linear pass pairs the brackets of the boundary, for, switch and try   *)
(* families, target checks confine every jump, and a data-flow pass over   *)
(* each execution range computes the machine state at every reachable      *)
(* instruction.  Prepare(code) is the verdict with that flow: the states   *)
(* the machine is later required to have.  Diagnostics are abstracted to   *)
(* acceptance; validation stops at the first reason to reject.             *)
(***************************************************************************)
EXTENDS BytecodeFlow, ControlLowering

(* The brackets open before each instruction.                               *)
RECURSIVE LexicalFrom(_, _, _)
LexicalFrom(code, pc, lex) ==
  IF pc > Len(code) THEN lex
  ELSE LET step(f) == Bracket(lex[pc][f], f, code[pc].op, pc)
       IN LexicalFrom(code, pc + 1,
            Append(lex, [boundary |-> step("boundary"), for |-> step("for"),
                         switch |-> step("switch"), try |-> step("try")]))

Lexical(code) ==
  LexicalFrom(code, 1, <<[boundary |-> <<>>, for |-> <<>>, switch |-> <<>>, try |-> <<>>]>>)

-----------------------------------------------------------------------------
(* Index and lvalue contexts in the order of the instructions.              *)
RECURSIVE LexicalContexts(_, _, _, _)
LexicalContexts(code, lex, pc, c) ==
  IF pc > Len(code) \/ c = None THEN c
  ELSE LexicalContexts(code, lex, pc + 1,
         IF ContextsOwned(code, lex, c, pc) THEN StepContexts(c, code[pc], pc) ELSE None)

LexicalContextsOk(code, lex) == LexicalContexts(code, lex, 1, NoContexts) = NoContexts

-----------------------------------------------------------------------------
(* Data flow over one range.                                                *)
(* Merge one edge: the first state to arrive stays, every later one must     *)
(* equal it.                                                                 *)
Relax(lex, range, work, edge) ==
  LET target == edge[1]
      state == edge[2]
  IN IF /\ work.ok
        /\ target \in range.begin .. range.end
        /\ MatchesStructured(lex, state, target, range)
        /\ work.states[target] \in {None, state}
     THEN IF work.states[target] = None
          THEN [work EXCEPT !.states[target] = state,
                            !.queue = IF target < range.end THEN Append(@, target) ELSE @]
          ELSE work
     ELSE [work EXCEPT !.ok = FALSE]

RECURSIVE RelaxAll(_, _, _, _)
RelaxAll(lex, range, work, edges) ==
  IF edges = <<>> THEN work
  ELSE RelaxAll(lex, range, Relax(lex, range, work, Head(edges)), Tail(edges))

RECURSIVE Propagate(_, _, _, _)
Propagate(code, lex, range, work) ==
  IF ~work.ok \/ work.queue = <<>> THEN work
  ELSE LET pc == Head(work.queue)
           flow == Edges(code, lex, range, pc, work.states[pc])
           rest == [work EXCEPT !.queue = Tail(@), !.ok = flow.ok]
       IN Propagate(code, lex, range,
                    RelaxAll(lex, range, rest, flow.edges))

ValidateStackRange(code, lex, range) ==
  IF range.begin >= range.end
  THEN [ok |-> TRUE, states |-> [pc \in range.begin .. range.end |-> None]]
  ELSE LET start == [ok |-> TRUE, queue |-> <<range.begin>>,
                     states |-> [pc \in range.begin .. range.end |->
                                   IF pc = range.begin THEN EntryState ELSE None]]
           work == Propagate(code, lex, range, start)
       IN [ok |-> work.ok /\ ExitOk(range, work.states), states |-> work.states]

(* A program with its verdict and, when it is accepted, the flow of every
   execution range.                                                         *)
Prepare(code) ==
  LET lex == Lexical(code)
      sound == /\ StructuredRangesOk(code, lex)
               /\ TargetsOk(code, lex)
               /\ LexicalContextsOk(code, lex)
      flow == IF sound THEN [r \in ExecutionRanges(code, lex) |->
                               ValidateStackRange(code, lex, r)]
                       ELSE <<>>
  IN [code |-> code, lex |-> lex,
      accepted |-> sound /\ \A r \in DOMAIN flow : flow[r].ok,
      flow |-> [r \in DOMAIN flow |-> flow[r].states]]

=============================================================================
