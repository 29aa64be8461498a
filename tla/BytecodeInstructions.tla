------------------------- MODULE BytecodeInstructions -------------------------
(***************************************************************************)
(* Instructions of the linear bytecode (bytecode.h, BytecodeInstruction).  *)
(* Program counters are 1-based; Len(code) + 1 is one past the end.  An    *)
(* expression whose value or failure the environment chooses carries an    *)
(* event, <<path, part>>: the path of its statement stands for its span.   *)
(***************************************************************************)
EXTENDS Integers, Sequences, SequencesExt

NoEvent == <<<<>>, "none">>
Event(path, part) == <<path, part>>

(* The outcome of an event whose evaluation fails.                          *)
Raise == -1

NoTarget == -1

(* Targets that an enclosing construct patches once it knows the address.   *)
BreakTarget == -2
ContinueTarget == -3
ExitTarget == -4

Emit(op) ==
  [op |-> op, operandCount |-> 0, results |-> 1, target |-> NoTarget,
   event |-> NoEvent, context |-> FALSE]

EmitN(op, operands) == [Emit(op) EXCEPT !.operandCount = operands]
EmitTo(op, target) == [Emit(op) EXCEPT !.target = target]
Load(path, part) == [Emit("LoadName") EXCEPT !.event = Event(path, part)]

(* Every instruction that still waits for `mark` gets its address.          *)
PatchTarget(code, mark, target) ==
  [i \in DOMAIN code |->
     IF code[i].target = mark THEN [code[i] EXCEPT !.target = target]
                              ELSE code[i]]

=============================================================================
