---------------------------- MODULE ControlEngines ----------------------------
(***************************************************************************)
(* The bytecode VM beside the reference interpreter: the VM runs and its   *)
(* evaluations are recorded; at the end the interpreter walks the same     *)
(* source against the recorded answers.                                    *)
(***************************************************************************)
EXTENDS ControlVm, ControlInterpreter

CONSTANTS
  Sources,    \* [main, function] of the programs compared
  MaxAnswers, \* a condition is true only before this many evaluations
  Comparable  \* parts of the events where both engines notice a failure

VARIABLE answers

engineVars == <<vmVars, answers>>

EnginesInit == program \in DOMAIN Sources /\ StartMachine /\ answers = <<>>

(* Every loop ends: `while` runs out of true conditions.                    *)
Answer(out) ==
  /\ Evaluate(out)
  /\ out = Raise => Instruction.event[2] \in Comparable
  /\ Instruction.event[2] = "cond" /\ out = 1 => Len(answers) < MaxAnswers
  /\ answers' = IF Instruction.event = NoEvent THEN answers
                ELSE Append(answers, <<Instruction.event, out>>)

(* A stopped run is the VM's alone: the interpreter obeys the debugger only.  *)
EnginesNext ==
  /\ \/ \E out \in AllOutcomes : Answer(out)
     \/ Machine /\ UNCHANGED answers
     \/ Terminated /\ UNCHANGED answers
  /\ ~stopped'

EnginesSpec == EnginesInit /\ [][EnginesNext]_engineVars

-----------------------------------------------------------------------------

Reference == Interpret(Sources[program], answers)

SameEvaluations == ~Reference.diverged /\ Reference.asked = Len(answers)

SameFailures == Reference.diagnostics = diags /\ Reference.caught = exception

(* The interpreter evaluates what the VM evaluated, in the same order, and
   nothing else: it is the reference that defines the semantics of the
   production engine (docs/architecture.md), short-circuit operators and
   skipped switch arms included; and both engines end with the same diagnostics
   and the same last caught exception (docs/history v0.73).                  *)
EnginesAgree == Ended("script") => SameEvaluations /\ SameFailures

=============================================================================
