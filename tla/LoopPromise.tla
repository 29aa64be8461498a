----------------------------- MODULE LoopPromise -----------------------------
(***************************************************************************)
(* What executing a for loop promises: one step, from the values before it *)
(* to the values LoopContract gives it, or to its failure and the values   *)
(* stored until then.                                                      *)
(***************************************************************************)
EXTENDS LoopContract

VARIABLES
  task,    \* [variable, body, range, before, limited]
  values,  \* the workspace, as the program can see it
  outcome  \* "running", "done" or "error"

promiseVars == <<task, values, outcome>>

Init ==
  /\ outcome = "running"
  /\ values = task.before

Result ==
  IF task.range.kind \notin {"number", "array"}
  THEN [failed |-> TRUE, workspace |-> values]
  ELSE RunOver(task.variable, Columns(task.range), task.body, values, task.limited)

Next ==
  /\ outcome = "running"
  /\ outcome' \in {"done", "error"}
  /\ outcome' = "error" <=> Result.failed
  /\ values' = Result.workspace
  /\ UNCHANGED task

Spec == Init /\ [][Next]_promiseVars

=============================================================================
