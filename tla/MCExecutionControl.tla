------------------------ MODULE MCExecutionControl ------------------------
(* Small invocations for TLC: each control alone and in telling pairs.     *)
EXTENDS ExecutionControl

Unlimited == [instructions |-> 0, wallTime |-> 0, callDepth |-> 0,
              arrayBytes |-> 0, diagnostics |-> 0,
              token |-> FALSE, debugger |-> FALSE]

MCControlled ==
    { [Unlimited EXCEPT !.instructions = 2],
      [Unlimited EXCEPT !.wallTime = 1, !.token = TRUE],
      [Unlimited EXCEPT !.wallTime = -1],
      [Unlimited EXCEPT !.callDepth = 2],
      [Unlimited EXCEPT !.arrayBytes = 1, !.debugger = TRUE],
      [Unlimited EXCEPT !.diagnostics = 1] }

MCUncontrolled == { Unlimited }

MCLive == { [Unlimited EXCEPT !.token = TRUE],
            [Unlimited EXCEPT !.wallTime = 2] }

MCCancellable == { [Unlimited EXCEPT !.token = TRUE] }
=============================================================================
