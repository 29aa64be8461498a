------------------------- MODULE ExecutionControl -------------------------
(***************************************************************************)
(* RuntimeExecutionControl and the bytecode VM that obeys it.              *)
(*                                                                         *)
(* One invocation owns one control object: its limits, its optional        *)
(* cancellation token (an atomic that any thread may set), its optional    *)
(* debugger and the first stop reason.  The VM consults it before and      *)
(* after every instruction and on every call; dynamic source (eval,        *)
(* keyboard commands) runs a nested VM context that shares the control;    *)
(* input() and keyboard poll a host callback in a loop that must stay      *)
(* cancellable.                                                            *)
(*                                                                         *)
(* frames is the C++ recursion executeFunctionBody -> executeInstruction   *)
(* -> callFunctionInfo / evaluateRuntimeSource -> ...  The diagnostics of  *)
(* a VM context are kept with its innermost frame: a callee takes them     *)
(* over and hands them back, a nested context starts with none of its own. *)
(***************************************************************************)
EXTENDS Integers, Sequences

CONSTANTS
    LimitChoices,   \* the invocations considered: sets of limits and controls
    SizeMax,        \* std::numeric_limits<size_t>::max(), where counters saturate
    DepthBound,     \* bound: nesting of C++ frames explored
    TryBound,       \* bound: nesting of try blocks in one function
    WarnBound,      \* bound: warnings one VM context accumulates
    Payloads,       \* sizes of the largest live value
    ClockBound      \* bound: ticks of the steady clock

StopReasons == {"Cancelled", "InstructionLimit", "WallTimeLimit",
                "CallDepthLimit", "ArrayByteLimit", "DiagnosticLimit"}
None == "None"

\* RuntimeExecutionLimits with the two other things a control may carry.
Limits == [instructions : Nat, wallTime : Int, callDepth : Nat,
           arrayBytes : Nat, diagnostics : Nat,
           token : BOOLEAN, debugger : BOOLEAN]

ASSUME ConstantsOK ==
    /\ LimitChoices \subseteq Limits
    /\ SizeMax \in Nat \ {0}
    /\ DepthBound \in 1..SizeMax
    /\ TryBound \in Nat
    /\ WarnBound \in Nat
    /\ Payloads \subseteq Nat
    /\ 0 \in Payloads
    /\ ClockBound \in Nat

VARIABLES
    limits,      \* limits_, cancellation_, debugger_: fixed at construction
    requested,   \* the token's atomic flag, shared with other threads
    now,         \* steady_clock::now() - startedAt_
    stopReason,  \* stopReason_
    executed,    \* executedInstructionCount_ of the control
    depth,       \* currentCallDepth_
    maxima,      \* maximumCallDepth_, maximumArrayBytes_, maximumDiagnosticCount_
    inputActive, \* inputActive_
    state,       \* of the invocation: idle, running, done
    frames,      \* the active C++ frames of the VM, innermost last
    result,      \* the diagnostics the finished invocation returned
    live,        \* bytes of the largest live RuntimeValue
    poll         \* where readRuntimeInput is, and what the callback said

controlVars == <<limits, requested, now, stopReason, executed, depth, maxima,
                 inputActive>>
vmVars == <<state, frames, result, live, poll>>
vars == <<limits, requested, now, stopReason, executed, depth, maxima,
          inputActive, state, frames, result, live, poll>>
-----------------------------------------------------------------------------
(***************************************************************************)
(* The control object.  Its operations are functions of the stop reason    *)
(* they find; None as a result is the C++ "return true".                   *)
(***************************************************************************)
Stop(reason) == IF stopReason = None THEN reason ELSE stopReason

Active == \/ limits.instructions # 0
          \/ limits.wallTime # 0
          \/ limits.callDepth # 0
          \/ limits.arrayBytes # 0
          \/ limits.diagnostics # 0
          \/ limits.token
          \/ limits.debugger

Cancelled == limits.token /\ requested

ExpiredStrictly == \/ limits.wallTime < 0
                   \/ limits.wallTime > 0 /\ now > limits.wallTime

Expired == \/ limits.wallTime < 0
           \/ limits.wallTime > 0 /\ now >= limits.wallTime

CheckpointForgets ==
    IF Cancelled THEN "Cancelled" ELSE IF Expired THEN "WallTimeLimit" ELSE None

CheckpointDeaf ==
    IF stopReason = None /\ Expired THEN "WallTimeLimit" ELSE stopReason

Checkpoint ==
    IF stopReason # None THEN stopReason
    ELSE IF Cancelled THEN "Cancelled"
    ELSE IF Expired THEN "WallTimeLimit"
    ELSE None

BeforeInstructionLate ==
    IF Checkpoint = None /\ limits.instructions # 0
                         /\ executed > limits.instructions
    THEN "InstructionLimit" ELSE Checkpoint

BeforeInstruction ==
    IF Checkpoint = None /\ limits.instructions # 0
                         /\ executed >= limits.instructions
    THEN "InstructionLimit" ELSE Checkpoint

EnterCall ==
    IF Checkpoint = None /\ limits.callDepth # 0 /\ depth >= limits.callDepth
    THEN "CallDepthLimit" ELSE Checkpoint

Unsaturated(n) == n + 1

Saturated(n) == IF n = SizeMax THEN n ELSE n + 1

Larger(a, b) == IF a >= b THEN a ELSE b

Smaller(a, b) == IF a <= b THEN a ELSE b

TooManyBytes(bytes) == limits.arrayBytes # 0 /\ bytes > limits.arrayBytes

TooManyDiagnostics(count) ==
    limits.diagnostics # 0 /\ count > limits.diagnostics
-----------------------------------------------------------------------------
(***************************************************************************)
(* The VM: stacks, phases of the instruction in progress, diagnostics.     *)
(***************************************************************************)
Phases == {"before", "body", "input", "catch", "after", "leave"}
Kinds == {"entry", "call", "eval", "command"}

\* What a VM context has reported: warnings_, diagnostics_ (terminals of them
\* appended by addExecutionStopDiagnostic), executionStopDiagnosticAdded_.
Runs == [warns : Nat, errs : Nat, terminals : Nat, noted : BOOLEAN]

FreshRun == [warns |-> 0, errs |-> 0, terminals |-> 0, noted |-> FALSE]

\* One activation: entered_ of its ExecutionCallGuard, its tryContextStack_
\* depth, and for dynamic source whether a catch source was supplied.
Frames == [kind : Kinds, phase : Phases, tries : Nat, entered : BOOLEAN,
           catch : BOOLEAN, run : Runs]

Top == frames[Len(frames)]
AtPhase(phase) == frames # <<>> /\ Top.phase = phase
AtPoll(step) == AtPhase("input") /\ poll.step = step

\* The innermost frame moves to phase, its context having reported run.
Move(phase, run) ==
    frames' = [frames EXCEPT ![Len(frames)].phase = phase,
                             ![Len(frames)].run = run]

Failed(run) == [run EXCEPT !.errs = @ + 1]

PollSteps == {"idle", "check", "callback", "answered", "delivered"}
Answers == {"line", "garbled", "end", "error", "pending"}
NoPoll == [step |-> "idle", answer |-> "pending", bytes |-> 0, late |-> FALSE]

trimDiagnosticsToLimit(run) ==
    LET warns == Smaller(run.warns, limits.diagnostics)
        errs  == Smaller(run.errs, limits.diagnostics - warns)
    IN  [run EXCEPT !.warns = warns, !.errs = errs,
                    !.terminals = Larger(0, @ - (run.errs - errs))]

\* The terminal diagnostic, once per VM context.
addExecutionStopDiagnostic(run, reason) ==
    LET kept == IF reason = "DiagnosticLimit"
                THEN trimDiagnosticsToLimit(run) ELSE run
    IN  IF run.noted \/ reason = None THEN run
        ELSE [kept EXCEPT !.errs = @ + 1, !.terminals = @ + 1, !.noted = TRUE]

\* prepareExecutionControl and enterExecutionCall of a VM context about to
\* start: its own diagnostics are empty, the values it is given are observed.
EntryStop ==
    IF ~Active THEN None
    ELSE IF Checkpoint = None /\ TooManyBytes(live) THEN "ArrayByteLimit"
    ELSE EnterCall

CallStop == IF Active THEN EnterCall ELSE None

\* afterControlledInstruction.
AfterStopBlind ==
    IF ~Active THEN None
    ELSE IF Checkpoint # None THEN Checkpoint
    ELSE IF TooManyDiagnostics(Top.run.warns + Top.run.errs) THEN "DiagnosticLimit"
    ELSE None

AfterStop ==
    IF ~Active THEN None
    ELSE IF Checkpoint # None THEN Checkpoint
    ELSE IF TooManyBytes(live) THEN "ArrayByteLimit"
    ELSE IF TooManyDiagnostics(Top.run.warns + Top.run.errs) THEN "DiagnosticLimit"
    ELSE None

\* The stop reason after an operation of the control returned reason.
Record(reason) == IF reason = None THEN stopReason ELSE reason

EnteredDepth == IF Active THEN Saturated(depth) ELSE depth
LeftDepthAlways(frame) == IF Active /\ depth # 0 THEN depth - 1 ELSE depth

LeftDepth(frame) ==
    IF Active /\ frame.entered /\ depth # 0 THEN depth - 1 ELSE depth

ObserveBytes(bytes) == [maxima EXCEPT !.bytes = Larger(@, bytes)]

\* Enter a callee or a VM context that has reported run.
Push(kind, catch, run, reason) ==
    /\ stopReason' = Record(reason)
    /\ frames' = Append(frames,
           [kind |-> kind, tries |-> 0, catch |-> catch,
            entered |-> reason = None,
            run |-> addExecutionStopDiagnostic(run, reason),
            phase |-> IF reason = None THEN "before" ELSE "leave"])
    /\ depth' = IF reason = None THEN EnteredDepth ELSE depth
    /\ maxima' = [maxima EXCEPT
           !.depth = IF reason = None THEN Larger(@, EnteredDepth) ELSE @,
           !.bytes = IF kind # "call" /\ Active /\ Checkpoint = None
                        /\ limits.arrayBytes # 0
                     THEN Larger(@, live) ELSE @]

-----------------------------------------------------------------------------
Init ==
    /\ limits \in LimitChoices
    /\ requested = FALSE
    /\ now = 0
    /\ stopReason = None
    /\ executed = 0
    /\ depth = 0
    /\ maxima = [depth |-> 0, bytes |-> 0, diags |-> 0]
    /\ inputActive = FALSE
    /\ state = "idle"
    /\ frames = <<>>
    /\ result = FreshRun
    /\ live \in Payloads
    /\ poll = NoPoll

\* Another thread: RuntimeCancellationToken::requestCancellation.
RequestCancellation ==
    /\ limits.token
    /\ ~requested
    /\ requested' = TRUE
    /\ UNCHANGED <<limits, now, stopReason, executed, depth, maxima,
                   inputActive, vmVars>>

Tick ==
    /\ now < ClockBound
    /\ now' = now + 1
    /\ UNCHANGED <<limits, requested, stopReason, executed, depth, maxima,
                   inputActive, vmVars>>

\* run(): the context of the invocation itself.
Start ==
    /\ state = "idle"
    /\ state' = "running"
    /\ Push("entry", FALSE, FreshRun, EntryStop)
    /\ UNCHANGED <<limits, requested, now, executed, inputActive, result, live,
                   poll>>

\* beforeControlledInstruction and the dispatch it guards.
DispatchSilently ==
    LET reason == IF Active THEN BeforeInstruction ELSE None
    IN  /\ AtPhase("before")
        /\ stopReason' = Record(reason)
        /\ Move(IF reason = None THEN "body" ELSE "leave", Top.run)
        /\ UNCHANGED <<limits, requested, now, executed, depth, maxima,
                       inputActive, state, result, live, poll>>

Dispatch ==
    LET reason == IF Active THEN BeforeInstruction ELSE None
    IN  /\ AtPhase("before")
        /\ stopReason' = Record(reason)
        /\ Move(IF reason = None THEN "body" ELSE "leave",
                addExecutionStopDiagnostic(Top.run, reason))
        /\ UNCHANGED <<limits, requested, now, executed, depth, maxima,
                       inputActive, state, result, live, poll>>

\* An instruction that computes: it may change the largest live value and
\* issue a warning.
Compute ==
    /\ AtPhase("body")
    /\ live' \in Payloads
    /\ \/ Move("after", Top.run)
       \/ /\ \A i \in DOMAIN frames : frames[i].run.warns < WarnBound
          /\ Move("after", [Top.run EXCEPT !.warns = @ + 1])
    /\ UNCHANGED <<controlVars, state, result, poll>>

\* An instruction that fails with a language error.
Raise ==
    /\ AtPhase("body")
    /\ Move("after", Failed(Top.run))
    /\ UNCHANGED <<controlVars, state, result, live, poll>>

TryBegin ==
    /\ AtPhase("body")
    /\ Top.tries < TryBound
    /\ frames' = [frames EXCEPT ![Len(frames)].tries = @ + 1,
                                ![Len(frames)].phase = "after"]
    /\ UNCHANGED <<controlVars, state, result, live, poll>>

TryEnd ==
    /\ AtPhase("body")
    /\ Top.tries > 0
    /\ frames' = [frames EXCEPT ![Len(frames)].tries = @ - 1,
                                ![Len(frames)].phase = "after"]
    /\ UNCHANGED <<controlVars, state, result, live, poll>>

\* The debugger's statement hook: the host stops, its callback throws, or the
\* control stopped while it was paused.
DebugStatement ==
    \E outcome \in {"stop", "throw", "proceed"} :
       LET reason == IF outcome = "proceed" THEN Checkpoint
                                            ELSE Stop("Cancelled")
           run    == IF outcome = "throw" THEN Failed(Top.run) ELSE Top.run
       IN  /\ limits.debugger
           /\ AtPhase("body")
           /\ reason # None
           /\ stopReason' = reason
           /\ Move("after", addExecutionStopDiagnostic(run, reason))
           /\ UNCHANGED <<limits, requested, now, executed, depth, maxima,
                          inputActive, state, result, live, poll>>

\* A call of a function or of an anonymous function.
CallFunction ==
    /\ AtPhase("body")
    /\ Len(frames) < DepthBound
    /\ Push("call", FALSE, Top.run, CallStop)
    /\ UNCHANGED <<limits, requested, now, executed, inputActive, state,
                   result, live, poll>>

\* eval, evalc, evalin: a nested VM context under the same control.
EvalSource ==
    /\ AtPhase("body")
    /\ Len(frames) < DepthBound
    /\ \E catch \in BOOLEAN : Push("eval", catch, FreshRun, EntryStop)
    /\ UNCHANGED <<limits, requested, now, executed, inputActive, state,
                   result, live, poll>>

\* Source that does not compile or is denied, with a catch source.
EvalRejected ==
    /\ AtPhase("body")
    /\ Len(frames) < DepthBound
    /\ Move("catch", Top.run)
    /\ UNCHANGED <<controlVars, state, result, live, poll>>

EvalCatch ==
    /\ AtPhase("catch")
    /\ Push("eval", FALSE, FreshRun, EntryStop)
    /\ UNCHANGED <<limits, requested, now, executed, inputActive, state,
                   result, live, poll>>

\* recoverTryDiagnostic, or the end of the body, or the next instruction.
Continue(run) ==
    \/ /\ run.errs > 0
       /\ Top.tries > 0
       /\ frames' = [frames EXCEPT
              ![Len(frames)].tries = @ - 1,
              ![Len(frames)].phase = "before",
              ![Len(frames)].run = [run EXCEPT !.errs = 0, !.terminals = 0]]
    \/ /\ run.errs > 0
       /\ Top.tries = 0
       /\ Move("leave", run)
    \/ /\ run.errs = 0
       /\ \E phase \in {"before", "leave"} : Move(phase, run)

\* afterControlledInstruction and what the loop does next.
AfterInstruction ==
    LET run     == Top.run
        counted == Active /\ Checkpoint = None
    IN  /\ AtPhase("after")
        /\ executed' = IF Active THEN Saturated(executed) ELSE executed
        /\ stopReason' = Record(AfterStop)
        /\ maxima' = [maxima EXCEPT
               !.bytes = IF counted /\ limits.arrayBytes # 0
                         THEN Larger(@, live) ELSE @,
               !.diags = IF counted /\ ~TooManyBytes(live)
                            /\ limits.diagnostics # 0
                         THEN Larger(@, run.warns + run.errs) ELSE @]
        /\ IF AfterStop = None
           THEN Continue(run)
           ELSE Move("leave", addExecutionStopDiagnostic(run, AfterStop))
        /\ UNCHANGED <<limits, requested, now, depth, inputActive, state,
                       result, live, poll>>

\* The frame of the caller, and the innermost frame popped: the caller goes
\* on at phase, its context having reported run.
Caller == frames[Len(frames) - 1]

PopTo(phase, run) ==
    frames' = [SubSeq(frames, 1, Len(frames) - 1) EXCEPT
                   ![Len(frames) - 1].phase = phase,
                   ![Len(frames) - 1].run = run]

Leaving(kind) ==
    /\ AtPhase("leave")
    /\ Top.kind = kind
    /\ depth' = LeftDepth(Top)
    /\ UNCHANGED <<limits, requested, now, executed, live>>

\* The invocation returns its result.
LeaveEntry ==
    /\ Leaving("entry")
    /\ state' = "done"
    /\ frames' = <<>>
    /\ result' = Top.run
    /\ UNCHANGED <<stopReason, maxima, inputActive, poll>>

LeaveCall ==
    /\ Leaving("call")
    /\ PopTo("after", Top.run)
    /\ UNCHANGED <<stopReason, maxima, inputActive, state, result, poll>>

\* The caller's context after a nested one that reported run.
Merged(run) ==
    [Caller.run EXCEPT !.warns = @ + run.warns,
                       !.errs = @ + run.errs,
                       !.terminals = @ + run.terminals]

\* evaluateRuntimeSource returns; a failed source with a catch source has its
\* errors dropped and the catch source evaluated in a context of its own.
LeaveEval ==
    /\ Leaving("eval")
    /\ IF Top.run.errs > 0 /\ Top.catch
       THEN PopTo("catch", Merged([Top.run EXCEPT !.errs = 0, !.terminals = 0]))
       ELSE PopTo("after", Merged(Top.run))
    /\ UNCHANGED <<stopReason, maxima, inputActive, state, result, poll>>
-----------------------------------------------------------------------------
(***************************************************************************)
(* input and keyboard: interactiveBuiltin around readRuntimeInput.         *)
(***************************************************************************)
InputUnchanged == UNCHANGED <<limits, requested, now, executed, depth, state,
                              result, live>>

BeginPoll == /\ poll' = [NoPoll EXCEPT !.step = "check"]
             /\ inputActive' = TRUE

EndPoll == /\ poll' = NoPoll
           /\ inputActive' = FALSE

\* The builtin returns, with an error diagnostic unless it succeeded.
EndInput(succeeded) ==
    /\ EndPoll
    /\ Move("after", IF succeeded THEN Top.run ELSE Failed(Top.run))

Interact ==
    /\ AtPhase("body")
    /\ BeginPoll
    /\ Move("input", Top.run)
    /\ UNCHANGED <<stopReason, maxima>>
    /\ InputUnchanged

\* while (control.checkpoint()) ...
PollCheck ==
    /\ AtPoll("check")
    /\ stopReason' = Checkpoint
    /\ IF Checkpoint = None
       THEN /\ poll' = [poll EXCEPT !.step = "callback"]
            /\ UNCHANGED <<inputActive, frames>>
       ELSE EndInput(FALSE)
    /\ UNCHANGED maxima
    /\ InputUnchanged

\* The host callback returns; late remembers whether cancellation had been
\* requested by then.
HostAnswers ==
    /\ AtPoll("callback")
    /\ \E answer \in Answers, bytes \in Payloads :
          poll' = [step |-> "answered", answer |-> answer, bytes |-> bytes,
                   late |-> Cancelled]
    /\ UNCHANGED <<stopReason, maxima, inputActive, frames>>
    /\ InputUnchanged

\* The checkpoint after the callback.
AnswerUnchecked == stopReason

AnswerCheck == Checkpoint

\* What readRuntimeInput makes of the answer.
PollAnswer ==
    LET line == AnswerCheck = None /\ poll.answer \in {"line", "garbled"}
        fits == ~TooManyBytes(poll.bytes)
    IN  /\ AtPoll("answered")
        /\ maxima' = IF line THEN ObserveBytes(poll.bytes) ELSE maxima
        /\ stopReason' = IF line /\ ~fits THEN "ArrayByteLimit" ELSE AnswerCheck
        /\ \/ /\ line /\ fits /\ poll.answer = "line"
              /\ poll' = [poll EXCEPT !.step = "delivered"]
              /\ inputActive' = FALSE
              /\ UNCHANGED frames
           \/ /\ AnswerCheck = None /\ poll.answer = "pending"
              /\ BeginPoll
              /\ UNCHANGED frames
           \/ /\ \/ AnswerCheck # None
                 \/ poll.answer \in {"garbled", "end", "error"}
                 \/ poll.answer = "line" /\ ~fits
              /\ EndInput(FALSE)
        /\ InputUnchanged

\* Text, an empty expression, dbcont or return: the script goes on.
Resume ==
    /\ AtPoll("delivered")
    /\ EndInput(TRUE)
    /\ UNCHANGED <<stopReason, maxima>>
    /\ InputUnchanged

\* A blank keyboard command: ask again.
BlankCommand ==
    /\ AtPoll("delivered")
    /\ BeginPoll
    /\ UNCHANGED <<stopReason, maxima, frames>>
    /\ InputUnchanged

\* The keyboard command dbquit.
Quit ==
    /\ AtPoll("delivered")
    /\ stopReason' = Stop("Cancelled")
    /\ EndInput(FALSE)
    /\ UNCHANGED maxima
    /\ InputUnchanged

\* A line to evaluate, in a VM context of its own.
EvaluateLine ==
    /\ AtPoll("delivered")
    /\ Len(frames) < DepthBound
    /\ poll' = NoPoll
    /\ Push("command", FALSE, FreshRun, EntryStop)
    /\ UNCHANGED <<limits, requested, now, executed, inputActive, state,
                   result, live>>

\* The line was evaluated.  Success ends input and continues keyboard; an
\* error is shown and another line is requested, unless the control stopped,
\* evaluation was denied or the diagnostic could not be shown.
LeaveCommand ==
    /\ Leaving("command")
    /\ stopReason' = IF Top.run.errs > 0 THEN Checkpoint ELSE stopReason
    /\ \/ /\ Top.run.errs = 0 \/ Checkpoint = None
          /\ BeginPoll
          /\ PopTo("input", Caller.run)
       \/ /\ EndPoll
          /\ PopTo("after", IF Top.run.errs = 0 THEN Caller.run
                                                ELSE Failed(Caller.run))
    /\ UNCHANGED <<maxima, state, result>>

Terminated == state = "done" /\ UNCHANGED vars
-----------------------------------------------------------------------------
VmStep ==
    \/ Start \/ Dispatch \/ Compute \/ Raise \/ TryBegin \/ TryEnd
    \/ DebugStatement \/ CallFunction \/ EvalSource \/ EvalRejected
    \/ EvalCatch
    \/ AfterInstruction \/ LeaveEntry \/ LeaveCall \/ LeaveEval
    \/ LeaveCommand

InputStep ==
    \/ Interact \/ PollCheck \/ HostAnswers \/ PollAnswer \/ Resume
    \/ BlankCommand \/ Quit \/ EvaluateLine

Next == VmStep \/ InputStep \/ RequestCancellation \/ Tick \/ Terminated

Spec == Init /\ [][Next]_vars

\* The execution thread keeps running, host callbacks return and the clock
\* advances.
FairSpec == Spec /\ WF_vars(VmStep \/ InputStep) /\ WF_vars(Tick)
-----------------------------------------------------------------------------
(***************************************************************************)
(* Properties.                                                             *)
(***************************************************************************)
TypeOK ==
    /\ limits \in LimitChoices
    /\ requested \in BOOLEAN
    /\ now \in 0..ClockBound
    /\ stopReason \in StopReasons \cup {None}
    /\ executed \in 0..SizeMax
    /\ depth \in 0..SizeMax
    /\ maxima \in [depth : Nat, bytes : Nat, diags : Nat]
    /\ inputActive \in BOOLEAN
    /\ state \in {"idle", "running", "done"}
    /\ frames \in Seq(Frames)
    /\ result \in Runs
    /\ live \in Payloads
    /\ poll \in [step : PollSteps, answer : Answers, bytes : Payloads,
                 late : BOOLEAN]

\* Calls entered and left by ExecutionCallGuard, nested contexts included,
\* balance on every path: currentCallDepth_ is the number of entered frames,
\* so nothing is left counted when the invocation is over.
CallsBalance ==
    depth = IF ~Active \/ frames = <<>> THEN 0
            ELSE IF Top.entered THEN Len(frames) ELSE Len(frames) - 1

\* completeInstruction counts an instruction when it ends, so the calls in
\* progress when the budget runs out are counted later: the count may pass
\* maxInstructionCount, but only by the nesting reached.
BudgetOverrun ==
    limits.instructions # 0 =>
        executed <= limits.instructions + Larger(maxima.depth, 1) - 1

\* dbquit, like every stop, is final: no instruction is dispatched after it.
StoppedRunsNothing == AtPhase("body") => stopReason = None

\* In a controlled invocation no instruction is dispatched once the control
\* has stopped, nor while a live value or the diagnostics of its context
\* exceed their limits; in any invocation none is with an error unhandled.
DispatchWithinBudgets ==
    /\ Active => StoppedRunsNothing
    /\ AtPhase("body") =>
          /\ Top.run.errs = 0
          /\ Active => /\ ~TooManyBytes(live)
                       /\ ~TooManyDiagnostics(Top.run.warns)

\* In a controlled invocation the result of a stop carries the terminal
\* diagnostic: a script removes it neither with try/catch, nor with eval's
\* catch source, nor in a keyboard command.
UncatchableStop ==
    Active /\ state = "done" /\ stopReason # None => result.terminals > 0

\* "Cancellation wins even when a callback supplies a completed line": a line
\* the host returned after cancellation was requested is never used.
LateLineDropped == poll.step = "delivered" => ~poll.late /\ stopReason = None

\* A stop appends one terminal diagnostic to the result.
OneTerminalDiagnostic == state = "done" => result.terminals <= 1

\* The first stop reason is the one the summary reports.
FirstReasonWins == [][stopReason # None => stopReason' = stopReason]_vars

\* A requested cancellation ends the invocation, whatever the script loops
\* over and although the host never supplies an input line.
CancellationStops == state = "running" /\ Cancelled ~> state = "done"

\* So does the wall-clock limit.
DeadlineStops ==
    limits.wallTime \in 1..ClockBound /\ state = "running" ~> state = "done"
=============================================================================
