----------------------------- MODULE Debugger -----------------------------
(***************************************************************************)
(* RuntimeDebugger: one object shared by the thread that executes a script *)
(* and the threads of the host that configure it.                          *)
(*                                                                         *)
(* Every action below is one critical section of mutex_, except that the   *)
(* two adjacent sections before the host callback are one action: between  *)
(* them the executing thread calls nobody.  statement() gives the lock up  *)
(* to evaluate breakpoint conditions and to call the host; both may run    *)
(* nested script code, which enters and leaves scopes of its own.          *)
(***************************************************************************)
EXTENDS Integers, Sequences, FiniteSets

CONSTANTS
    Threads,         \* threads that may execute scripts with this debugger
    Sources, Lines,  \* where statements are
    Conditions,      \* breakpoint conditions other than the empty one
    NoThread,        \* std::thread::id{}
    BreakBound,      \* bound: breakpoints configured
    ScopeBound,      \* bound: nested RuntimeDebugScopes
    EventBound       \* bound: events numbered

ASSUME DebuggerAssumption ==
    /\ NoThread \notin Threads
    /\ "" \notin Conditions
    /\ BreakBound \in Nat /\ ScopeBound \in Nat /\ EventBound \in Nat

RuntimeDebugAction == {"Continue", "StepInto", "StepOver", "StepOut", "Stop"}
RuntimeBreakpoint ==
    [source : Sources, line : Lines, condition : Conditions \cup {""}]
None == "None"

VARIABLES
    breakpoints,        \* breakpoints_, in configuration order
    pauseRequested,     \* pauseRequested_
    executionThread,    \* executionThread_
    scopes,             \* scopes_: has the frame executed a statement yet?
    action,             \* action_
    stepDepth,          \* stepDepth_
    sequence,           \* sequence_
    inCallback,         \* inCallback_
    evaluating,         \* evaluating_
    hostCallbackActive, \* hostCallbackActive_
    sourceAction,       \* sourceAction_
    pausedSequence,     \* pausedSequence_
    selectedFrame,      \* selectedFrame_
    pausedEvaluators,   \* pausedEvaluators_.size()
    pausedFrames,       \* pausedFrames_.size()
    pc,                 \* where each thread is
    own,                \* the RuntimeDebugScopes each thread has alive
    event               \* statement()'s locals, of each thread

config == <<breakpoints, pauseRequested>>
stack == <<executionThread, scopes, own>>
stepping == <<action, stepDepth>>
paused == <<pausedSequence, selectedFrame, pausedEvaluators, pausedFrames>>
flags == <<inCallback, evaluating, hostCallbackActive>>
debuggerVars == <<breakpoints, pauseRequested, executionThread, scopes, action,
          stepDepth, sequence, inCallback, evaluating, hostCallbackActive,
          sourceAction, pausedSequence, selectedFrame, pausedEvaluators,
          pausedFrames, pc, own, event>>

Places == {"idle",        \* not executing a script under this debugger
           "running",     \* executing script statements
           "conditions",  \* in statement(), choosing the next condition
           "condition",   \* evaluating a condition
           "presenting",  \* in statement(), decided to pause
           "callback",    \* in the host's pause callback
           "evaluation",  \* evaluating for the host
           "unwinding"}   \* an exception is on its way out of statement()

InStatement == Places \ {"idle", "running"}
Nested == {"condition", "evaluation"}

\* What statement() keeps while it has released the lock: the event number,
\* the frames it collected, the scopes below it, the conditions left to try,
\* why it may pause, and the event the host asked to evaluate in.
Events == [sequence : Nat, frames : Nat, base : Nat,
           conditions : Seq(Conditions \cup {""}), recollect : BOOLEAN,
           breakpoint : BOOLEAN, pause : BOOLEAN, step : BOOLEAN,
           diagnostic : BOOLEAN, asked : Nat]
NoEvent == [sequence |-> 0, frames |-> 0, base |-> 0, conditions |-> <<>>,
            recollect |-> FALSE, breakpoint |-> FALSE, pause |-> FALSE,
            step |-> FALSE, diagnostic |-> FALSE, asked |-> 0]
-----------------------------------------------------------------------------
DebuggerInit ==
    /\ breakpoints = <<>>
    /\ pauseRequested = FALSE
    /\ executionThread = NoThread
    /\ scopes = <<>>
    /\ action = "Continue"
    /\ stepDepth = 0
    /\ sequence = 0
    /\ inCallback = FALSE
    /\ evaluating = FALSE
    /\ hostCallbackActive = FALSE
    /\ sourceAction = None
    /\ pausedSequence = 0
    /\ selectedFrame = 0
    /\ pausedEvaluators = 0
    /\ pausedFrames = 0
    /\ pc = [t \in Threads |-> "idle"]
    /\ own = [t \in Threads |-> 0]
    /\ event = [t \in Threads |-> NoEvent]

Goto(t, place) == pc' = [pc EXCEPT ![t] = place]
-----------------------------------------------------------------------------
(***************************************************************************)
(* Configuration, by the host's threads or by dbstop and dbclear.          *)
(***************************************************************************)
setBreakpoints ==
    /\ \E n \in 0..BreakBound : breakpoints' \in [1..n -> RuntimeBreakpoint]
    /\ UNCHANGED <<pauseRequested, stack, stepping, sequence, flags,
                   sourceAction, paused, pc, event>>

setSourceBreakpoint(point) ==
    LET Elsewhere(p) == p.source # point.source \/ p.line # point.line
        kept == SelectSeq(breakpoints, Elsewhere)
    IN  /\ Len(kept) < BreakBound
        /\ breakpoints' = Append(kept, point)
        /\ UNCHANGED <<pauseRequested, stack, stepping, sequence, flags,
                       sourceAction, paused, pc, event>>

\* line 0 stands for the whole source.
clearSourceBreakpoints(source, line) ==
    LET Kept(p) == p.source # source \/ (line # 0 /\ p.line # line)
    IN  /\ breakpoints' = SelectSeq(breakpoints, Kept)
        /\ UNCHANGED <<pauseRequested, stack, stepping, sequence, flags,
                       sourceAction, paused, pc, event>>

requestPause ==
    /\ pauseRequested' = TRUE
    /\ UNCHANGED <<breakpoints, stack, stepping, sequence, flags,
                   sourceAction, paused, pc, event>>
-----------------------------------------------------------------------------
(***************************************************************************)
(* Scopes: an invocation, a call or a nested evaluation begins and ends.   *)
(***************************************************************************)
EnterAnywhere(t) == TRUE

EnterAccepted(t) ==
    /\ scopes = <<>> \/ executionThread = t
    /\ ~inCallback \/ evaluating

enterScope(t) ==
    /\ pc[t] \in {"idle", "running", "callback"} \cup Nested
    /\ Len(scopes) < ScopeBound
    /\ EnterAccepted(t)
    /\ scopes' = Append(scopes, FALSE)
    /\ executionThread' = t
    /\ own' = [own EXCEPT ![t] = @ + 1]
    /\ Goto(t, IF pc[t] = "idle" THEN "running" ELSE pc[t])
    /\ UNCHANGED <<config, stepping, sequence, flags, sourceAction, paused,
                   event>>

leaveScope(t) ==
    /\ pc[t] \in {"running"} \cup Nested
    /\ own[t] > event[t].base
    /\ scopes' = SubSeq(scopes, 1, Len(scopes) - 1)
    /\ own' = [own EXCEPT ![t] = @ - 1]
    /\ Goto(t, IF own[t] = 1 THEN "idle" ELSE pc[t])
    /\ IF Len(scopes) = 1
       THEN /\ executionThread' = NoThread
            /\ action' = "Continue"
            /\ stepDepth' = 0
       ELSE UNCHANGED <<executionThread, stepping>>
    /\ UNCHANGED <<config, sequence, flags, sourceAction, paused, event>>
-----------------------------------------------------------------------------
(***************************************************************************)
(* statement(), called before every executable statement.                  *)
(***************************************************************************)
\* The frame of the statement now has a location, so it is collected.
Located == [scopes EXCEPT ![Len(scopes)] = TRUE]
Depth(stk) == Cardinality({i \in DOMAIN stk : stk[i]})

Matching(source, line) ==
    LET At(p) == p.source = source /\ p.line = line
        points == SelectSeq(breakpoints, At)
    IN  [i \in DOMAIN points |-> points[i].condition]

Steps(depth) == \/ action = "StepInto"
                \/ action = "StepOver" /\ depth <= stepDepth
                \/ action = "StepOut" /\ depth < stepDepth

Executing(t) == pc[t] \in {"running"} \cup Nested /\ own[t] > event[t].base

\* The statement is executed at once, or (Stop) the invocation ends.
StatementProceeds(t, source, line) ==
    /\ Executing(t)
    /\ scopes' = Located
    /\ \/ action = "Stop"
       \/ evaluating
       \/ /\ Matching(source, line) = <<>>
          /\ ~pauseRequested
          /\ ~Steps(Depth(Located))
    /\ UNCHANGED <<config, executionThread, own, stepping, sequence, flags,
                   sourceAction, paused, pc, event>>

\* It may pause: the event is numbered and the frames are collected.
StatementSuspends(t, source, line) ==
    LET conditions == Matching(source, line)
        depth      == Depth(Located)
    IN  /\ Executing(t)
        /\ sequence < EventBound
        /\ action # "Stop"
        /\ ~evaluating
        /\ conditions # <<>> \/ pauseRequested \/ Steps(depth)
        /\ scopes' = Located
        /\ pauseRequested' = FALSE
        /\ sequence' = sequence + 1
        /\ pausedSequence' = sequence
        /\ pausedEvaluators' = depth
        /\ inCallback' = TRUE
        /\ sourceAction' = None
        /\ event' = [event EXCEPT ![t] =
               [NoEvent EXCEPT !.sequence = sequence, !.frames = depth,
                               !.base = own[t], !.conditions = conditions,
                               !.recollect = conditions # <<>>,
                               !.pause = pauseRequested,
                               !.step = Steps(depth)]]
        /\ Goto(t, "conditions")
        /\ UNCHANGED <<breakpoints, executionThread, own, stepping, evaluating,
                       hostCallbackActive, selectedFrame, pausedFrames>>

\* The admission test of evaluate(); a rejected request changes nothing.
AdmittedAnySequence(t, seq, frame) ==
    /\ inCallback
    /\ executionThread = t
    /\ ~evaluating
    /\ frame < pausedEvaluators

Admitted(t, seq, frame) ==
    /\ inCallback /\ seq = pausedSequence
    /\ executionThread = t
    /\ ~evaluating
    /\ frame < pausedEvaluators

\* The next condition: an empty one holds, any other is evaluated in the
\* innermost frame; a request evaluate() rejects counts as a failure.
TryCondition(t) ==
    LET ev    == event[t]
        frame == IF ev.frames = 0 THEN 0 ELSE ev.frames - 1
        ok    == Admitted(t, ev.sequence, frame)
        empty == Head(ev.conditions) = ""
    IN  /\ pc[t] = "conditions"
        /\ ev.conditions # <<>>
        /\ evaluating' = (evaluating \/ (~empty /\ ok))
        /\ event' = [event EXCEPT ![t].breakpoint = empty \/ ~ok,
                                  ![t].diagnostic = ~empty /\ ~ok,
                                  ![t].conditions = Tail(@)]
        /\ Goto(t, IF empty \/ ~ok THEN "presenting" ELSE "condition")
        /\ UNCHANGED <<config, stack, stepping, sequence, inCallback,
                       hostCallbackActive, sourceAction, paused>>

\* The evaluator of a condition returns or throws, its scopes left.
ConditionEnds(t) ==
    /\ pc[t] = "condition"
    /\ own[t] = event[t].base
    /\ evaluating' = FALSE
    /\ \/ /\ Goto(t, "conditions")          \* false: try the next one
          /\ UNCHANGED event
       \/ \E fails \in BOOLEAN :            \* true, or failed
             /\ event' = [event EXCEPT ![t].breakpoint = TRUE,
                                       ![t].diagnostic = fails]
             /\ Goto(t, "presenting")
       \/ /\ Goto(t, "unwinding")           \* an exception
          /\ UNCHANGED event
    /\ UNCHANGED <<config, stack, stepping, sequence, inCallback,
                   hostCallbackActive, sourceAction, paused>>

PausesForBreakpointOnly(ev) == FALSE

PausesDespiteConditions(ev) == ev.pause \/ ev.step

\* No condition held: without another reason the statement is executed.
ConditionsExhausted(t) ==
    LET ev == event[t]
    IN  /\ pc[t] = "conditions"
        /\ ev.conditions = <<>>
        /\ IF PausesDespiteConditions(ev)
           THEN /\ Goto(t, "presenting")
                /\ UNCHANGED <<inCallback, pausedEvaluators, event>>
           ELSE /\ inCallback' = FALSE
                /\ pausedEvaluators' = 0
                /\ event' = [event EXCEPT ![t] = NoEvent]
                /\ Goto(t, "running")
        /\ UNCHANGED <<config, stack, stepping, sequence, evaluating,
                       hostCallbackActive, sourceAction, pausedSequence,
                       selectedFrame, pausedFrames>>

\* The frames are collected again after conditions, and the host is called.
CallHost(t) ==
    LET frames == IF event[t].recollect THEN Depth(scopes) ELSE event[t].frames
    IN  /\ pc[t] = "presenting"
        /\ event' = [event EXCEPT ![t].frames = frames]
        /\ pausedEvaluators' = frames
        /\ pausedFrames' = frames
        /\ selectedFrame' = IF frames = 0 THEN 0 ELSE frames - 1
        /\ hostCallbackActive' = TRUE
        /\ Goto(t, "callback")
        /\ UNCHANGED <<config, stack, stepping, sequence, inCallback,
                       evaluating, sourceAction, pausedSequence>>

\* What the two ways out of statement() have in common.
ClearPause(t) ==
    /\ inCallback' = FALSE
    /\ hostCallbackActive' = FALSE
    /\ pausedFrames' = 0
    /\ sourceAction' = None
    /\ pausedEvaluators' = 0
    /\ event' = [event EXCEPT ![t] = NoEvent]
    /\ Goto(t, "running")
    /\ UNCHANGED <<config, stack, sequence, evaluating, pausedSequence,
                   selectedFrame>>

SourceWins(reply) == IF sourceAction # None THEN sourceAction ELSE reply

Resumed(reply) ==
    IF reply # "Stop" /\ sourceAction # None THEN sourceAction ELSE reply

\* The callback returns one of the five actions.
HostReplies(t) ==
    /\ pc[t] = "callback"
    /\ \E reply \in RuntimeDebugAction : action' = Resumed(reply)
    /\ stepDepth' = event[t].frames
    /\ ClearPause(t)

\* It throws, or returns something else.
HostThrows(t) ==
    /\ pc[t] = "callback"
    /\ Goto(t, "unwinding")
    /\ UNCHANGED <<config, stack, stepping, sequence, flags, sourceAction,
                   paused, event>>

StatementThrowsUncleared(t) ==
    /\ pc[t] = "unwinding"
    /\ action' = "Stop"
    /\ event' = [event EXCEPT ![t] = NoEvent]
    /\ Goto(t, "running")
    /\ UNCHANGED <<config, stack, stepDepth, sequence, flags, sourceAction,
                   paused>>

\* The catch (...) of statement(): the invocation is stopped.
StatementThrows(t) ==
    /\ pc[t] = "unwinding"
    /\ action' = "Stop"
    /\ UNCHANGED stepDepth
    /\ ClearPause(t)
-----------------------------------------------------------------------------
(***************************************************************************)
(* What host code may do with an event, or with a copy of one it kept:     *)
(* evaluate source in a frame.  Threads that are not executing, and host   *)
(* code called from an evaluation, may try too.                            *)
(***************************************************************************)
\* RuntimeDebugger::selectedFrame, larger than any frame number.
Selected == ScopeBound + 1

FrameNumber(frame) ==
    IF frame = Selected /\ hostCallbackActive THEN selectedFrame ELSE frame

evaluate(t, seq, frame) ==
    /\ pc[t] \in {"idle", "callback", "evaluation"}
    /\ Admitted(t, seq, FrameNumber(frame))
    /\ evaluating' = TRUE
    /\ event' = [event EXCEPT ![t].asked = seq]
    /\ Goto(t, "evaluation")
    /\ UNCHANGED <<config, stack, stepping, sequence, inCallback,
                   hostCallbackActive, sourceAction, paused>>

EvaluationEnds(t) ==
    /\ pc[t] = "evaluation"
    /\ own[t] = event[t].base
    /\ evaluating' = FALSE
    /\ Goto(t, "callback")
    /\ UNCHANGED <<config, stack, stepping, sequence, inCallback,
                   hostCallbackActive, sourceAction, paused, event>>

SourceCommandAllowed(t) ==
    hostCallbackActive /\ evaluating /\ executionThread = t

LastRequest(act) == act

Queued(act) == IF sourceAction = "Stop" THEN "Stop" ELSE act

\* dbcont, dbquit, dbstep.
requestSourceAction(t, act) ==
    /\ Executing(t)
    /\ SourceCommandAllowed(t)
    /\ sourceAction' = Queued(act)
    /\ UNCHANGED <<config, stack, stepping, sequence, flags, paused, pc, event>>

FrameAbove == IF selectedFrame > 0 THEN selectedFrame - 1 ELSE 0
FrameBelowUnchecked == selectedFrame + 1

FrameBelow == IF selectedFrame + 1 < pausedFrames THEN selectedFrame + 1
                                                  ELSE selectedFrame

\* dbup and dbdown.
moveSourceFrame(t) ==
    /\ Executing(t)
    /\ SourceCommandAllowed(t)
    /\ pausedFrames > 0
    /\ selectedFrame' \in {FrameAbove, FrameBelow}
    /\ UNCHANGED <<config, stack, stepping, sequence, flags, sourceAction,
                   pausedSequence, pausedEvaluators, pausedFrames, pc, event>>
-----------------------------------------------------------------------------
Configure ==
    \/ setBreakpoints
    \/ \E point \in RuntimeBreakpoint : setSourceBreakpoint(point)
    \/ \E source \in Sources, line \in Lines \cup {0} :
          clearSourceBreakpoints(source, line)
    \/ requestPause

Execute(t) ==
    \/ enterScope(t) \/ leaveScope(t)
    \/ \E source \in Sources, line \in Lines :
          StatementProceeds(t, source, line) \/ StatementSuspends(t, source, line)
    \/ TryCondition(t) \/ ConditionEnds(t) \/ ConditionsExhausted(t)
    \/ CallHost(t) \/ HostReplies(t) \/ HostThrows(t) \/ StatementThrows(t)
    \/ \E seq \in 0..sequence, frame \in 0..Selected : evaluate(t, seq, frame)
    \/ EvaluationEnds(t)
    \/ \E act \in RuntimeDebugAction : requestSourceAction(t, act)
    \/ moveSourceFrame(t)

DebuggerNext == Configure \/ \E t \in Threads : Execute(t)

DebuggerSpec == DebuggerInit /\ [][DebuggerNext]_debuggerVars
-----------------------------------------------------------------------------
(***************************************************************************)
(* Properties.                                                             *)
(***************************************************************************)
\* All scopes are the execution thread's.
OneExecutionThread ==
    /\ \A t \in Threads :
          own[t] # 0 => executionThread = t /\ own[t] = Len(scopes)
    /\ executionThread = NoThread <=> scopes = <<>>

\* The three flags say where the execution thread is.
FlagsTellWhere ==
    /\ inCallback <=> \E t \in Threads : pc[t] \in InStatement
    /\ evaluating <=> \E t \in Threads : pc[t] \in Nested
    /\ hostCallbackActive =>
          \E t \in Threads : pc[t] \in {"callback", "evaluation", "unwinding"}
    /\ \A t \in Threads :
          pc[t] \in {"callback", "evaluation"} => hostCallbackActive

\* A debugger serves one thread at a time, although threads start and end
\* invocations as they like, so leaveScope never pops the frame of another
\* invocation; and the exceptional ways out of a condition, an evaluation or
\* the host callback leave no flag behind, which would reject or silence every
\* later invocation.
ExecutionIsTold == OneExecutionThread /\ FlagsTellWhere

\* The paused event's frames are the frames of the scopes, each with its
\* evaluator, and the selected frame is one of them.
PausedStackIntact(t) ==
    /\ own[t] = event[t].base
    /\ event[t].sequence = pausedSequence
    /\ event[t].frames = Depth(scopes)
    /\ pausedFrames = event[t].frames
    /\ pausedEvaluators = event[t].frames
    /\ selectedFrame \in 0..(pausedFrames - 1)

\* While the host holds an event its stack is the program's, whatever dbup and
\* dbdown were evaluated; and a copy of an event that is no longer paused
\* evaluates nothing, not even while a later event is paused.
PausedEventIsCurrent ==
    \A t \in Threads :
        /\ pc[t] = "callback" => PausedStackIntact(t)
        /\ pc[t] = "evaluation" => event[t].asked = event[t].sequence

\* A queued dbquit cannot be undone by a later command, and is obeyed; and
\* Stop ends the invocation: until its outermost scope is left nothing changes
\* the action and no event is raised; the next invocation starts afresh.
StopPrevails ==
    [][/\ hostCallbackActive /\ sourceAction = "Stop" =>
             sourceAction' = "Stop" \/ action' = "Stop"
       /\ action = "Stop" => /\ action' = "Stop" \/ scopes' = <<>>
                             /\ sequence' = sequence]_debuggerVars

\* A pause request is kept until a statement takes it, and that statement
\* pauses whatever its breakpoint conditions say, unless evaluating them
\* throws, which stops the invocation.
PauseHonoured ==
    [][/\ pauseRequested /\ ~pauseRequested' =>
             \E t \in Threads : event'[t].pause /\ pc'[t] = "conditions"
       /\ \A t \in Threads :
             /\ pc[t] \in {"conditions", "condition", "presenting"}
             /\ event[t].pause
             => /\ event'[t].pause
                /\ pc'[t] \in InStatement]_debuggerVars
=============================================================================
