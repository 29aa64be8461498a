--------------------------- MODULE EmbeddingApi ---------------------------
(***************************************************************************)
(* The C API as host threads see it: which calls may run at the same time, *)
(* which wait, and which are rejected.                                     *)
(*                                                                         *)
(* A call takes, in this order and as far as it needs them, the execution  *)
(* mutex of its debugger (try_lock only), the shared-graph mutex of its    *)
(* module and the mutex of its session or runtime.  While a script runs    *)
(* the host is called back on the same thread, and may call the API again: *)
(* the calls of a thread form a stack.                                     *)
(***************************************************************************)
EXTENDS Integers, Sequences, SequencesExt

CONSTANTS
    HostThreads,
    Modules, Sessions, Runtimes, Debuggers,
    ModuleOf,       \* the module each session was created from
    NoDebugger,     \* an invocation without a debugger
    Free,           \* the owner of a lock nobody holds
    MayNest,        \* host discipline: <<running object, object called>>
    CallBound,      \* bound: calls each thread makes
    CallbackBound   \* bound: callbacks in all

Objects == Modules \cup Sessions \cup Runtimes

\* Handles of different kinds are different objects.  The host never calls back
\* into a module or session it is executing.
ASSUME EmbeddingAssumption ==
    /\ Modules \cap Sessions = {} /\ Modules \cap Runtimes = {}
    /\ Sessions \cap Runtimes = {} /\ Objects \cap Debuggers = {}
    /\ ModuleOf \in [Sessions -> Modules]
    /\ NoDebugger \notin Debuggers
    /\ Free \notin HostThreads
    /\ MayNest \subseteq Objects \X Objects
    /\ \A s \in Modules \cup Sessions : <<s, s>> \notin MayNest
    /\ CallBound \in Nat /\ CallbackBound \in Nat

Graph(obj) == IF obj \in Sessions THEN ModuleOf[obj] ELSE obj
Locks == Modules \cup Sessions \cup Runtimes \cup Debuggers
Recursive == Locks \ Sessions

VARIABLES
    owner,           \* of each mutex
    count,           \* how often its owner holds it
    executing,       \* DebuggerState::executing
    callbackActive,  \* the thread_local executionCallbackActive
    callStack,           \* the API calls each thread is in
    calls,           \* calls each thread has made
    callbacks        \* callbacks made

embeddingVars == <<owner, count, executing, callbackActive, callStack, calls, callbacks>>

Operations == {"execute",   \* mparser_{module,session,runtime}_execute
               "mutate",    \* clear_global, clear_globals, reset, graphics
               "value",     \* makeValueHandle of a module-bound value
               "evaluate"}  \* mparser_debug_event_evaluate
Phases == {"request", "debug", "graph", "lock", "running", "callback",
           "unlock", "ungraph", "return"}
Callbacks == {"none", "debug", "input", "output", "export"}

ApiCalls == [op : Operations, obj : Objects, debugger : Debuggers \cup {NoDebugger},
          shared : BOOLEAN, phase : Phases, callback : Callbacks,
          debugging : BOOLEAN]

Top(t) == Last(callStack[t])
In(t, phase) == callStack[t] # <<>> /\ Top(t).phase = phase
ReplaceTop(t, call) == callStack' = [callStack EXCEPT ![t] = Append(Front(@), call)]
MoveOn(t, phase) == ReplaceTop(t, [Top(t) EXCEPT !.phase = phase])
Return(t) == callStack' = [callStack EXCEPT ![t] = Front(@)]

\* Host code runs on a thread that is in no call, or in a callback.
HostRuns(t) == callStack[t] = <<>> \/ In(t, "callback")

\* All but session mutexes are std::recursive_mutex.
CanLock(t, l) == owner[l] = Free \/ (owner[l] = t /\ l \in Recursive)
Lock(t, l) == /\ CanLock(t, l)
              /\ owner' = [owner EXCEPT ![l] = t]
              /\ count' = [count EXCEPT ![l] = @ + 1]
UnlockAll(l) == /\ owner' = [owner EXCEPT ![l] = Free]
                /\ count' = [count EXCEPT ![l] = 0]

Unlock(l) == /\ owner' = [owner EXCEPT ![l] = IF count[l] = 1 THEN Free ELSE @]
             /\ count' = [count EXCEPT ![l] = @ - 1]
LocksKept == UNCHANGED <<owner, count>>

EmbeddingInit ==
    /\ owner = [l \in Locks |-> Free]
    /\ count = [l \in Locks |-> 0]
    /\ executing = [d \in Debuggers |-> FALSE]
    /\ callbackActive = [t \in HostThreads |-> FALSE]
    /\ callStack = [t \in HostThreads |-> <<>>]
    /\ calls = [t \in HostThreads |-> 0]
    /\ callbacks = 0
-----------------------------------------------------------------------------
(***************************************************************************)
(* ApiCalls begin.                                                            *)
(***************************************************************************)
Begin(t, call) ==
    /\ HostRuns(t)
    /\ calls[t] < CallBound
    /\ calls' = [calls EXCEPT ![t] = @ + 1]
    /\ callStack' = [callStack EXCEPT ![t] = Append(@, call)]
    /\ UNCHANGED <<owner, count, executing, callbackActive, callbacks>>

Call(op, obj, debugger, shared) ==
    [op |-> op, obj |-> obj, debugger |-> debugger, shared |-> shared,
     phase |-> "request", callback |-> "none", debugging |-> FALSE]

Disciplined(t, obj) ==
    \A i \in DOMAIN callStack[t] : <<callStack[t][i].obj, obj>> \in MayNest

\* From a guarded callback the discipline is the API's own affair.
Allowed(t, obj) == callbackActive[t] \/ Disciplined(t, obj)

\* A module invocation is shared when an argument is module-bound; a session
\* invocation takes the graph mutex always, a runtime invocation never.
ExecuteRequest(t) ==
    \E obj \in Objects, debugger \in Debuggers \cup {NoDebugger},
       bound \in BOOLEAN :
       /\ Allowed(t, obj)
       /\ obj \notin Modules => bound = (obj \in Sessions)
       /\ Begin(t, Call("execute", obj, debugger, bound))

Mutate(t) ==
    \E obj \in Sessions \cup Runtimes :
       /\ Allowed(t, obj)
       /\ Begin(t, Call("mutate", obj, NoDebugger, obj \in Sessions))

\* Results and debug events give out values of the module or runtime they
\* belong to: in a callback, of what is running.
PublishValue(t) ==
    \E obj \in Modules \cup Runtimes :
       /\ callStack[t] # <<>> => obj = Graph(Top(t).obj)
       /\ Begin(t, Call("value", obj, NoDebugger, obj \in Modules))

\* RuntimeDebugger admits it only in the pause callback, and not in itself.
EvaluateFrame(t) ==
    /\ In(t, "callback")
    /\ Top(t).callback = "debug"
    /\ Begin(t, [Call("evaluate", Top(t).obj, NoDebugger, FALSE) EXCEPT
                    !.phase = "running"])
-----------------------------------------------------------------------------
(***************************************************************************)
(* Admission.                                                              *)
(***************************************************************************)
RejectsNothing(t) == FALSE

\* buildRequest and the clear and reset functions.
Rejects(t) == Top(t).op \in {"execute", "mutate"} /\ callbackActive[t]

Admit(t) ==
    /\ In(t, "request")
    /\ IF Rejects(t) THEN Return(t)
       ELSE MoveOn(t, IF Top(t).debugger # NoDebugger THEN "debug"
                    ELSE IF Top(t).shared THEN "graph" ELSE "lock")
    /\ LocksKept
    /\ UNCHANGED <<executing, callbackActive, calls, callbacks>>

\* DebugInvocationScope::start: try_lock, then the executing flag, because
\* the mutex is recursive.
StartDebugRecursive(t) ==
    LET call == Top(t) d == call.debugger
    IN  /\ In(t, "debug")
        /\ IF CanLock(t, d)
           THEN /\ Lock(t, d)
                /\ executing' = [executing EXCEPT ![d] = TRUE]
                /\ ReplaceTop(t, [call EXCEPT !.debugging = TRUE,
                       !.phase = IF call.shared THEN "graph" ELSE "lock"])
           ELSE /\ Return(t)
                /\ LocksKept
                /\ UNCHANGED executing
        /\ UNCHANGED <<callbackActive, calls, callbacks>>

StartDebug(t) ==
    LET call == Top(t) d == call.debugger
    IN  /\ In(t, "debug")
        /\ IF CanLock(t, d) /\ ~executing[d]
           THEN /\ Lock(t, d)
                /\ executing' = [executing EXCEPT ![d] = TRUE]
                /\ ReplaceTop(t, [call EXCEPT !.debugging = TRUE,
                       !.phase = IF call.shared THEN "graph" ELSE "lock"])
           ELSE /\ Return(t)
                /\ LocksKept
                /\ UNCHANGED executing
        /\ UNCHANGED <<callbackActive, calls, callbacks>>

LockGraph(t) ==
    /\ In(t, "graph")
    /\ Lock(t, Graph(Top(t).obj))
    /\ MoveOn(t, IF Top(t).obj \in Sessions THEN "lock"
               ELSE IF Top(t).op = "execute" THEN "running" ELSE "ungraph")
    /\ UNCHANGED <<executing, callbackActive, calls, callbacks>>

\* The mutex of the session or runtime; a module invocation has none.
LockObject(t) ==
    /\ In(t, "lock")
    /\ IF Top(t).obj \in Modules THEN LocksKept ELSE Lock(t, Top(t).obj)
    /\ MoveOn(t, IF Top(t).op = "execute" THEN "running" ELSE "unlock")
    /\ UNCHANGED <<executing, callbackActive, calls, callbacks>>
-----------------------------------------------------------------------------
(***************************************************************************)
(* The script runs and calls the host; only debug pauses and graphics      *)
(* exports set executionCallbackActive.                                    *)
(***************************************************************************)
Guarded == {"debug", "export"}

Callback(t, kind) ==
    /\ In(t, "running")
    /\ callbacks < CallbackBound
    /\ kind = "debug" => Top(t).debugging
    /\ kind = "export" => ~callbackActive[t]
    /\ callbacks' = callbacks + 1
    /\ callbackActive' = [callbackActive EXCEPT ![t] = @ \/ kind \in Guarded]
    /\ ReplaceTop(t, [Top(t) EXCEPT !.phase = "callback", !.callback = kind])
    /\ LocksKept
    /\ UNCHANGED <<executing, calls>>

\* The guard restores the flag it found: a guarded callback is never entered
\* with the flag set, an unguarded one may be, below an evaluation.
CallbackReturns(t) ==
    /\ In(t, "callback")
    /\ callbackActive' = [callbackActive EXCEPT
                             ![t] = @ /\ Top(t).callback \notin Guarded]
    /\ ReplaceTop(t, [Top(t) EXCEPT !.phase = "running", !.callback = "none"])
    /\ LocksKept
    /\ UNCHANGED <<executing, calls, callbacks>>

\* The script ends, or throws.
Finish(t) ==
    /\ In(t, "running")
    /\ MoveOn(t, IF Top(t).op = "evaluate" THEN "return" ELSE "unlock")
    /\ LocksKept
    /\ UNCHANGED <<executing, callbackActive, calls, callbacks>>

UnlockObject(t) ==
    /\ In(t, "unlock")
    /\ IF Top(t).obj \in Modules THEN LocksKept ELSE Unlock(Top(t).obj)
    /\ MoveOn(t, IF Top(t).shared THEN "ungraph" ELSE "return")
    /\ UNCHANGED <<executing, callbackActive, calls, callbacks>>

UnlockGraph(t) ==
    /\ In(t, "ungraph")
    /\ Unlock(Graph(Top(t).obj))
    /\ MoveOn(t, "return")
    /\ UNCHANGED <<executing, callbackActive, calls, callbacks>>

\* ~DebugInvocationScope, and the call returns.
Returns(t) ==
    /\ In(t, "return")
    /\ Return(t)
    /\ IF Top(t).debugging
       THEN /\ executing' = [executing EXCEPT ![Top(t).debugger] = FALSE]
            /\ Unlock(Top(t).debugger)
       ELSE LocksKept /\ UNCHANGED executing
    /\ UNCHANGED <<callbackActive, calls, callbacks>>
-----------------------------------------------------------------------------
HostStep(t) ==
    ExecuteRequest(t) \/ Mutate(t) \/ PublishValue(t) \/ EvaluateFrame(t)

ApiStep(t) ==
    \/ Admit(t) \/ StartDebug(t) \/ LockGraph(t) \/ LockObject(t)
    \/ Finish(t) \/ CallbackReturns(t)
    \/ UnlockObject(t) \/ UnlockGraph(t) \/ Returns(t)

ScriptStep(t) == \E kind \in Callbacks \ {"none"} : Callback(t, kind)

Quiescent == /\ \A t \in HostThreads : callStack[t] = <<>> /\ calls[t] = CallBound
             /\ UNCHANGED embeddingVars

EmbeddingNext ==
    \/ \E t \in HostThreads : HostStep(t) \/ ApiStep(t) \/ ScriptStep(t)
    \/ Quiescent

EmbeddingSpec == EmbeddingInit /\ [][EmbeddingNext]_embeddingVars
-----------------------------------------------------------------------------
(***************************************************************************)
(* Properties.                                                             *)
(***************************************************************************)
\* The active invocations: <<thread, position in its callStack>>.
Active == {i \in HostThreads \X (1..CallBound) :
              /\ i[2] \in DOMAIN callStack[i[1]]
              /\ callStack[i[1]][i[2]].op = "execute"
              /\ callStack[i[1]][i[2]].phase \in {"running", "callback"}}
CallOf(i) == callStack[i[1]][i[2]]

DebuggerServesOne ==
    \A i, j \in Active :
        /\ CallOf(i).debugging /\ CallOf(j).debugging
        /\ CallOf(i).debugger = CallOf(j).debugger
        => i = j

ExecutingTold ==
    \A d \in Debuggers :
        executing[d] <=> \E t \in HostThreads : \E i \in DOMAIN callStack[t] :
                            callStack[t][i].debugging /\ callStack[t][i].debugger = d

\* "A debugger supports one active invocation": not even the thread that holds
\* its recursive mutex starts a second one, from an input or output callback.
\* The executing flag is set exactly while an invocation with that debugger is
\* admitted; a rejected attempt neither sets nor clears it, so the debugger
\* "may be reused after the invocation ends".
DebuggerIsOwned == DebuggerServesOne /\ ExecutingTold

GraphSerialized ==
    \A i, j \in Active :
        i # j =>
            /\ /\ CallOf(i).shared /\ CallOf(j).shared
               /\ Graph(CallOf(i).obj) = Graph(CallOf(j).obj)
               => i[1] = j[1]
            /\ CallOf(i).obj \in Sessions => CallOf(i).obj # CallOf(j).obj
            /\ CallOf(i).obj \in Runtimes /\ CallOf(i).obj = CallOf(j).obj
               => i[1] = j[1]

NothingUnderGuard ==
    \A t \in HostThreads : \A i, j \in DOMAIN callStack[t] :
        /\ i < j
        /\ callStack[t][i].phase = "callback" /\ callStack[t][i].callback \in Guarded
        /\ callStack[t][j].op \in {"execute", "mutate"}
        => callStack[t][j].phase = "request"

\* "Module-bound values are serialized by their producing module": invocations
\* of one module that use its graph, and of its sessions, never overlap on two
\* threads; those of one session never overlap at all; those of a runtime
\* overlap only as reentrant calls of one thread.  "Do not otherwise execute or
\* mutate from a debug callback. Such same-thread SDK attempts are rejected":
\* below a guarded callback a thread gets no lock but those of values, also
\* when an evaluation asks the host for input.
CallsAreSerialized == GraphSerialized /\ NothingUnderGuard

=============================================================================
