-------------------------- MODULE SourceEvaluation --------------------------
(***************************************************************************)
(* eval, evalc, evalin and assignin (runtime_source_evaluation.cpp): each  *)
(* evaluation compiles its source into a module of its own and runs it in  *)
(* a nested VM on a copy of the selected workspace.  Calls of the parent   *)
(* module's functions are delegated back, with the copy published before   *)
(* and read back after; handles of the temporary module may not survive    *)
(* it.  A function called from the base script evaluates; both have a      *)
(* frame.  One handle object is shared by whoever holds it.                *)
(***************************************************************************)
EXTENDS Integers, Sequences, SequencesExt, FiniteSets

CONSTANTS
  AnonymousDelegates,  \* evaluated anonymous functions call the parent's functions
  MaxEvaluations,      \* bound on evaluations
  MaxStatements,       \* bound on statements
  MaxNesting           \* bound on the control stack

ASSUME EvaluationAssumption ==
  /\ AnonymousDelegates \in BOOLEAN
  /\ MaxEvaluations \in Nat /\ MaxStatements \in Nat /\ MaxNesting \in Nat

Base == 1
Function == 2
Frames == {Base, Function}
WrittenBack == {"x", "y"}
GeneratedNames == <<"output_0", "output_1">>  \* of two generations
Names == WrittenBack \cup ToSet(GeneratedNames)

None == [kind |-> "none"]
Plain == [kind |-> "plain"]
Empty == [kind |-> "empty"]
Object == [kind |-> "object"]
Handle(context) == [kind |-> "handle", context |-> context]
ParentContext == 0

VARIABLES
  workspaces,   \* the workspace of each real frame
  bindings,     \* globalBindings and persistentBindings of each frame
  globals, persistents,  \* RuntimeSessionState
  field,        \* the object's shared field
  control,      \* evaluations, anonymous functions and delegated calls, nested
  evaluations,  \* how many were started: names their contexts
  reported,     \* the last evaluation told of an escape
  statements    \* how many were executed

evaluationVars == <<workspaces, bindings, globals, persistents, field, control,
                    evaluations, reported, statements>>

-----------------------------------------------------------------------------
(* Handles in values.                                                       *)

Contexts(value) ==
  CASE value.kind = "handle" -> {value.context}
    [] value.kind = "object" /\ field.kind = "handle" -> {field.context}
    [] OTHER -> {}

AllContexts(values) == UNION {Contexts(value) : value \in values}

UnsafeHandle(value, allowed) == ~(Contexts(value) \subseteq allowed)

Values(f) == {f[name] : name \in DOMAIN f}

-----------------------------------------------------------------------------

Running(kind) == control # <<>> /\ Last(control).kind = kind
Top == Last(control)
ReplaceTop(entry) == control' = Append(Front(control), entry)

Statement == statements < MaxStatements /\ statements' = statements + 1

(* What code of a frame sees: the copy of the innermost evaluation for it,  *)
(* or the real workspace when a delegated call has it.                      *)
Visible(frame) ==
  LET of == {i \in DOMAIN control : control[i].frame = frame /\ control[i].kind # "anonymous"}
      last == CHOOSE i \in of : \A j \in of : j <= i
  IN IF of = {} THEN workspaces[frame]
     ELSE IF control[last].kind = "evaluation" THEN control[last].copy ELSE workspaces[frame]

EvaluationInit ==
  /\ \E x \in {None, Object, Handle(ParentContext)}, g \in {None, Object}, o \in {None, Plain} :
       /\ workspaces = [frame \in Frames |->
            [name \in Names |-> CASE name = "x" /\ frame = Function -> x
                                  [] name = "y" /\ frame = Base -> Plain
                                  [] name = "output_0" -> o
                                  [] OTHER -> None]]
       /\ globals = [name \in WrittenBack |-> IF name = "y" THEN g ELSE None]
  /\ bindings = [frame \in Frames |-> [name \in Names |-> "local"]]
  /\ persistents = [name \in WrittenBack |-> None]
  /\ field = Plain
  /\ control = <<>>
  /\ evaluations = 0
  /\ reported = FALSE
  /\ statements = 0

-----------------------------------------------------------------------------
(* evaluateRuntimeSource up to the invocation of the compiled module.       *)

OuterFrames(frame) == {m \in Frames : m < frame}

HeldInWorkspaces(workspace, frame) ==
  Values(workspace) \cup (UNION {Values(workspaces[m]) : m \in OuterFrames(frame)})
HeldForEvaluation(workspace, frame) ==
  HeldInWorkspaces(workspace, frame) \cup Values(globals) \cup Values(persistents)

(* collectSharedFieldSnapshots reached the object.                          *)
SnapshotWorkspaceOnly(workspace, frame) == Object \in HeldInWorkspaces(workspace, frame)
SnapshotShared(workspace, frame) == Object \in HeldForEvaluation(workspace, frame)

FirstGeneration(workspace) == GeneratedNames[1]
OutputName(workspace) ==
  LET free == {i \in DOMAIN GeneratedNames : workspace[GeneratedNames[i]] = None}
  IN GeneratedNames[CHOOSE i \in free : \A j \in free : i <= j]

Evaluate(frame, workspace, below) ==
  /\ Len(control) < MaxNesting /\ evaluations < MaxEvaluations
  /\ \E expression \in BOOLEAN :
       control' = Append(control,
         [kind |-> "evaluation", frame |-> frame, below |-> below,
          context |-> evaluations + 1, copy |-> workspace, original |-> workspace,
          borrowed |-> workspaces, globals |-> globals, persistents |-> persistents,
          snapshot |-> SnapshotShared(workspace, frame), field |-> field,
          allowed |-> {ParentContext} \cup AllContexts(HeldForEvaluation(workspace, frame)),
          output |-> IF expression THEN OutputName(workspace) ELSE "none"])
  /\ evaluations' = evaluations + 1
  /\ reported' = FALSE
  /\ UNCHANGED <<workspaces, bindings, globals, persistents, field, statements>>

(* The function evaluates in its own frame or its caller's; a delegated     *)
(* call in its caller's; evaluated code in its copy or an ancestor.         *)
StartEvaluation ==
  \/ control = <<>> /\ \E frame \in Frames : Evaluate(frame, workspaces[frame], FALSE)
  \/ Running("delegated") /\ Evaluate(Top.frame, workspaces[Top.frame], FALSE)
  \/ /\ Running("evaluation")
     /\ \/ Evaluate(Top.frame, Top.copy, TRUE)
        \/ \E m \in OuterFrames(Top.frame) : Evaluate(m, workspaces[m], FALSE)

-----------------------------------------------------------------------------
(* What evaluated code does.                                                *)

VisibleIn == {Plain, Handle(Top.context)} \cup (Values(Top.copy) \ {None})

(* storeVariable: the frame's binding decides where the value lives.        *)
StoreSession(frame, name, value) ==
  /\ globals' = IF bindings[frame][name] = "global" THEN [globals EXCEPT ![name] = value] ELSE globals
  /\ persistents' = IF bindings[frame][name] = "persistent"
                    THEN [persistents EXCEPT ![name] = value] ELSE persistents

StoreVariable ==
  /\ Running("evaluation") /\ Top.output = "none"
  /\ Statement
  /\ \E name \in WrittenBack, value \in VisibleIn :
       /\ StoreSession(Top.frame, name, value)
       /\ ReplaceTop([Top EXCEPT !.copy[name] = value])
  /\ UNCHANGED <<workspaces, bindings, field, evaluations, reported>>

(* assignin into an ancestor's frame, whatever its binding.                 *)
AssignIn ==
  /\ Running("evaluation")
  /\ Statement
  /\ \E m \in OuterFrames(Top.frame), name \in WrittenBack, value \in VisibleIn :
       workspaces' = [workspaces EXCEPT ![m][name] = value]
  /\ UNCHANGED <<bindings, globals, persistents, field, control, evaluations, reported>>

StoreField ==
  /\ Running("evaluation") /\ Top.output = "none"
  /\ Object \in Values(Top.copy)
  /\ Statement
  /\ field' \in VisibleIn \ {Object}
  /\ UNCHANGED <<workspaces, bindings, globals, persistents, control, evaluations, reported>>

(* runtimeDeclareSourceStorage on the frame that owns the evaluation.       *)
Orphan(value) == IF value = None THEN Empty ELSE value

DeclareGlobal(frame, name, local) ==
  LET stored == IF globals[name] = None /\ bindings[frame][name] = "local" THEN local ELSE globals[name]
      value == Orphan(stored)
  IN /\ bindings[frame][name] # "persistent"
     /\ globals' = [globals EXCEPT ![name] = value]
     /\ bindings' = [bindings EXCEPT ![frame][name] = "global"]
     /\ workspaces' = [workspaces EXCEPT ![frame][name] = value]
     /\ ReplaceTop([Top EXCEPT !.copy[name] = value])
     /\ UNCHANGED persistents

DeclarePersistent(frame, name, local) ==
  LET value == Orphan(persistents[name])
  IN /\ bindings[frame][name] # "global"
     /\ frame = Function
     /\ local = None \/ bindings[frame][name] = "persistent"
     /\ persistents' = [persistents EXCEPT ![name] = value]
     /\ bindings' = [bindings EXCEPT ![frame][name] = "persistent"]
     /\ workspaces' = [workspaces EXCEPT ![frame][name] = value]
     /\ ReplaceTop([Top EXCEPT !.copy[name] = value])
     /\ UNCHANGED globals

(* A script's persistent variable is an ordinary one.                       *)
DeclareInScript(name, local) ==
  /\ bindings[Base][name] = "local" /\ local = None
  /\ workspaces' = [workspaces EXCEPT ![Base][name] = Empty]
  /\ ReplaceTop([Top EXCEPT !.copy[name] = Empty])
  /\ UNCHANGED <<bindings, globals, persistents>>

Declare ==
  /\ Running("evaluation") /\ Top.output = "none"
  /\ Statement
  /\ \E name \in WrittenBack :
       \/ DeclareGlobal(Top.frame, name, Top.copy[name])
       \/ DeclarePersistent(Top.frame, name, Top.copy[name])
       \/ Top.frame = Base /\ DeclareInScript(name, Top.copy[name])
  /\ UNCHANGED <<field, evaluations, reported>>

(* An anonymous function of the source has a frame of its own.              *)
CallAnonymous ==
  /\ Running("evaluation")
  /\ Len(control) < MaxNesting
  /\ control' = Append(control, [kind |-> "anonymous", frame |-> Top.frame,
                                 copy |-> [name \in Names |-> IF name = "x" THEN Plain ELSE None]])
  /\ reported' = FALSE
  /\ UNCHANGED <<workspaces, bindings, globals, persistents, field, evaluations, statements>>

-----------------------------------------------------------------------------
(* callInheritedSourceCallable: the parent's function runs as if called     *)
(* from the evaluated frame.                                                *)

PublishNothing(frame, copy) == workspaces
Publish(frame, copy) == [workspaces EXCEPT ![frame] = copy]

Callers == {"evaluation"} \cup (IF AnonymousDelegates THEN {"anonymous"} ELSE {})

Delegate ==
  /\ \E kind \in Callers : Running(kind)
  /\ Len(control) < MaxNesting
  /\ workspaces' = Publish(Top.frame, Top.copy)
  /\ control' = Append(control, [kind |-> "delegated", frame |-> Top.frame])
  /\ reported' = FALSE
  /\ UNCHANGED <<bindings, globals, persistents, field, evaluations, statements>>

(* The function assigns in its caller's workspace (assignin).               *)
DelegatedStore ==
  /\ Running("delegated")
  /\ Statement
  /\ \E name \in WrittenBack, value \in {Plain, Handle(ParentContext)} :
       workspaces' = [workspaces EXCEPT ![Top.frame][name] = value]
  /\ UNCHANGED <<bindings, globals, persistents, field, control, evaluations, reported>>

DelegateReturns ==
  /\ Running("delegated")
  /\ LET caller == control[Len(control) - 1]
     IN control' = Append(Front(Front(control)),
                          [caller EXCEPT !.copy = workspaces[Top.frame]])
  /\ reported' = FALSE
  /\ UNCHANGED <<workspaces, bindings, globals, persistents, field, evaluations, statements>>

AnonymousReturns ==
  /\ Running("anonymous")
  /\ control' = Front(control)
  /\ reported' = FALSE
  /\ UNCHANGED <<workspaces, bindings, globals, persistents, field, evaluations, statements>>

-----------------------------------------------------------------------------
(* The end of an evaluation: outputs are taken out of the workspace, what   *)
(* holds a handle of the temporary module gets its old value back.          *)

RestoreUnsafe(current, original) ==
  [name \in DOMAIN current |->
     IF UnsafeHandle(current[name], Top.allowed) THEN original[name] ELSE current[name]]

FinishEvaluation ==
  /\ Running("evaluation")
  /\ \E output \in {None} \cup (IF Top.output = "none" THEN {} ELSE VisibleIn) :
       LET updated == IF Top.output = "none" THEN Top.copy
                      ELSE [Top.copy EXCEPT ![Top.output] = None]
           ancestors == [m \in Frames |-> IF m \in OuterFrames(Top.frame)
                                          THEN RestoreUnsafe(workspaces[m], Top.borrowed[m])
                                          ELSE workspaces[m]]
           held == HeldForEvaluation(updated, Top.frame) \cup {output}
           unsafe == \/ \E value \in held : UnsafeHandle(value, Top.allowed)
                     \/ Top.snapshot /\ UnsafeHandle(Object, Top.allowed)
           restored == RestoreUnsafe(updated, Top.original)
       IN /\ globals' = RestoreUnsafe(globals, Top.globals)
          /\ persistents' = RestoreUnsafe(persistents, Top.persistents)
          /\ field' = IF unsafe /\ Top.snapshot THEN Top.field ELSE field
          /\ reported' = unsafe
          /\ IF Top.below
             THEN /\ control' = Append(Front(Front(control)),
                                  [control[Len(control) - 1] EXCEPT !.copy = restored])
                  /\ workspaces' = ancestors
             ELSE /\ control' = Front(control)
                  /\ workspaces' = [ancestors EXCEPT ![Top.frame] = restored]
  /\ UNCHANGED <<bindings, evaluations, statements>>

EvaluationNext ==
  \/ StartEvaluation \/ StoreVariable \/ AssignIn \/ StoreField \/ Declare
  \/ CallAnonymous \/ Delegate \/ DelegatedStore \/ DelegateReturns
  \/ AnonymousReturns \/ FinishEvaluation

EvaluationSpec == EvaluationInit /\ [][EvaluationNext]_evaluationVars

-----------------------------------------------------------------------------
(* No handle of a finished evaluation's module is left where a program can  *)
(* reach it: in a frame as its code sees it, in session storage or in the   *)
(* shared object (docs/user-manual.md, "cannot escape").                    *)
ActiveContexts ==
  {ParentContext} \cup {control[i].context : i \in {j \in DOMAIN control : control[j].kind = "evaluation"}}

TemporaryHandlesStay ==
  AllContexts((UNION {Values(Visible(frame)) : frame \in Frames})
                \cup Values(globals) \cup Values(persistents)) \subseteq ActiveContexts

(* Entering and leaving evaluated code and delegated calls changes no       *)
(* variable any frame sees, whichever copy it is kept in: nothing written   *)
(* is lost and `base` and `caller` stay the frames they name; only an       *)
(* escape takes values back (docs/architecture.md, "synchronizes").         *)
FramesKeptAcrossCalls ==
  [][Len(control') # Len(control) /\ ~reported'
       => \A frame \in Frames : Visible(frame)' = Visible(frame)]_evaluationVars

=============================================================================
