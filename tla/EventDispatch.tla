--------------------------- MODULE EventDispatch ---------------------------
(***************************************************************************)
(* Handle objects and their event listeners (bytecode_vm.cpp, the registry *)
(* of runtime_event_listener_state.h).  notify and property accesses call  *)
(* the listeners they found one after the other; delete announces the      *)
(* destruction, runs the destructors and cuts the listeners off.  Any      *)
(* callback or destructor may do any of this again, fail, or be left by an *)
(* exception of the host.                                                  *)
(***************************************************************************)
EXTENDS Integers, SequencesExt, FiniteSetsExt

CONSTANTS
  Sources,         \* handle objects
  Destructors,     \* destructors of their class and its superclasses
  MaxListeners,    \* bound on listeners made
  MaxHandlers,     \* bound on the control stack
  MaxDispatches    \* bound on operations of the script

ASSUME DispatchAssumption ==
  /\ Destructors \in Nat
  /\ MaxListeners \in Nat /\ MaxHandlers \in Nat /\ MaxDispatches \in Nat

VARIABLES
  valid,           \* the validity field of each source
  destroying,      \* destroyingSources
  records,         \* the registry by listener identifier
  listeners,       \* the fields of every listener made
  handlers,        \* dispatches, destructions and the code they run
  dispatchSteps    \* how many operations the script made

dispatchVars == <<valid, destroying, records, listeners, handlers, dispatchSteps>>

Destroyed == "ObjectBeingDestroyed"
Events == {"Event", "PostSet", Destroyed}

NoHandler == [kind |-> "script"]
Current == IF handlers = <<>> THEN NoHandler ELSE Last(handlers)
InCode == Current.kind \in {"script", "callback", "destructor"}

Usable(source) == valid[source] \/ source \in destroying

CallbacksOf(id) ==
  {i \in DOMAIN handlers : handlers[i].kind = "callback" /\ handlers[i].id = id}
Active(id) == CallbacksOf(id) # {}

(* listenerFields.lock(): someone still has the listener object.            *)
Locked(id) == listeners[id].retained \/ listeners[id].held \/ Active(id)

DispatchInit ==
  /\ valid = [source \in Sources |-> TRUE]
  /\ destroying = {}
  /\ records = <<>>
  /\ listeners = <<>>
  /\ handlers = <<>>
  /\ dispatchSteps = 0

Operate == InCode /\ dispatchSteps < MaxDispatches /\ dispatchSteps' = dispatchSteps + 1

-----------------------------------------------------------------------------
(* addlistener (coupled) and listener (kept by the script or lost).         *)

CreateListener ==
  /\ Operate /\ Len(listeners) < MaxListeners
  /\ \E source \in Sources, event \in Events, coupled, recursive, held \in BOOLEAN :
       /\ Usable(source)
       /\ listeners' = Append(listeners,
            [source |-> source, event |-> event, coupled |-> coupled, recursive |-> recursive,
             valid |-> TRUE, retained |-> coupled, held |-> held])
       /\ records' = [id \in DOMAIN records \cup {Len(listeners')} |->
                        IF id \in DOMAIN records THEN records[id] ELSE [active |-> FALSE]]
  /\ UNCHANGED <<valid, destroying, handlers>>

ChangeRecursive ==
  /\ Operate
  /\ \E id \in DOMAIN listeners :
       /\ listeners[id].held
       /\ listeners' = [listeners EXCEPT ![id].recursive = ~@]
  /\ UNCHANGED <<valid, destroying, records, handlers>>

DropListener ==
  /\ Operate
  /\ \E id \in DOMAIN listeners :
       /\ listeners[id].held
       /\ listeners' = [listeners EXCEPT ![id].held = FALSE]
  /\ UNCHANGED <<valid, destroying, records, handlers>>

DeleteListener ==
  /\ Operate
  /\ \E id \in DOMAIN listeners :
       /\ listeners[id].held
       /\ listeners' = [listeners EXCEPT ![id].valid = FALSE,
                          ![id].retained = @ /\ id \notin DOMAIN records]
  /\ UNCHANGED <<valid, destroying, records, handlers>>

(* collectUnreachable at the entry of an evaluation or invocation, for the  *)
(* records whose listener is gone.                                          *)
Collect ==
  /\ InCode
  /\ \E id \in DOMAIN records : ~Locked(id)
  /\ records' = [id \in {other \in DOMAIN records : Locked(other)} |-> records[id]]
  /\ UNCHANGED <<valid, destroying, listeners, handlers, dispatchSteps>>

-----------------------------------------------------------------------------
(* notifyEvent, dispatchPropertyEvent: the matching identifiers are taken   *)
(* before the first callback runs.                                          *)
Matching(source, event) ==
  SelectSeq([id \in DOMAIN listeners |-> id],
            LAMBDA id : id \in DOMAIN records /\ listeners[id].source = source
                          /\ listeners[id].event = event)

Notify ==
  /\ Operate /\ Len(handlers) < MaxHandlers
  /\ \E source \in Sources, event \in Events \ {Destroyed} :
       /\ Usable(source)
       /\ handlers' = Append(handlers, [kind |-> "notify", source |-> source,
                                        pending |-> Matching(source, event)])
  /\ UNCHANGED <<valid, destroying, records, listeners>>

StillValid(id) == Locked(id) /\ listeners[id].valid
MayRun(id) ==
  /\ id \in DOMAIN records /\ StillValid(id)
  /\ ~records[id].active \/ listeners[id].recursive

(* invokeEventListenerCallback for the next listener found, which is        *)
(* skipped when the script has disabled it.                                 *)
Invoke ==
  /\ Current.kind \in {"notify", "destroy"} /\ Current.pending # <<>>
  /\ LET id == Head(Current.pending)
         rest == [handlers EXCEPT ![Len(handlers)].pending = Tail(@)]
     IN \E enabled \in BOOLEAN :
          IF MayRun(id) /\ enabled
          THEN /\ Len(handlers) < MaxHandlers
               /\ handlers' = Append(rest, [kind |-> "callback", id |-> id,
                                            previous |-> records[id].active])
               /\ records' = [records EXCEPT ![id].active = TRUE]
          ELSE handlers' = rest /\ UNCHANGED records
  /\ UNCHANGED <<valid, destroying, listeners, dispatchSteps>>

(* ~CallbackActiveScope, if the listener is still recorded: an identifier is *)
(* never given to another.                                                   *)
Inactive(callback) == FALSE
Previous(callback) == callback.previous

Restored(of, callback) ==
  IF callback.id \in DOMAIN of
  THEN [of EXCEPT ![callback.id].active = Previous(callback)] ELSE of

(* A failing callback ends a notification; a destruction goes on.           *)
CallbackReturns ==
  /\ Current.kind = "callback"
  /\ records' = Restored(records, Current)
  /\ \E succeeded \in BOOLEAN :
       LET below == Front(handlers)
       IN handlers' = IF succeeded \/ Last(below).kind = "destroy" THEN below ELSE Front(below)
  /\ UNCHANGED <<valid, destroying, listeners, dispatchSteps>>

NotifyReturns ==
  /\ Current.kind = "notify" /\ Current.pending = <<>>
  /\ handlers' = Front(handlers)
  /\ UNCHANGED <<valid, destroying, records, listeners, dispatchSteps>>

-----------------------------------------------------------------------------
(* destroyHandleObject.                                                     *)

Delete ==
  /\ Operate /\ Len(handlers) < MaxHandlers
  /\ \E source \in Sources :
       /\ valid[source]
       /\ valid' = [valid EXCEPT ![source] = FALSE]
       /\ destroying' = destroying \cup {source}
       /\ handlers' = Append(handlers, [kind |-> "destroy", source |-> source,
                                        pending |-> Matching(source, Destroyed),
                                        destructors |-> Destructors])
  /\ UNCHANGED <<records, listeners>>

RunDestructor ==
  /\ Current.kind = "destroy" /\ Current.pending = <<>> /\ Current.destructors > 0
  /\ Len(handlers) < MaxHandlers
  /\ handlers' = Append([handlers EXCEPT ![Len(handlers)].destructors = @ - 1],
                        [kind |-> "destructor"])
  /\ UNCHANGED <<valid, destroying, records, listeners, dispatchSteps>>

(* An error of a destructor is kept for later.                              *)
DestructorReturns ==
  /\ Current.kind = "destructor"
  /\ handlers' = Front(handlers)
  /\ UNCHANGED <<valid, destroying, records, listeners, dispatchSteps>>

(* cleanupDestroyedHandleState walks the registry, not a snapshot.          *)
NotRunning(source) == {id \in DOMAIN records : ~records[id].active}
InRegistry(source) == DOMAIN records

CutOff(sources) ==
  [id \in DOMAIN listeners |->
     IF listeners[id].coupled /\ \E source \in sources :
          listeners[id].source = source /\ id \in InRegistry(source)
     THEN [listeners[id] EXCEPT !.valid = @ /\ ~Locked(id), !.retained = FALSE]
     ELSE listeners[id]]

DestructionEnds ==
  /\ Current.kind = "destroy" /\ Current.pending = <<>> /\ Current.destructors = 0
  /\ listeners' = CutOff({Current.source})
  /\ destroying' = destroying \ {Current.source}
  /\ handlers' = Front(handlers)
  /\ UNCHANGED <<valid, records, dispatchSteps>>

(* An exception of the host leaves everything: each scope restores what it  *)
(* changed, the innermost first, so that what the outermost found remains.  *)
Outermost(id) ==
  handlers[CHOOSE i \in CallbacksOf(id) : \A j \in CallbacksOf(id) : i <= j]

HostThrows ==
  /\ Current.kind \in {"callback", "destructor"}
  /\ records' = [id \in DOMAIN records |->
                   IF Active(id) THEN [records[id] EXCEPT !.active = Previous(Outermost(id))]
                   ELSE records[id]]
  /\ LET destroyed == {handlers[i].source : i \in {j \in DOMAIN handlers :
                                                    handlers[j].kind = "destroy"}}
     IN listeners' = CutOff(destroyed) /\ destroying' = destroying \ destroyed
  /\ handlers' = <<>>
  /\ UNCHANGED <<valid, dispatchSteps>>

DispatchNext ==
  \/ CreateListener \/ ChangeRecursive \/ DropListener \/ DeleteListener \/ Collect
  \/ Notify \/ Invoke \/ CallbackReturns \/ NotifyReturns
  \/ Delete \/ RunDestructor \/ DestructorReturns \/ DestructionEnds \/ HostThrows

DispatchSpec == DispatchInit /\ [][DispatchNext]_dispatchVars

-----------------------------------------------------------------------------
(* After any nesting of notifications, deletions, errors and exceptions, a  *)
(* listener is marked active exactly while its callback runs: none is       *)
(* silenced for good and none not marked recursive runs within itself.      *)
ActiveWhileRunning ==
  /\ \A id \in DOMAIN records : records[id].active = Active(id)
  /\ destroying = {handlers[i].source : i \in {j \in DOMAIN handlers : handlers[j].kind = "destroy"}}

(* Once a source is destroyed, no listener coupled to it stays valid, not   *)
(* even one made by its own destructor or after the destruction was         *)
(* announced (docs/architecture.md, "invalidates source-coupled             *)
(* listeners").                                                             *)
CoupledListenersEnd ==
  \A id \in DOMAIN listeners :
    listeners[id].coupled /\ listeners[id].valid /\ Locked(id) => Usable(listeners[id].source)

(* What the registry holds of a listener is true while callbacks nest and   *)
(* sources die.                                                             *)
ListenersAreTracked == ActiveWhileRunning /\ CoupledListenersEnd

=============================================================================
