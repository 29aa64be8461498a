------------------------- MODULE ListenerCollection -------------------------
(***************************************************************************)
(* collectUnreachable (runtime_event_listener_state.cpp): which records of *)
(* the listener registry are dropped.  Values are counted references: an   *)
(* object lives while something owns it, so a listener the registry keeps  *)
(* and the callback that captures its source keep each other for ever.     *)
(* The collection compares the owners of every object below the kept       *)
(* listeners with the owners it found there itself.                        *)
(***************************************************************************)
EXTENDS Integers, SequencesExt, FiniteSetsExt

CONSTANTS
  CollectedSources,  \* handle objects listened to
  Listeners,       \* listener objects
  Callbacks,       \* function handles
  MaxCollections     \* bound on operations of the script

Nodes == CollectedSources \cup Listeners \cup Callbacks

VARIABLES
  held,            \* what variables of the script own
  alive,           \* what has an owner
  edges,           \* fields, callbacks and captured variables
  registry,        \* the records: source, coupled, retained
  made,            \* listeners and callbacks made so far
  steps            \* operations done

collectionVars == <<held, alive, edges, registry, made, steps>>

Recorded == DOMAIN registry
Retained(records) == {l \in DOMAIN records : records[l].retained}

CollectionInit ==
  /\ held = CollectedSources
  /\ alive = CollectedSources
  /\ edges = {}
  /\ registry = <<>>
  /\ made = {}
  /\ steps = 0

(* Counted references: what loses its last owner goes, with its own         *)
(* references.  A cycle stays.                                              *)
RECURSIVE Surviving(_, _, _)
Surviving(objects, links, owned) ==
  LET kept == {x \in objects : x \in owned \/ \E y \in objects : <<y, x>> \in links}
  IN IF kept = objects THEN objects ELSE Surviving(kept, links, owned)

Release(objects, links, owned, records) ==
  /\ alive' = Surviving(objects, links, owned \cup Retained(records))
  /\ edges' = {link \in links : link[1] \in alive'}
  /\ held' = owned
  /\ registry' = records

Script(action) == steps < MaxCollections /\ steps' = steps + 1 /\ action

Fresh(kind) == IF kind \subseteq made THEN {} ELSE {CHOOSE x \in kind : x \notin made}
Capturing(handle, captured) == edges \cup {<<handle, x>> : x \in captured}

MakeCallback ==
  \E handle \in Fresh(Callbacks), captured \in SUBSET (held \cap (CollectedSources \cup Listeners)) :
    /\ made' = made \cup {handle}
    /\ Release(alive \cup {handle}, Capturing(handle, captured), held \cup {handle}, registry)

(* addlistener, listener: of a callback held or written in place; the       *)
(* result is kept in a variable or lost.                                    *)
MakeListener ==
  \E l \in Fresh(Listeners), source \in held \cap CollectedSources,
     handle \in (held \cap Callbacks) \cup Fresh(Callbacks),
     captured \in SUBSET (held \cap CollectedSources), coupled, kept \in BOOLEAN :
    /\ handle \in made => captured = {}
    /\ made' = made \cup {l, handle}
    /\ Release(alive \cup {l, handle}, Capturing(handle, captured) \cup {<<l, handle>>},
               held \cup (IF kept THEN {l} ELSE {}),
               [x \in Recorded \cup {l} |->
                  IF x = l THEN [source |-> source, coupled |-> coupled, retained |-> coupled]
                  ELSE registry[x]])

StoreInField ==
  \E source \in held \cap CollectedSources, x \in held :
    /\ <<source, x>> \notin edges
    /\ Release(alive, edges \cup {<<source, x>>}, held, registry)
    /\ UNCHANGED made

LoadField ==
  \E source \in held \cap CollectedSources, x \in Nodes :
    /\ <<source, x>> \in edges /\ x \notin held
    /\ Release(alive, edges, held \cup {x}, registry)
    /\ UNCHANGED made

ClearVariable ==
  \E x \in held :
    /\ Release(alive, edges, held \ {x}, registry)
    /\ UNCHANGED made

(* deleteEventListener: the registry stops owning the listener.             *)
DeleteListenerObject ==
  \E l \in held \cap Retained(registry) :
    /\ Release(alive, edges, held, [registry EXCEPT ![l].retained = FALSE])
    /\ UNCHANGED made

-----------------------------------------------------------------------------
(* The collection.                                                          *)

RECURSIVE Closure(_, _)
Closure(start, links) ==
  LET next == start \cup {link[2] : link \in {l \in links : l[1] \in start}}
  IN IF next = start THEN start ELSE Closure(next, links)

Owners(x) ==
  Cardinality({y \in alive : <<y, x>> \in edges})
    + (IF x \in held THEN 1 ELSE 0) + (IF x \in Retained(registry) THEN 1 ELSE 0)

Found == Closure(Retained(registry), edges)

InternalOwners(x, found) ==
  Cardinality({y \in found : <<y, x>> \in edges})
    + (IF x \in Retained(registry) THEN 1 ELSE 0)

Coupled == {l \in Retained(registry) : registry[l].coupled /\ registry[l].source \in alive}

NoCoupling(x) == {}
CoupledListeners(x) == {l \in Coupled : registry[l].source = x}

Reachable(found) ==
  LET start == {l \in Coupled : registry[l].source \notin found}
                 \cup {x \in found : Owners(x) > InternalOwners(x, found)}
      conditional == UNION {{<<x, l>> : l \in CoupledListeners(x)} : x \in found}
  IN Closure(start, {link \in edges : link[1] \in found} \cup conditional)

Discarded ==
  LET found == Found
      reachable == Reachable(found)
  IN {l \in Recorded :
        \/ registry[l].source \notin alive \/ l \notin alive
        \/ registry[l].source \in found \ reachable}

CollectUnreachable ==
  /\ LET kept == Recorded \ Discarded
     IN Release(alive, edges, held, [l \in kept |-> registry[l]])
  /\ UNCHANGED <<made, steps>>

CollectionNext ==
  \/ Script(MakeCallback) \/ Script(MakeListener) \/ Script(StoreInField) \/ Script(LoadField)
  \/ Script(ClearVariable) \/ Script(DeleteListenerObject)
  \/ CollectUnreachable

CollectionSpec == CollectionInit /\ [][CollectionNext]_collectionVars

-----------------------------------------------------------------------------
(* What the script can still reach: its variables, what they refer to, and, *)
(* since a source keeps the listeners coupled to it, those listeners and    *)
(* what their callbacks captured.                                           *)
RECURSIVE InUseFrom(_)
InUseFrom(objects) ==
  LET next == objects \cup {x \in alive : \E y \in objects : <<y, x>> \in edges}
                \cup {l \in Retained(registry) : registry[l].source \in objects}
  IN IF next = objects THEN objects ELSE InUseFrom(next)

(* A collection keeps exactly the records whose listener lives and whose    *)
(* source the script can reach, the ring of a listener and the source its   *)
(* callback captured included; objects that keep each other alive apart     *)
(* from every listener are out of its sight and may keep their records.     *)
CollectsExactly ==
  [][CollectUnreachable =>
       LET inUse == InUseFrom(held)
           leaked == InUseFrom(alive \ Found) \ inUse
           wanted == {l \in Recorded : l \in alive /\ registry[l].source \in inUse}
       IN /\ wanted \subseteq Recorded'
          /\ \A l \in Recorded' \ wanted : registry[l].source \in leaked]_collectionVars

=============================================================================
