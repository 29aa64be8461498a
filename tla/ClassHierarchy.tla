--------------------------- MODULE ClassHierarchy ---------------------------
(***************************************************************************)
(* Resolving the classes of a program before it runs (bytecode_vm.cpp,     *)
(* resolveClassHierarchies): each class merges what its superclasses       *)
(* resolved to, in the order it lists them, then adds its own members; the *)
(* class of an object array is found from the resolved hierarchy.          *)
(*                                                                         *)
(* The tables are keyed by name and names do not interact, so every class  *)
(* declares at most one method, one property and one event, all of the     *)
(* same name in every class.  Read and write access of a property are one  *)
(* value, validation is present or absent.  Constructors, destructors,     *)
(* access methods, enumerations and the wording of diagnostics are left    *)
(* out: a class is valid or not.                                           *)
(***************************************************************************)
EXTENDS Integers, Sequences, SequencesExt, FiniteSetsExt

CONSTANTS
  ClassNames,          \* the classes, in the order of their names
  Declarations(_)      \* what each of them may declare

NoMember == <<>>
NoClass == ""

VARIABLES
  classes,     \* the declarations collected so far
  resolved,    \* the resolved classes, by name
  arrayOf,     \* the classes of the elements of an object array
  preferred,   \* the class of the array they were taken from or assigned to
  arrayClass   \* the class found for that array; NoClass if it was refused

objectArray == <<arrayOf, preferred, arrayClass>>
hierarchyVars == <<classes, resolved, objectArray>>

-----------------------------------------------------------------------------
(* Ancestors and access.                                                   *)

SupersIn(declared, name) ==
  {s \in Range(declared[name].supers) : s \in DOMAIN declared}

\* classDerivesFrom: a class derives from itself.
RECURSIVE AncestorsFrom(_, _)
AncestorsFrom(declared, names) ==
  LET wider == names \cup UNION {SupersIn(declared, n) : n \in names}
  IN IF wider = names THEN names ELSE AncestorsFrom(declared, wider)

DerivesFrom(declared, name, super) == super \in AncestorsFrom(declared, {name})

SameAccess(left, right) ==
  left.level = right.level /\ left.listed = right.listed

AllowsClass(declared, access, declarer, name) ==
  CASE access.level = "public" -> TRUE
    [] access.level = "private" -> name = declarer
    [] access.level = "protected" -> DerivesFrom(declared, name, declarer)
    [] access.level = "list" ->
         \/ name = declarer
         \/ \E listed \in access.listed : DerivesFrom(declared, name, listed)

\* A private method or property has an identity of its own in each class; a
\* list none of whose classes exists does not make a method that private.
PrivateMethod(method) == method.access.level = "private" /\ method.access.own
PrivateProperty(property) == property.access.level = "private"

-----------------------------------------------------------------------------
(* Merging one superclass into the class under resolution.                 *)

\* What a class is before it resolves, and while it does.
Unresolved(declaration) ==
  [state |-> "unresolved", valid |-> TRUE, handle |-> FALSE, root |-> NoClass,
   properties |-> <<>>, method |-> NoMember, privateMethods |-> {},
   abstractMethod |-> NoMember, abstractProperty |-> NoMember,
   event |-> NoClass, abstract |-> FALSE]

Invalid(draft) == [draft EXCEPT !.valid = FALSE]
InvalidIf(condition, draft) == IF condition THEN Invalid(draft) ELSE draft

MergedRoot(draft, base) ==
  CASE base.root = NoClass -> draft
    [] draft.root = NoClass -> [draft EXCEPT !.root = base.root]
    [] OTHER -> InvalidIf(draft.root # base.root, draft)

MaySubclass(name, declaration) ==
  /\ ~ declaration.sealed
  /\ declaration.restricted => name \in declaration.allowed

MergedProperty(draft, candidate) ==
  LET present == Range(draft.properties) IN
  CASE \E p \in present : p.declarer = candidate.declarer -> draft
    [] /\ ~ PrivateProperty(candidate)
       /\ \E p \in present : ~ PrivateProperty(p) -> Invalid(draft)
    [] OTHER -> [draft EXCEPT !.properties = Append(@, candidate)]

\* mergeAbstractPropertyRequirement: the one with validation is kept.
MergedRequirement(draft, candidate) ==
  LET existing == draft.abstractProperty IN
  CASE existing = NoMember -> [draft EXCEPT !.abstractProperty = candidate]
    [] existing = candidate -> draft
    [] OTHER ->
         LET checked == InvalidIf(~ SameAccess(existing.access, candidate.access)
                                  \/ (existing.validated /\ candidate.validated),
                                  draft)
         IN IF candidate.validated /\ ~ existing.validated
            THEN [checked EXCEPT !.abstractProperty = candidate] ELSE checked

\* The declaration of the more specific class wins, unrelated ones clash.
MergedEvent(declared, draft, declarer) ==
  CASE draft.event = NoClass -> [draft EXCEPT !.event = declarer]
    [] DerivesFrom(declared, draft.event, declarer) -> draft
    [] DerivesFrom(declared, declarer, draft.event) ->
         [draft EXCEPT !.event = declarer]
    [] OTHER -> Invalid(draft)

DominatedBy(declared, method, existing) ==
  DerivesFrom(declared, existing.declarer, method.declarer)
Dominates(declared, method, existing) ==
  DerivesFrom(declared, method.declarer, existing.declarer)

MergedMethod(declared, name, draft, method) ==
  LET existing == draft.method IN
  CASE existing = NoMember -> [draft EXCEPT !.method = method]
    [] existing.declarer = method.declarer -> draft
    [] declared[name].method # NoMember -> InvalidIf(method.sealed, draft)
    [] Dominates(declared, method, existing) -> [draft EXCEPT !.method = method]
    [] Dominates(declared, existing, method) -> draft
    [] OTHER -> Invalid(draft)

\* The members a superclass resolved to, in the order the code merges them.
MergedSuper(declared, name, draft, super, base) ==
  LET opened == InvalidIf(~ base.valid \/ base.state # "resolved"
                          \/ ~ MaySubclass(name, declared[super]),
                          [draft EXCEPT !.handle = @ \/ base.handle])
      rooted == MergedRoot(opened, base)
      propertied == FoldLeft(MergedProperty, rooted, base.properties)
      required == IF base.abstractProperty = NoMember THEN propertied
                  ELSE MergedRequirement(propertied, base.abstractProperty)
      evented == IF base.event = NoClass THEN required
                 ELSE MergedEvent(declared, required, base.event)
      private == [evented EXCEPT !.privateMethods = @ \cup base.privateMethods]
      dispatched == IF base.method = NoMember THEN private
                    ELSE MergedMethod(declared, name, private, base.method)
  IN IF base.abstractMethod = NoMember \/ dispatched.abstractMethod # NoMember
     THEN dispatched
     ELSE [dispatched EXCEPT !.abstractMethod = base.abstractMethod]

-----------------------------------------------------------------------------
(* The members of the class itself.                                        *)

\* applyAbstractPropertyRequirement
Implements(property, requirement) ==
  /\ SameAccess(property.access, requirement.access)
  /\ ~ (property.validated /\ requirement.validated)

WithValidation(property, requirement) ==
  [property EXCEPT !.validated = @ \/ requirement.validated]

FulfilledByAny(draft) ==
  IF draft.method = NoMember /\ draft.privateMethods = {} THEN draft
  ELSE [draft EXCEPT !.abstractMethod = NoMember]

\* A concrete method of one superclass fulfils what another only requires.
InheritedMethodFulfils(draft) ==
  IF draft.method = NoMember THEN draft
  ELSE [draft EXCEPT !.abstractMethod = NoMember]

Implementation(properties) ==
  LET visible == {i \in DOMAIN properties : ~ PrivateProperty(properties[i])}
  IN IF visible = {} THEN Len(properties) ELSE Min(visible)

InheritedPropertyFulfils(draft) ==
  LET requirement == draft.abstractProperty
      chosen == Implementation(draft.properties)
  IN IF requirement = NoMember \/ draft.properties = <<>> THEN draft
     ELSE InvalidIf(~ Implements(draft.properties[chosen], requirement),
            [draft EXCEPT !.abstractProperty = NoMember,
                          !.properties[chosen] = WithValidation(@, requirement)])

VisibleProperty(draft) ==
  \E p \in Range(draft.properties) : ~ PrivateProperty(p)

OwnProperty(draft, property) ==
  LET requirement == draft.abstractProperty IN
  CASE property = NoMember -> draft
    [] property.abstract ->
         MergedRequirement(InvalidIf(VisibleProperty(draft), draft), property)
    [] VisibleProperty(draft) -> Invalid(draft)
    [] requirement = NoMember ->
         [draft EXCEPT !.properties = Append(@, property)]
    [] OTHER ->
         InvalidIf(~ Implements(property, requirement),
           [draft EXCEPT !.abstractProperty = NoMember,
                         !.properties =
                            Append(@, WithValidation(property, requirement))])

OwnEvent(name, draft, declares) ==
  CASE ~ declares -> draft
    [] draft.event # NoClass -> Invalid(draft)
    [] OTHER -> [draft EXCEPT !.event = name]

\* What an inherited method forbids the class to declare.
ForbidsOverride(declared, name, inherited) ==
  \/ inherited.sealed
  \/ /\ inherited.access.selective
     /\ ~ AllowsClass(declared, inherited.access, inherited.declarer, name)

OwnMethod(declared, name, draft) ==
  LET method == declared[name].method
      inherited == draft.method
      sealedPrivate == \E m \in draft.privateMethods : m.sealed
      forbidden == inherited # NoMember
                   /\ ForbidsOverride(declared, name, inherited)
      changes == inherited # NoMember
                 /\ ~ SameAccess(inherited.access, method.access)
  IN CASE method = NoMember -> draft
       [] PrivateMethod(method) ->
            InvalidIf(sealedPrivate \/ forbidden \/ changes,
              [draft EXCEPT !.privateMethods = @ \cup {method},
                            !.abstractMethod = IF method.abstract THEN method
                                               ELSE @])
       [] method.abstract ->
            InvalidIf(sealedPrivate \/ forbidden,
              [draft EXCEPT !.method = NoMember, !.abstractMethod = method])
       [] OTHER ->
            InvalidIf(sealedPrivate \/ forbidden \/ changes,
              [draft EXCEPT !.method = method, !.abstractMethod = NoMember])

Completed(declared, name, draft) ==
  LET inherits == InheritedPropertyFulfils(InheritedMethodFulfils(draft))
      propertied == OwnProperty(inherits, declared[name].property)
      evented == OwnEvent(name, propertied, declared[name].event)
      whole == OwnMethod(declared, name, evented)
      abstract == \/ declared[name].abstract
                  \/ whole.abstractMethod # NoMember
                  \/ whole.abstractProperty # NoMember
      final == \/ declared[name].sealed
               \/ declared[name].restricted /\ declared[name].allowed = {}
  IN InvalidIf(abstract /\ final,
               [whole EXCEPT !.abstract = abstract, !.state = "resolved"])

-----------------------------------------------------------------------------
(* The resolution: superclasses first, a class met while it resolves is    *)
(* part of a cycle.                                                        *)

RECURSIVE Resolve(_, _, _)
Resolve(declared, table, name) ==
  LET declaration == declared[name]
      begun == [Unresolved(declaration) EXCEPT
                  !.handle = declaration.handle,
                  !.root = IF declaration.heterogeneous THEN name ELSE NoClass]
      Merge(state, super) ==
        IF super \notin DOMAIN declared
        THEN [state EXCEPT !.draft = Invalid(@)]
        ELSE LET next == Resolve(declared, state.table, super) IN
             [table |-> next,
              draft |-> MergedSuper(declared, name, state.draft, super,
                                    next[super])]
      merged == FoldLeft(Merge,
                  [table |-> [table EXCEPT ![name].state = "resolving"],
                   draft |-> begun], declaration.supers)
  IN IF table[name].state # "unresolved" THEN table
     ELSE [merged.table EXCEPT ![name] = Completed(declared, name, merged.draft)]

ResolvedTable(declared) ==
  LET blank == [name \in DOMAIN declared |-> Unresolved(declared[name])]
  IN FoldLeft(LAMBDA table, name : Resolve(declared, table, name), blank,
              ClassNames)

-----------------------------------------------------------------------------
(* resolveObjectArrayClass                                                 *)

CommonClasses(declared, table, names, root) ==
  {c \in DOMAIN declared :
     /\ table[c].root = root
     /\ \A n \in names : DerivesFrom(declared, n, c)}

MostGeneral(declared, common) ==
  {c \in common : \A other \in common \ {c} : ~ DerivesFrom(declared, c, other)}
MostSpecific(declared, common) ==
  {c \in common : \A other \in common \ {c} : ~ DerivesFrom(declared, other, c)}

ArrayClass(declared, table, names, preference) ==
  LET asked == names \cup ({preference} \ {NoClass})
      roots == {table[n].root : n \in asked}
      best == MostSpecific(declared,
                CommonClasses(declared, table, names, CHOOSE r \in roots : TRUE))
  IN CASE names = {} -> preference
       [] Cardinality(asked) = 1 -> CHOOSE n \in asked : TRUE
       [] NoClass \in roots \/ Cardinality(roots) > 1 -> NoClass
       [] Cardinality(best) # 1 -> NoClass
       [] OTHER -> CHOOSE c \in best : TRUE

-----------------------------------------------------------------------------
Declared == DOMAIN classes

HierarchyInit ==
  /\ classes = <<>>
  /\ resolved = <<>>
  /\ arrayOf = {}
  /\ preferred = NoClass
  /\ arrayClass = NoClass

\* The declarations are collected from the program.
DeclareClass ==
  LET name == ClassNames[Cardinality(Declared) + 1] IN
  /\ Cardinality(Declared) < Len(ClassNames)
  /\ \E declaration \in Declarations(name) :
       classes' = [n \in Declared \cup {name} |->
                     IF n = name THEN declaration ELSE classes[n]]
  /\ UNCHANGED <<resolved, objectArray>>

ResolveClassHierarchies ==
  /\ Cardinality(Declared) = Len(ClassNames)
  /\ resolved = <<>>
  /\ resolved' = ResolvedTable(classes)
  /\ UNCHANGED <<classes, objectArray>>

\* An object array is built from elements of valid classes.
BuildObjectArray ==
  /\ resolved # <<>>
  /\ \A name \in DOMAIN resolved : resolved[name].valid
  /\ arrayOf = {} /\ arrayClass = NoClass
  /\ \E names \in SUBSET DOMAIN resolved :
       /\ names # {}
       /\ arrayOf' = names
       /\ arrayClass' = ArrayClass(classes, resolved, names, NoClass)
  /\ UNCHANGED <<classes, resolved, preferred>>

\* Elements are selected, deleted or assigned; the result keeps to the
\* hierarchy of the class the array had.
ChangeObjectArray ==
  /\ arrayClass # NoClass
  /\ \E kept \in SUBSET arrayOf, assigned \in {{}} \cup {{n} : n \in DOMAIN resolved} :
       /\ arrayOf' = kept \cup assigned
       /\ preferred' = arrayClass
       /\ arrayClass' = ArrayClass(classes, resolved, kept \cup assigned, arrayClass)
  /\ UNCHANGED <<classes, resolved>>

HierarchyNext ==
  DeclareClass \/ ResolveClassHierarchies \/ BuildObjectArray \/ ChangeObjectArray

HierarchySpec == HierarchyInit /\ [][HierarchyNext]_hierarchyVars

-----------------------------------------------------------------------------
(* Properties.                                                             *)

ValidClasses == {c \in DOMAIN resolved : resolved[c].valid}
Ancestors(name) == AncestorsFrom(classes, {name})

ProvidesMethod(name) ==
  resolved[name].method # NoMember \/ resolved[name].abstractMethod # NoMember

\* The bases keep what they promised.
KeepsBase(name, base) ==
  LET c == resolved[name]
      b == resolved[base]
  IN /\ b.valid
     /\ b.handle => c.handle
     /\ b.root # NoClass => c.root = b.root
     /\ ProvidesMethod(base) => ProvidesMethod(name)
     /\ b.event # NoClass => c.event # NoClass
     /\ \A p \in Range(b.properties) :
          \E q \in Range(c.properties) :
             q.declarer = p.declarer /\ SameAccess(q.access, p.access)
     /\ b.abstractProperty # NoMember /\ c.abstractProperty = NoMember =>
          \E q \in Range(c.properties) :
             SameAccess(q.access, b.abstractProperty.access)

(* An object of an accepted class can stand for an object of any of its    *)
(* superclasses: all of them are accepted, and every method, event,        *)
(* property slot and requirement they have is still there, with one        *)
(* visible property of the name at most (mergeInheritedProperty,           *)
(* mergeAbstractPropertyRequirement and resolveClassHierarchy of           *)
(* bytecode_vm.cpp).                                                       *)
SubclassesKeepPromises ==
  \A name \in ValidClasses :
    /\ \A base \in Ancestors(name) : KeepsBase(name, base)
    /\ \A i, j \in DOMAIN resolved[name].properties :
         i # j => \/ PrivateProperty(resolved[name].properties[i])
                  \/ PrivateProperty(resolved[name].properties[j])
    /\ ~ resolved[name].abstract =>
         \A base \in Ancestors(name) :
            classes[base].method # NoMember
              /\ ~ PrivateMethod(classes[base].method) =>
                   resolved[name].method # NoMember

(* A sealed method is never redeclared below the class that sealed it,     *)
(* whatever path leads there, and a method that is inherited is the most   *)
(* specific of those its superclasses resolved to (the "sealed-method"     *)
(* and "method" diagnostics of resolveClassHierarchy).                     *)
DispatchIsDetermined ==
  \A name \in ValidClasses :
    /\ \A base \in Ancestors(name) \ {name} :
         classes[base].method # NoMember /\ classes[base].method.sealed =>
           classes[name].method = NoMember
    /\ classes[name].method = NoMember =>
         \A base \in SupersIn(classes, name) :
           resolved[base].method # NoMember =>
             /\ resolved[name].method # NoMember
             /\ DerivesFrom(classes, resolved[name].method.declarer,
                            resolved[base].method.declarer)

(* An object array gets the most specific class that all its elements      *)
(* derive from, selecting and assigning elements never takes it out of the  *)
(* hierarchy its class belongs to, and it is refused only when there is no  *)
(* common heterogeneous root or two common superclasses are equally         *)
(* specific (resolveObjectArrayClass).                                      *)
ArrayClassIsShared ==
  LET asked == arrayOf \cup ({preferred} \ {NoClass})
      common == {c \in DOMAIN classes : \A n \in arrayOf : DerivesFrom(classes, n, c)}
  IN CASE arrayOf = {} -> arrayClass = preferred
       [] arrayOf # {} /\ arrayClass # NoClass ->
            /\ arrayClass \in common
            /\ \A c \in common :
                 resolved[c].root = resolved[arrayClass].root => DerivesFrom(classes, arrayClass, c)
            /\ arrayClass = preferred
                 \/ \A n \in asked : resolved[n].root = resolved[arrayClass].root
       [] OTHER ->
            /\ Cardinality(asked) > 1
            /\ \/ \E n \in asked : resolved[n].root = NoClass
               \/ \E m, n \in asked : resolved[m].root # resolved[n].root
               \/ \E c, d \in common :
                    ~ DerivesFrom(classes, c, d) /\ ~ DerivesFrom(classes, d, c)

(* What an accepted class promises, it keeps: to its superclasses, to the  *)
(* dispatch of a method and to the arrays its objects are put in.          *)
ClassesKeepPromises ==
  SubclassesKeepPromises /\ DispatchIsDetermined /\ ArrayClassIsShared

=============================================================================
