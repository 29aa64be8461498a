---------------------------- MODULE SetOperations ----------------------------
(***************************************************************************)
(* union, intersect, setdiff, setxor and ismember (set builtins): the code *)
(* sorts, searches and removes neighbours, over keys of one value or one   *)
(* row.  A missing value sorts last and equal to itself but is a member of *)
(* nothing.  Values are counted in halves, so that a key of the second     *)
(* input can change when it takes the integer class of the first.          *)
(***************************************************************************)
EXTENDS Integers, SequencesExt, FiniteSetsExt

CONSTANT SetQuestions  \* [name, left, right, integer, stable]

VARIABLES
  asked,    \* the call
  answer    \* its outputs

setVars == <<asked, answer>>

Missing == 99

(* keyCompare, keyEqual.                                                    *)
Before(left, right) ==
  \E i \in DOMAIN left : left[i] < right[i] /\ \A j \in 1..(i - 1) : left[j] = right[j]
EqualKeys(left, right) == left = right /\ \A i \in DOMAIN left : left[i] # Missing

(* sortedRecordOrder: the positions by key, then by source.                 *)
PositionOrder(keys, i, j) == Before(keys[i], keys[j]) \/ (keys[i] = keys[j] /\ i < j)
SortedOrder(keys) ==
  SortSeq([i \in DOMAIN keys |-> i], LAMBDA i, j : PositionOrder(keys, i, j))

(* uniqueRecords: neighbours of the sorted order, back in order of source.  *)
UniqueRecords(keys) ==
  LET Keep(unique, i) ==
        IF unique = <<>> \/ ~EqualKeys(keys[Last(unique)], keys[i])
        THEN Append(unique, i) ELSE unique
  IN SortSeq(FoldLeft(Keep, <<>>, SortedOrder(keys)), LAMBDA i, j : i < j)

(* findMatch: the first of the records a binary search lands on; 0 if none. *)
FindMatch(keys, key) ==
  LET alike == {i \in DOMAIN keys : ~Before(keys[i], key) /\ ~Before(key, keys[i])}
      equal == {i \in alike : EqualKeys(keys[i], key)}
  IN IF equal = {} THEN 0 ELSE Min(equal)

Record(key, a, b) == [key |-> key, a |-> a, b |-> b]

FromLeft(left, right, name, chosen) ==
  [i \in DOMAIN chosen |->
     Record(left[chosen[i]], chosen[i],
            IF name = "intersect" THEN FindMatch(right, left[chosen[i]]) ELSE 0)]
FromRight(right, chosen) == [i \in DOMAIN chosen |-> Record(right[chosen[i]], 0, chosen[i])]

(* Which of the unique records of the left are taken, and whether those of  *)
(* the right that the left lacks are.                                       *)
TakesLeft(name, found) ==
  CASE name = "union" -> TRUE
    [] name = "intersect" -> found
    [] name \in {"setdiff", "setxor"} -> ~found
Selected(name, left, right) ==
  FromLeft(left, right, name,
           SelectSeq(UniqueRecords(left), LAMBDA i : TakesLeft(name, FindMatch(right, left[i]) # 0)))
  \o IF name \in {"union", "setxor"}
     THEN FromRight(right, SelectSeq(UniqueRecords(right), LAMBDA i : FindMatch(left, right[i]) = 0))
     ELSE <<>>

(* normalizeSelectedNumeric: records of the second input take the class of  *)
(* the first: halves are rounded away from zero and NaN becomes zero.       *)
Converted(key, integer) ==
  IF integer
  THEN [i \in DOMAIN key |-> IF key[i] = Missing THEN 0 ELSE ((key[i] + 1) \div 2) * 2]
  ELSE key
Normalized(record, integer) ==
  IF record.b # 0 /\ record.a = 0 THEN [record EXCEPT !.key = Converted(@, integer)] ELSE record

(* deduplicateSelected: conversion can have made records equal.             *)
AsSelected(records) == records
PickedFrom(records, places) == [i \in DOMAIN places |-> records[places[i]]]
Deduplicated(records) == PickedFrom(records, UniqueRecords([i \in DOMAIN records |-> records[i].key]))

SortSelected(records) == PickedFrom(records, SortedOrder([i \in DOMAIN records |-> records[i].key]))

NormalizedAll(records, integer) ==
  [i \in DOMAIN records |-> Normalized(records[i], integer)]
Arranged(records, stable) == IF stable THEN records ELSE SortSelected(records)

(* The values and the two index outputs.                                    *)
KeysOf(records) == [i \in DOMAIN records |-> records[i].key]
LeftIndices(records) == [i \in DOMAIN records |-> records[i].a]
RightIndices(records) == [i \in DOMAIN records |-> records[i].b]
Presented(records) ==
  [values |-> KeysOf(records),
   ia |-> LeftIndices(SelectSeq(records, LAMBDA record : record.a # 0)),
   ib |-> RightIndices(SelectSeq(records, LAMBDA record : record.b # 0))]

(* setOperationBuiltin.                                                     *)
SetOperation(name, left, right, integer, stable) ==
  Presented(Arranged(Deduplicated(NormalizedAll(Selected(name, left, right), integer)), stable))

IsMember(left, right) == [i \in DOMAIN left |-> FindMatch(right, left[i])]

NoAnswer == <<>>

Answer(call) ==
  IF call.name = "ismember" THEN [locations |-> IsMember(call.left, call.right)]
  ELSE SetOperation(call.name, call.left, call.right, call.integer, call.stable)

SetsInit == asked \in SetQuestions /\ answer = NoAnswer

SetsNext == answer = NoAnswer /\ answer' = Answer(asked) /\ UNCHANGED asked

SetsSpec == SetsInit /\ [][SetsNext]_setVars

-----------------------------------------------------------------------------
(* What the operations mean: positions of left followed by right that the   *)
(* operation asks for, each value once, where it occurs first.              *)
Holds(keys, key) == \E i \in DOMAIN keys : EqualKeys(keys[i], key)

Meaning(name, left, right, integer, stable) ==
  LET both == left \o right
      own(p) == p <= Len(left)
      value(p) == IF own(p) THEN both[p] ELSE Converted(both[p], integer)
      Asked(p) ==
        CASE name = "union" -> own(p) \/ ~Holds(left, both[p])
          [] name = "intersect" -> own(p) /\ Holds(right, both[p])
          [] name = "setdiff" -> own(p) /\ ~Holds(right, both[p])
          [] name = "setxor" -> ~Holds(IF own(p) THEN right ELSE left, both[p])
      wanted == {p \in DOMAIN both :
                   Asked(p) /\ \A q \in 1..(p - 1) : Asked(q) => ~EqualKeys(value(q), value(p))}
      Order(p, q) == IF stable THEN p < q
                     ELSE Before(value(p), value(q)) \/ (value(p) = value(q) /\ p < q)
      places == SetToSortSeq(wanted, Order)
      match(p) == Min({i \in DOMAIN right : EqualKeys(right[i], both[p])})
  IN [values |-> [i \in DOMAIN places |-> value(places[i])],
      ia |-> SelectSeq(places, own),
      ib |-> IF name = "intersect" THEN [i \in DOMAIN places |-> match(places[i])]
             ELSE LET others == SelectSeq(places, LAMBDA p : ~own(p))
                  IN [i \in DOMAIN others |-> others[i] - Len(left)]]

MembersMean(left, right, locations) ==
  \A i \in DOMAIN left :
    IF locations[i] = 0 THEN ~Holds(right, left[i])
    ELSE /\ EqualKeys(right[locations[i]], left[i])
         /\ \A j \in 1..(locations[i] - 1) : ~EqualKeys(right[j], left[i])

(* The sorted searches, neighbour removal and conversion give what the      *)
(* operations mean, value by value and position by position, with repeated  *)
(* and missing values and a second input that changes when it takes the     *)
(* class of the first (setOperationBuiltin, isMemberBuiltin).               *)
SetsMeanWhatTheySay ==
  answer # NoAnswer =>
    IF asked.name = "ismember" THEN MembersMean(asked.left, asked.right, answer.locations)
    ELSE answer = Meaning(asked.name, asked.left, asked.right, asked.integer, asked.stable)

=============================================================================
