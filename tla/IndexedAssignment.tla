------------------------- MODULE IndexedAssignment -------------------------
(***************************************************************************)
(* Indexing, indexed assignment with growth, and null assignment of        *)
(* numeric arrays and of arrays of missing                                 *)
(* (src/mparser/runtime/core/indexing).  An array is stored in row-major   *)
(* order and addressed in column-major order, so every operation maps      *)
(* coordinates; an array of missing has only a shape and repeats the       *)
(* shape logic of the numeric ones.                                        *)
(*                                                                         *)
(* Abstracted: numeric classes other than double and logical, complex      *)
(* parts, sparse results and the limits of size_t.                         *)
(***************************************************************************)
EXTENDS ArrayLayout, FiniteSets

CONSTANTS
  Arrays,            \* the arrays a variable may start with
  SubscriptTuples,   \* the subscripts an operation may be given
  AssignedValues,    \* the right-hand values
  MaxIndexings       \* bound: operations on the variable

ASSUME IndexingAssumption == MaxIndexings \in Nat

VARIABLES
  array,         \* the variable: [scalar, logical, shape, storage]
  missingShape,  \* the shape the operation gives to an array of missing
  indexing,      \* the last operation
  indexings      \* bound: operations so far

indexingVars == <<array, missingShape, indexing, indexings>>

-----------------------------------------------------------------------------
(* Subscripts.                                                             *)

\* A subscript is a colon, a logical mask, or a list of numbers.
Selection(subscript, extent) ==
  CASE subscript.kind = "colon" -> <<>> \o [i \in 1..extent |-> i - 1]
    [] subscript.kind = "mask" ->
         SelectSeq([i \in 1..Len(subscript.list) |-> i - 1],
                   LAMBDA i : subscript.list[i + 1])
    [] OTHER -> <<>> \o [i \in 1..Len(subscript.list) |-> subscript.list[i] - 1]

\* Only numbers may lie outside the extent, and only where the target grows.
ResolvesSubscript(subscript, extent, growth) ==
  \A i \in 1..Len(subscript.list) :
     CASE subscript.kind = "mask" -> subscript.list[i] => i <= extent
       [] OTHER -> /\ subscript.list[i] > 0
                   /\ growth \/ subscript.list[i] <= extent

ResolvesAll(shape, subscripts, growth) ==
  LET effective == EffectiveShape(shape, Len(subscripts)) IN
  \A i \in 1..Len(subscripts) :
     ResolvesSubscript(subscripts[i], effective[i], growth)

Selections(shape, subscripts) ==
  LET effective == EffectiveShape(shape, Len(subscripts)) IN
  <<>> \o [i \in 1..Len(subscripts) |-> Selection(subscripts[i], effective[i])]

RequiredExtent(selection) == Max({0} \cup {i + 1 : i \in Range(selection)})

Extents(selections) ==
  <<>> \o [i \in 1..Len(selections) |-> Len(selections[i])]

IsVectorShape(shape) == Len(shape) = 2 /\ (shape[1] = 1 \/ shape[2] = 1)

VectorLike(shape, count) == IF shape[1] = 1 THEN <<1, count>> ELSE <<count, 1>>

LinearResultShape(shape, subscript, count) ==
  CASE subscript.kind = "colon" -> <<count, 1>>
    [] IsVectorShape(shape) /\ IsVectorShape(subscript.shape) ->
         VectorLike(shape, count)
    [] subscript.kind = "mask" -> <<count, 1>>
    [] OTHER -> subscript.shape

ResultShape(shape, subscripts, selections) ==
  IF Len(subscripts) = 1
  THEN LinearResultShape(shape, subscripts[1], Len(selections[1]))
  ELSE Extents(selections)

\* The element of the target that an element of the selection stands for.
SourceIndex(ordinal, selections, effective) ==
  LET chosen == ColumnMajorCoordinates(ordinal, Extents(selections)) IN
  ColumnMajorIndex([i \in 1..Len(selections) |-> selections[i][chosen[i] + 1]],
                   effective)

-----------------------------------------------------------------------------
(* Reading.                                                                *)

Indexed(a, subscripts) ==
  LET selections == Selections(a.shape, subscripts)
      effective == EffectiveShape(a.shape, Len(subscripts))
      shape == ResultShape(a.shape, subscripts, selections)
  IN FromElements(shape,
                  [ordinal \in 0..Product(shape) - 1 |->
                     ElementAt(a, SourceIndex(ordinal, selections, effective))],
                  a.logical)

-----------------------------------------------------------------------------
(* Assignment: the checks, the growth, then the stores.                    *)

ConvertedElement(a, element) ==
  IF a.logical /\ element # 0 THEN 1 ELSE element

NonSingleton(shape) == SelectSeq(shape, LAMBDA extent : extent # 1)

Assignable(selections, value) ==
  LET extents == Extents(selections) IN
  \/ Product(value.shape) = 1
  \/ /\ Product(value.shape) = Product(extents)
     /\ Len(selections) > 1 => NonSingleton(extents) = NonSingleton(value.shape)

ConvertsTo(a, value, selections) ==
  ~ (a.logical /\ Product(Extents(selections)) > 0
               /\ NotANumber \in Range(value.storage))

PlaceUnmoved(index, view, shape) == index
NewPlace(index, view, shape) ==
  LET coordinates == ColumnMajorCoordinates(index, view) IN
  ColumnMajorIndex([i \in 1..Len(shape) |->
                      IF i <= Len(view) THEN coordinates[i] ELSE 0], shape)

\* The old elements keep their coordinates in the view, the new ones are zero.
Grown(a, view, shape) ==
  LET from(new) == {index \in 0..Product(view) - 1 :
                      NewPlace(index, view, shape) = new}
  IN FromElements(shape,
                  [new \in 0..Product(shape) - 1 |->
                     IF from(new) = {} THEN 0
                     ELSE ElementAt(a, CHOOSE index \in from(new) : TRUE)],
                  a.logical)

LinearGrowth(a, extent) ==
  LET leading == Product(Front(a.shape)) IN
  CASE a.scalar \/ (Len(a.shape) = 2 /\ a.shape[1] = 1) -> <<1, extent>>
    [] Len(a.shape) = 2 /\ a.shape[2] = 1 -> <<extent, 1>>
    [] leading = 0 -> <<1, extent>>
    [] OTHER -> [a.shape EXCEPT ![Len(a.shape)] =
                                (extent + leading - 1) \div leading]

WithLinearCapacity(a, selection) ==
  LET extent == RequiredExtent(selection) IN
  IF extent <= Product(a.shape) THEN a
  ELSE Grown(a, a.shape, LinearGrowth(a, extent))

\* A folded dimension that grows leaves the shape folded.
GrowthView(shape, n, foldedGrows) ==
  IF foldedGrows THEN EffectiveShape(shape, n)
  ELSE Resized(shape, Max({n, Len(shape)}))

WithSubscriptCapacity(a, selections) ==
  LET n == Len(selections)
      effective == EffectiveShape(a.shape, n)
      Needs(i) == RequiredExtent(selections[i]) > effective[i]
      folds == n < Len(a.shape)
      view == GrowthView(a.shape, n, folds /\ Needs(n))
      shape == <<>> \o [i \in 1..Len(view) |->
                 IF i > n \/ (folds /\ ~ Needs(n) /\ i = n) THEN view[i]
                 ELSE Max({view[i], RequiredExtent(selections[i])})]
  IN IF \E i \in 1..n : Needs(i) THEN Grown(a, view, shape) ELSE a

WithCapacity(a, selections) ==
  IF Len(selections) = 1 THEN WithLinearCapacity(a, selections[1])
  ELSE WithSubscriptCapacity(a, selections)

\* The stores run in order, so a repeated subscript keeps the last value.
Stored(a, selections, value) ==
  LET effective == EffectiveShape(a.shape, Len(selections))
      target == [ordinal \in 0..Product(Extents(selections)) - 1 |->
                   SourceIndex(ordinal, selections, effective)]
      writers(index) == {o \in DOMAIN target : target[o] = index}
      assigned(ordinal) ==
        ConvertedElement(a, ElementAt(value, IF Product(value.shape) = 1
                                             THEN 0 ELSE ordinal))
  IN [a EXCEPT !.storage =
        [offset \in DOMAIN a.storage |->
           LET index == ColumnMajorIndex(
                          RowMajorCoordinates(offset - 1, a.shape), a.shape) IN
           IF writers(index) = {} THEN a.storage[offset]
           ELSE assigned(Max(writers(index)))]]

CanAssign(a, subscripts, value) ==
  /\ ResolvesAll(a.shape, subscripts, TRUE)
  /\ LET selections == Selections(a.shape, subscripts) IN
     /\ Assignable(selections, value)
     /\ ConvertsTo(a, value, selections)

Assigned(a, subscripts, value) ==
  LET selections == Selections(a.shape, subscripts) IN
  Stored(WithCapacity(a, selections), selections, value)

-----------------------------------------------------------------------------
(* Null assignment.                                                        *)

\* replaceNumericArray: a single element that is left stays an array.
Replaced(a, shape, elements) ==
  [FromElements(shape, elements, a.logical) EXCEPT !.scalar = FALSE]

CanDeleteLinear(a, selection) ==
  \/ Range(selection) = {}
  \/ a.scalar
  \/ IsVectorShape(a.shape)
  \/ Cardinality(Range(selection)) = Product(a.shape)

DeletedLinear(a, selection) ==
  LET kept == SelectSeq([i \in 1..Product(a.shape) |-> i - 1],
                        LAMBDA i : i \notin Range(selection))
      shape == IF kept = <<>> /\ (a.scalar \/ ~ IsVectorShape(a.shape))
               THEN <<0, 0>> ELSE VectorLike(a.shape, Len(kept))
  IN Replaced(a, shape, [i \in 0..Len(kept) - 1 |-> ElementAt(a, kept[i + 1])])

NonColons(subscripts) ==
  {i \in 1..Len(subscripts) : subscripts[i].kind # "colon"}

CanDeleteSlices(shape, subscripts) ==
  /\ Cardinality(NonColons(subscripts)) = 1
  /\ Len(subscripts) >= Len(shape)

DeletedSlices(a, subscripts, selections) ==
  LET deletion == CHOOSE i \in NonColons(subscripts) : TRUE
      removed == Range(selections[deletion])
      old == Resized(a.shape, Len(subscripts))
      shape == [old EXCEPT ![deletion] = @ - Cardinality(removed)]
      kept == SelectSeq([i \in 1..old[deletion] |-> i - 1],
                        LAMBDA i : i \notin removed)
      from(index) ==
        ColumnMajorIndex([ColumnMajorCoordinates(index, shape)
                            EXCEPT ![deletion] = kept[@ + 1]], old)
  IN Replaced(a, shape, [index \in 0..Product(shape) - 1 |->
                           ElementAt(a, from(index))])

CanDelete(a, subscripts) ==
  /\ ResolvesAll(a.shape, subscripts, FALSE)
  /\ IF Len(subscripts) = 1
     THEN CanDeleteLinear(a, Selections(a.shape, subscripts)[1])
     ELSE CanDeleteSlices(a.shape, subscripts)

\* Removing nothing leaves the target as it is.
Deleted(a, subscripts) ==
  LET selections == Selections(a.shape, subscripts)
      removes == IF Len(subscripts) = 1 THEN 1
                 ELSE CHOOSE i \in NonColons(subscripts) : TRUE
  IN CASE selections[removes] = <<>> -> a
       [] Len(subscripts) = 1 -> DeletedLinear(a, selections[1])
       [] OTHER -> DeletedSlices(a, subscripts, selections)

-----------------------------------------------------------------------------
(* The same operations on an array of missing: only the shape.             *)

Refused == <<>>

MissingRoundedDown(shape, extent) ==
  IF Len(shape) = 2 /\ 1 \in {shape[1], shape[2]} THEN VectorLike(shape, extent)
  ELSE Append(Front(shape), extent \div Max({1, Product(Front(shape))}))
MissingLinearGrowth(shape, extent) ==
  LET leading == Product(Front(shape)) IN
  IF Len(shape) = 2 /\ 1 \in {shape[1], shape[2]} THEN VectorLike(shape, extent)
  ELSE IF leading = 0 THEN <<1, extent>>
  ELSE Append(Front(shape), extent \div leading
                              + (IF extent % leading = 0 THEN 0 ELSE 1))

MissingSubscriptGrowth(shape, selections) ==
  LET n == Len(selections)
      effective == EffectiveShape(shape, n)
      extent == [i \in 1..n |-> RequiredExtent(selections[i])]
      base == IF n >= Len(shape) THEN Resized(shape, n)
              ELSE IF extent[n] > effective[n] THEN effective ELSE shape
  IN IF \A i \in 1..n : extent[i] <= effective[i] THEN shape
     ELSE <<>> \o [i \in 1..Len(base) |->
            IF i < n \/ (i = n /\ Len(base) = n)
            THEN Max({base[i], extent[i]}) ELSE base[i]]

MissingAssigned(shape, subscripts, value) ==
  LET selections == Selections(shape, subscripts)
      extent == RequiredExtent(selections[1])
  IN CASE \/ ~ ResolvesAll(shape, subscripts, TRUE)
          \/ ~ Assignable(selections, value) -> Refused
       [] Len(subscripts) > 1 ->
            NormalizedShape(MissingSubscriptGrowth(shape, selections))
       [] extent > Product(shape) -> MissingLinearGrowth(shape, extent)
       [] OTHER -> shape

MissingDeletedLinear(shape, removed) ==
  LET kept == Product(shape) - Cardinality(removed) IN
  CASE removed = {} -> shape
    [] ~ IsVectorShape(shape) /\ kept > 0 -> Refused
    [] kept = 0 /\ (shape = <<1, 1>> \/ ~ IsVectorShape(shape)) -> <<0, 0>>
    [] OTHER -> VectorLike(shape, kept)

MissingDeletedSlices(shape, subscripts) ==
  LET deletion == CHOOSE i \in NonColons(subscripts) : TRUE
      removed == Range(Selections(shape, subscripts)[deletion])
  IN CASE ~ CanDeleteSlices(shape, subscripts) -> Refused
       [] removed = {} -> shape
       [] OTHER -> NormalizedShape([Resized(shape, Len(subscripts))
                     EXCEPT ![deletion] = @ - Cardinality(removed)])

MissingDeleted(shape, subscripts) ==
  CASE ~ ResolvesAll(shape, subscripts, FALSE) -> Refused
    [] Len(subscripts) = 1 ->
         MissingDeletedLinear(shape, Range(Selections(shape, subscripts)[1]))
    [] OTHER -> MissingDeletedSlices(shape, subscripts)

MissingIndexed(shape, subscripts) ==
  IF ~ ResolvesAll(shape, subscripts, FALSE) THEN Refused
  ELSE NormalizedShape(ResultShape(shape, subscripts,
                                   Selections(shape, subscripts)))

-----------------------------------------------------------------------------
(* The variable and the operations on it.                                  *)

NoIndexing == [kind |-> "none", subscripts |-> <<>>, value |-> <<>>,
               done |-> TRUE]

IndexingInit ==
  /\ array \in Arrays
  /\ missingShape = array.shape
  /\ indexing = NoIndexing
  /\ indexings = 0

\* A failed operation leaves the variable as it was.
Concludes(kind, subscripts, value, done, result) ==
  /\ array' = IF done THEN result ELSE array
  /\ indexing' = [kind |-> kind, subscripts |-> subscripts, value |-> value,
                  done |-> done]

\* x = x(subscripts)
ReadIndexed(subscripts) ==
  /\ Concludes("read", subscripts, <<>>,
               ResolvesAll(array.shape, subscripts, FALSE),
               Indexed(array, subscripts))
  /\ missingShape' = MissingIndexed(array.shape, subscripts)

\* x(subscripts) = value
AssignIndexed(subscripts, value) ==
  /\ Concludes("assign", subscripts, value,
               CanAssign(array, subscripts, value),
               Assigned(array, subscripts, value))
  /\ missingShape' = MissingAssigned(array.shape, subscripts, value)

\* x(subscripts) = []
DeleteIndexed(subscripts) ==
  /\ Concludes("delete", subscripts, <<>>, CanDelete(array, subscripts),
               Deleted(array, subscripts))
  /\ missingShape' = MissingDeleted(array.shape, subscripts)

IndexingNext ==
  /\ indexings < MaxIndexings
  /\ indexings' = indexings + 1
  /\ \E subscripts \in SubscriptTuples :
       \/ ReadIndexed(subscripts)
       \/ DeleteIndexed(subscripts)
       \/ \E value \in AssignedValues : AssignIndexed(subscripts, value)

IndexingSpec == IndexingInit /\ [][IndexingNext]_indexingVars

-----------------------------------------------------------------------------
(* Properties.                                                             *)

\* An array as the function from coordinates, seen through n subscripts, to
\* elements.
Box(shape) == {c \in [1..Len(shape) -> 0..Max({0} \cup Range(shape))] :
                 \A i \in 1..Len(shape) : c[i] < shape[i]}

SeenAt(a, c, n) == ElementAt(a, ColumnMajorIndex(c, EffectiveShape(a.shape, n)))

Selects(selections, chosen, c) ==
  \A i \in DOMAIN c : selections[i][chosen[i] + 1] = c[i]

AssignsExactly(old, new, subscripts, value) ==
  LET n == Len(subscripts)
      selections == Selections(old.shape, subscripts)
      writers(c) == {chosen \in Box(Extents(selections)) :
                       Selects(selections, chosen, c)}
      ordinals(c) == {ColumnMajorIndex(chosen, Extents(selections)) :
                        chosen \in writers(c)}
      before == EffectiveShape(old.shape, n)
      after == EffectiveShape(new.shape, n)
  IN /\ \A i \in 1..n : /\ after[i] >= Max({before[i],
                                            RequiredExtent(selections[i])})
                        /\ n > 1 => after[i] = Max({before[i],
                                            RequiredExtent(selections[i])})
     /\ \A c \in Box(after) :
          SeenAt(new, c, n) =
            IF writers(c) # {}
            THEN ConvertedElement(old,
                   ElementAt(value, IF Product(value.shape) = 1 THEN 0
                                    ELSE Max(ordinals(c))))
            ELSE IF c \in Box(before) THEN SeenAt(old, c, n) ELSE 0

\* Deleting keeps the other elements, in their order along the dimension.
DeletesExactly(old, new, subscripts) ==
  LET selections == Selections(old.shape, subscripts)
      along == IF Len(subscripts) = 1 THEN 1
               ELSE CHOOSE i \in NonColons(subscripts) : TRUE
      n == Len(subscripts)
      before == EffectiveShape(old.shape, n)
      removed == Range(selections[along])
      Place(i) == i - Cardinality({r \in removed : r < i})
  IN /\ Product(new.shape) =
          (before[along] - Cardinality(removed))
            * Product([before EXCEPT ![along] = 1])
     /\ \A c \in Box(before) :
          c[along] \notin removed =>
            SeenAt(new, [c EXCEPT ![along] = Place(@)], n) = SeenAt(old, c, n)

ElementsKeepTheirPlace ==
  /\ ~ indexing'.done => array' = array
  /\ indexing'.done /\ indexing'.kind = "assign" =>
       AssignsExactly(array, array', indexing'.subscripts, indexing'.value)
  /\ indexing'.done /\ indexing'.kind = "delete" =>
       DeletesExactly(array, array', indexing'.subscripts)

MissingAgrees ==
  \/ missingShape = IF indexing.done THEN array.shape ELSE Refused
  \/ /\ indexing.kind = "delete"
     /\ array.shape \in {<<0, 1>>, <<1, 0>>}
     /\ missingShape = <<0, 0>>
  \/ /\ indexing.kind = "assign" /\ array.logical
     /\ NotANumber \in Range(indexing.value.storage)

(* Growth, assignment and deletion never move or lose an element they were *)
(* not told to: seen through the subscripts used, what was selected holds  *)
(* the value assigned last, everything else keeps its place, new elements  *)
(* are zero, and an operation that fails changes nothing                   *)
(* (growNumericTarget, assignLinear, assignSubscripts, deleteLinear and    *)
(* deleteSlices of runtime_assignment.cpp).                                *)
(* Arrays of missing repeat the shape logic of numeric arrays in functions *)
(* of their own: from the same shape and subscripts both must grow, shrink *)
(* or refuse alike.  The one case left out is deleting the only element of *)
(* an array that an earlier deletion left with one element: numeric arrays *)
(* remember that they were vectors, arrays of missing do not               *)
(* (runtimeAssignMissingIndexed, runtimeDeleteMissingIndexed); and a       *)
(* logical target refuses NaN.                                             *)
IndexingIsExact == [][ElementsKeepTheirPlace /\ MissingAgrees']_indexingVars

=============================================================================
