---------------------------- MODULE ArrayLayout ----------------------------
(***************************************************************************)
(* How an array lies in memory (src/mparser/runtime/core/value): stored in *)
(* row-major order, addressed in column-major order.  Coordinates and      *)
(* indices start at zero; an array is [scalar, logical, shape, storage],   *)
(* where scalar tells a number from an array of one element.               *)
(***************************************************************************)
EXTENDS Integers, Sequences, SequencesExt, FiniteSetsExt

NotANumber == 9999

Product(shape) == FoldLeft(LAMBDA product, extent : product * extent, 1, shape)

Total(terms) == FoldLeft(LAMBDA sum, term : sum + term, 0, terms)

Leading(shape, i) == SubSeq(shape, 1, i)
Trailing(shape, i) == SubSeq(shape, i, Len(shape))

\* Trailing dimensions of extent one beyond the second are dropped.
NormalizedShape(shape) ==
  Leading(shape, Max({2} \cup {i \in 1..Len(shape) : shape[i] # 1}))

Resized(shape, n) ==
  <<>> \o [i \in 1..n |-> IF i <= Len(shape) THEN shape[i] ELSE 1]

\* The shape seen through n subscripts: the last one folds what is left.
EffectiveShape(shape, n) ==
  [Resized(shape, n) EXCEPT ![n] = Product(Trailing(shape, n))]

ColumnMajorCoordinates(index, shape) ==
  <<>> \o [i \in 1..Len(shape) |->
             (index \div Product(Leading(shape, i - 1))) % shape[i]]

ColumnMajorIndex(coordinates, shape) ==
  Total([i \in 1..Len(shape) |->
           coordinates[i] * Product(Leading(shape, i - 1))])

RowMajorOffset(coordinates, shape) ==
  Total([i \in 1..Len(shape) |->
           coordinates[i] * Product(Trailing(shape, i + 1))])

RowMajorCoordinates(offset, shape) ==
  <<>> \o [i \in 1..Len(shape) |->
             (offset \div Product(Trailing(shape, i + 1))) % shape[i]]

ElementAt(a, index) ==
  a.storage[RowMajorOffset(ColumnMajorCoordinates(index, a.shape), a.shape) + 1]

\* A value built from its elements in logical order.
FromElements(shape, elements, logical) ==
  LET normal == NormalizedShape(shape)
      count == Product(normal)
  IN [scalar |-> count = 1, logical |-> logical, shape |-> normal,
      storage |-> <<>> \o
        [offset \in 1..count |->
           elements[ColumnMajorIndex(
                      RowMajorCoordinates(offset - 1, normal), normal)]]]

=============================================================================
