-------------------------- MODULE NumericReductions --------------------------
(***************************************************************************)
(* Builtins that go over the lines of a numeric array: reductions and      *)
(* their indices, cumulative operations, differences, find, sort and       *)
(* unique (builtins/numeric/runtime_reduction.cpp, runtime_scan.cpp and    *)
(* builtins/array/runtime_collection_builtins.cpp), each against what it   *)
(* means for the elements of a line.                                       *)
(*                                                                         *)
(* Abstracted: complex and integer classes, the division of a mean, sparse *)
(* arrays and keys that are text.                                          *)
(***************************************************************************)
EXTENDS ArrayLayout, FiniteSets

LOCAL INSTANCE Combinatorics

CONSTANT NumericCalls    \* [name, array, ...]: the calls asked

VARIABLES
  numericCall,    \* the call
  numericAnswer   \* [done, outputs]; no outputs is a failure

numericVars == <<numericCall, numericAnswer>>

NotAccepted == <<>>

Extrema == {"min", "max", "cummin", "cummax"}
IsNaN(x) == x = NotANumber
Indices(a) == 0..(Len(a.storage) - 1)
Elements(a) == [index \in Indices(a) |-> ElementAt(a, index)]
FirstLine(shape) ==
  IF \A i \in DOMAIN shape : shape[i] = 1 THEN 1
  ELSE Min({i \in DOMAIN shape : shape[i] # 1})

Plus(x, y) == IF IsNaN(x) \/ IsNaN(y) THEN NotANumber ELSE x + y
Minus(x, y) == IF IsNaN(x) \/ IsNaN(y) THEN NotANumber ELSE x - y
Times(x, y) == IF IsNaN(x) \/ IsNaN(y) THEN NotANumber ELSE x * y
Better(name, x, y) == IF name \in {"min", "cummin"} THEN x < y ELSE x > y

-----------------------------------------------------------------------------
(* Reductions.  A selection is [kind, list]: default, all or given.        *)
ValidDimensions(selection) ==
  selection.kind = "given" =>
    /\ selection.list # <<>> /\ IsInjective(selection.list)
    /\ \A i \in DOMAIN selection.list : selection.list[i] > 0

SelectedDimensions(shape, selection) ==
  CASE selection.kind = "all" -> DOMAIN shape
    [] selection.kind = "given" -> Range(selection.list)
    [] OTHER -> {FirstLine(shape)}

ReducedShape(name, shape, selection, dims) ==
  LET input == Resized(shape, Max({Len(shape)} \cup dims))
      empty == name \in Extrema /\ Product(input) = 0
  IN CASE selection.kind = "default" /\ shape = <<0, 0>> /\ name \notin Extrema -> <<1, 1>>
       [] selection.kind = "all" /\ empty -> <<0, 0>>
       [] OTHER -> [i \in DOMAIN input |->
                      CASE i \notin dims -> input[i]
                        [] name \in Extrema /\ input[i] = 0 -> 0
                        [] OTHER -> 1]

FreshBucket(name) ==
  [value |-> IF name \in {"prod", "all"} THEN 1 ELSE 0, index |-> 1, started |-> FALSE]

\* updateBucket: a missing value once taken stays.
Update(name, omit, bucket, x, index) ==
  LET Bit(test) == [bucket EXCEPT !.value = IF test THEN 1 ELSE 0]
      took == [value |-> x, index |-> index, started |-> TRUE]
  IN CASE IsNaN(x) /\ omit /\ name \notin {"any", "all"} -> bucket
       [] name = "sum" -> [bucket EXCEPT !.value = Plus(@, x)]
       [] name = "prod" -> [bucket EXCEPT !.value = Times(@, x)]
       [] name = "any" -> Bit(bucket.value # 0 \/ x # 0)
       [] name = "all" -> Bit(bucket.value # 0 /\ x # 0)
       [] ~bucket.started -> took
       [] IsNaN(bucket.value) -> bucket
       [] IsNaN(x) \/ Better(name, x, bucket.value) -> took
       [] OTHER -> bucket

ReportedInTheWhole(call, dims, input, index) == index + 1

\* Where an element is told to be: along its line, or in the whole array.
ReportedIndex(call, dims, input, index) ==
  IF ~call.linear /\ call.selection.kind # "all" /\ Cardinality(dims) = 1
  THEN ColumnMajorCoordinates(index, input)[CHOOSE d \in dims : TRUE] + 1
  ELSE index + 1

Reduced(call) ==
  LET a == call.array
      dims == SelectedDimensions(a.shape, call.selection)
      input == Resized(a.shape, Max({Len(a.shape)} \cup dims))
      output == ReducedShape(call.name, a.shape, call.selection, dims)
      BucketOf(index) ==
        LET c == ColumnMajorCoordinates(index, input)
        IN ColumnMajorIndex([i \in DOMAIN c |-> IF i \in dims THEN 0 ELSE c[i]], output)
      Gather(buckets, index) ==
        [buckets EXCEPT ![BucketOf(index)] =
           Update(call.name, call.omit, @, ElementAt(a, index),
                  ReportedIndex(call, dims, input, index))]
      buckets == FoldLeft(Gather,
                          [o \in 0..(Product(output) - 1) |-> FreshBucket(call.name)],
                          [i \in 1..Len(a.storage) |-> i - 1])
      unset(o) == call.name \in Extrema /\ ~buckets[o].started
      values == [o \in DOMAIN buckets |-> IF unset(o) THEN NotANumber ELSE buckets[o].value]
      indices == [o \in DOMAIN buckets |-> buckets[o].index]
      logical == call.name \in {"any", "all"} \/ (call.name \in Extrema /\ a.logical)
  IN IF \/ ~ValidDimensions(call.selection)
        \/ /\ call.name \in Extrema /\ call.outputs > 1 /\ Cardinality(dims) > 1
           /\ ~call.linear /\ call.selection.kind # "all"
        \/ call.name \notin Extrema /\ call.outputs > 1
     THEN NotAccepted
     ELSE SubSeq(<<FromElements(output, values, logical), FromElements(output, indices, FALSE)>>,
                 1, call.outputs)

-----------------------------------------------------------------------------
(* Cumulative operations and differences.                                  *)
\* updateAccumulator: extrema start with the first number they meet.
Accumulate(name, omit, accumulator, x) ==
  LET took == [started |-> TRUE, value |-> x]
  IN CASE name \in {"cumsum", "cumprod"} ->
            IF IsNaN(x) /\ omit THEN accumulator
            ELSE [accumulator EXCEPT !.value = IF name = "cumsum" THEN Plus(@, x) ELSE Times(@, x)]
       [] IsNaN(x) -> IF omit THEN accumulator ELSE took
       [] ~accumulator.started -> took
       [] IsNaN(accumulator.value) -> accumulator
       [] Better(name, x, accumulator.value) -> took
       [] OTHER -> accumulator

LineDimension(a, selection) ==
  IF selection.kind = "given" THEN selection.list[1] ELSE FirstLine(a.shape)

Accumulated(call) ==
  LET a == call.array
      d == LineDimension(a, call.selection)
      start == [started |-> call.name \notin Extrema,
                value |-> IF call.name = "cumprod" THEN 1 ELSE 0]
      At(c, position) == ElementAt(a, ColumnMajorIndex([c EXCEPT ![d] = position], a.shape))
      Line(c) ==
        LET n == IF call.reverse THEN a.shape[d] - c[d] ELSE c[d] + 1
        IN [step \in 1..n |-> At(c, IF call.reverse THEN a.shape[d] - step ELSE step - 1)]
      Passed(index) ==
        FoldLeft(LAMBDA accumulator, x : Accumulate(call.name, call.omit, accumulator, x),
                 start, Line(ColumnMajorCoordinates(index, a.shape)))
      value == [index \in Indices(a) |->
                  LET total == Passed(index) IN IF total.started THEN total.value ELSE NotANumber]
      logical == call.name \in Extrema /\ a.logical
  IN IF d > Len(a.shape) THEN <<[a EXCEPT !.logical = logical]>>
     ELSE <<FromElements(a.shape, value, logical)>>

\* One pass takes neighbours along the dimension away from each other.
DifferencePass(state, d) ==
  LET extent == state.shape[d]
      shape == [state.shape EXCEPT ![d] = IF extent = 0 THEN 0 ELSE extent - 1]
      Between(lower) ==
        Minus(state.values[ColumnMajorIndex([lower EXCEPT ![d] = @ + 1], state.shape)],
              state.values[ColumnMajorIndex(lower, state.shape)])
  IN [shape |-> shape,
      values |-> [index \in 0..(Product(shape) - 1) |->
                    Between(ColumnMajorCoordinates(index, shape))]]

Differences(call) ==
  LET a == call.array
      d == LineDimension(a, call.selection)
      shape == Resized(a.shape, Max({Len(a.shape), d}))
      passes == Min({call.order, shape[d]})
      final == FoldLeft(LAMBDA state, pass : DifferencePass(state, d),
                        [shape |-> shape, values |-> Elements(a)], [i \in 1..passes |-> i])
  IN IF call.order = 0 THEN NotAccepted
     ELSE <<FromElements(final.shape, final.values, FALSE)>>

-----------------------------------------------------------------------------
(* find.                                                                   *)
FoundShape(a, count) ==
  CASE (a.scalar /\ count = 0) \/ a.shape = <<0, 0>> -> <<0, 0>>
    [] Len(a.shape) = 2 /\ a.shape[1] = 1 -> <<1, count>>
    [] OTHER -> <<count, 1>>

\* A limit of -1 is none.
NonzeroFound(call) ==
  LET a == call.array
      all == SelectSeq([i \in 1..Len(a.storage) |-> i - 1], LAMBDA i : ElementAt(a, i) # 0)
      many == Len(all)
      kept == IF call.limit < 0 \/ call.limit >= many THEN all
              ELSE IF call.reverse THEN SubSeq(all, many - call.limit + 1, many)
              ELSE SubSeq(all, 1, call.limit)
      rows == a.shape[1]
      List(shape, Of(_), logical) ==
        FromElements(shape, [i \in 0..(Len(kept) - 1) |-> Of(kept[i + 1])], logical)
      column == <<Len(kept), 1>>
  IN IF call.outputs = 1
     THEN <<List(FoundShape(a, Len(kept)), LAMBDA i : i + 1, FALSE)>>
     ELSE SubSeq(<<List(column, LAMBDA i : (i % rows) + 1, FALSE),
                   List(column, LAMBDA i : (i \div rows) + 1, FALSE),
                   List(column, LAMBDA i : ElementAt(a, i), a.logical)>>, 1, call.outputs)

-----------------------------------------------------------------------------
(* sort and unique.                                                        *)
\* numericSortLess over [value, place]: missing values by their placement.
SortLess(call, left, right) ==
  LET missingFirst == call.missing = "first" \/ (call.missing = "auto" /\ call.reverse)
  IN CASE IsNaN(left.value) # IsNaN(right.value) -> IsNaN(left.value) = missingFirst
       [] left.value = right.value -> left.place < right.place
       [] OTHER -> IF call.reverse THEN left.value > right.value ELSE left.value < right.value

Sorted(call) ==
  LET a == call.array
      d == LineDimension(a, call.selection)
      shape == Resized(a.shape, Max({Len(a.shape), d}))
      Less(left, right) == SortLess(call, left, right)
      Line(c) ==
        SortSeq([place \in 1..shape[d] |->
                   [place |-> place,
                    value |-> ElementAt(a, ColumnMajorIndex([c EXCEPT ![d] = place - 1], shape))]],
                Less)
      item == [index \in Indices(a) |->
                 LET c == ColumnMajorCoordinates(index, shape) IN Line(c)[c[d] + 1]]
      values == FromElements(a.shape, [index \in Indices(a) |-> item[index].value], a.logical)
      places == FromElements(a.shape, [index \in Indices(a) |-> item[index].place], FALSE)
  IN SubSeq(<<[a EXCEPT !.storage = values.storage], places>>, 1, call.outputs)

\* compareNumericKeys: missing values last and alike.  The mark of a missing
\* value is above every number.
KeyLess(left, right) ==
  \E i \in DOMAIN left : left[i] < right[i] /\ \A j \in 1..(i - 1) : left[j] = right[j]
SameKey(left, right, distinct) ==
  left = right /\ (distinct => NotANumber \notin Range(left))

\* The groups of a sorted list of sources: neighbours of the same key.
Grouped(keys, distinct) ==
  LET Order(i, j) == KeyLess(keys[i], keys[j]) \/ (keys[i] = keys[j] /\ i < j)
      Join(groups, i) ==
        IF groups # <<>> /\ SameKey(keys[Last(groups)[1]], keys[i], distinct)
        THEN [groups EXCEPT ![Len(groups)] = Append(@, i)]
        ELSE Append(groups, <<i>>)
  IN FoldLeft(Join, <<>>, SortSeq([i \in DOMAIN keys |-> i], Order))

UniqueKeys(call) ==
  LET a == call.array
  IN IF call.rows
     THEN [i \in 1..a.shape[1] |->
             [column \in 1..a.shape[2] |-> ElementAt(a, i - 1 + a.shape[1] * (column - 1))]]
     ELSE [i \in 1..Len(a.storage) |-> <<ElementAt(a, i - 1)>>]

Unique(call) ==
  LET a == call.array
      keys == UniqueKeys(call)
      sorted == Grouped(keys, call.distinct)
      groups == IF call.stable THEN SortSeq(sorted, LAMBDA g, h : g[1] < h[1]) ELSE sorted
      n == Len(groups)
      shown == [g \in 1..n |-> IF call.reverse THEN Last(groups[g]) ELSE groups[g][1]]
      inverse == [i \in DOMAIN keys |-> CHOOSE g \in 1..n : i \in Range(groups[g])]
      ListOf(list) == FromElements(<<Len(list), 1>>, [i \in 0..(Len(list) - 1) |-> list[i + 1]], FALSE)
      values ==
        IF call.rows
        THEN FromElements(<<n, a.shape[2]>>,
                          [i \in 0..(n * a.shape[2] - 1) |-> keys[shown[(i % n) + 1]][(i \div n) + 1]],
                          a.logical)
        ELSE FromElements(IF Len(a.shape) = 2 /\ a.shape[1] = 1 THEN <<1, n>> ELSE <<n, 1>>,
                          [i \in 0..(n - 1) |-> keys[shown[i + 1]][1]], a.logical)
  IN IF call.rows /\ Len(a.shape) # 2 THEN NotAccepted
     ELSE SubSeq(<<values, ListOf(shown), ListOf(inverse)>>, 1, call.outputs)

Answered(call) ==
  CASE call.name \in {"sum", "prod", "any", "all", "min", "max"} -> Reduced(call)
    [] call.name \in {"cumsum", "cumprod", "cummin", "cummax"} -> Accumulated(call)
    [] call.name = "diff" -> Differences(call)
    [] call.name = "find" -> NonzeroFound(call)
    [] call.name = "sort" -> Sorted(call)
    [] call.name = "unique" -> Unique(call)

NumericInit ==
  numericCall \in NumericCalls /\ numericAnswer = [done |-> FALSE, outputs |-> NotAccepted]
NumericNext ==
  /\ ~numericAnswer.done
  /\ numericAnswer' = [done |-> TRUE, outputs |-> Answered(numericCall)]
  /\ UNCHANGED numericCall
NumericSpec == NumericInit /\ [][NumericNext]_numericVars

-----------------------------------------------------------------------------
(* What the operations mean.                                               *)
PlainName(name) ==
  CASE name = "cumsum" -> "sum" [] name = "cumprod" -> "prod"
    [] name = "cummin" -> "min" [] name = "cummax" -> "max" [] OTHER -> name

\* What the elements at some places come to.
Worth(name, omit, a, places) ==
  LET x(i) == ElementAt(a, i)
      numbers == {i \in places : ~IsNaN(x(i))}
      plain == PlainName(name)
  IN CASE plain = "any" -> IF \E i \in places : x(i) # 0 THEN 1 ELSE 0
       [] plain = "all" -> IF \A i \in places : x(i) # 0 THEN 1 ELSE 0
       [] numbers # places /\ ~omit -> NotANumber
       [] plain = "sum" -> FoldSet(LAMBDA i, sum : sum + x(i), 0, numbers)
       [] plain = "prod" -> FoldSet(LAMBDA i, product : product * x(i), 1, numbers)
       [] numbers = {} -> NotANumber
       [] plain = "min" -> Min({x(i) : i \in numbers})
       [] plain = "max" -> Max({x(i) : i \in numbers})

MeansReduction(call, r) ==
  LET a == call.array
      dims == SelectedDimensions(a.shape, call.selection)
      rank == Max({Len(a.shape)} \cup dims)
      Point(i) == ColumnMajorCoordinates(i, Resized(a.shape, rank))
      Places(o) == {i \in Indices(a) : \A d \in (1..rank) \ dims :
                      Point(i)[d] = ColumnMajorCoordinates(o, Resized(r[1].shape, rank))[d]}
      value(o) == Worth(call.name, call.omit, a, Places(o))
      first(o) == {i \in Places(o) : ElementAt(a, i) = value(o)}
      Shown(i) == IF call.linear \/ call.selection.kind = "all" THEN i + 1
                  ELSE Point(i)[CHOOSE d \in dims : TRUE] + 1
  IN r # NotAccepted =>
       /\ Len(a.storage) = Cardinality(UNION {Places(o) : o \in Indices(r[1])})
       /\ \A o \in Indices(r[1]) : ElementAt(r[1], o) = value(o)
       /\ Len(r) = 2 => \A o \in Indices(r[1]) :
            ElementAt(r[2], o) =
              IF IsNaN(value(o)) /\ call.omit THEN 1 ELSE Shown(Min(first(o)))

\* Along a dimension the array does not have, even what is left out is kept.
MeansAccumulation(call, r) ==
  LET a == call.array
      d == LineDimension(a, call.selection)
      Point(i) == ColumnMajorCoordinates(i, Resized(a.shape, Max({d, Len(a.shape)})))
      UpTo(i) == {j \in Indices(a) :
                    /\ \A k \in DOMAIN Point(i) \ {d} : Point(j)[k] = Point(i)[k]
                    /\ IF call.reverse THEN Point(j)[d] >= Point(i)[d] ELSE Point(j)[d] <= Point(i)[d]}
  IN /\ r[1].shape = a.shape
     /\ \A i \in Indices(a) :
          ElementAt(r[1], i) = IF d > Len(a.shape) THEN ElementAt(a, i)
                               ELSE Worth(call.name, call.omit, a, UpTo(i))

\* The n-th difference weighs a window of n + 1 elements by signed binomials.
MeansDifference(call, r) ==
  LET a == call.array
      n == call.order
      d == LineDimension(a, call.selection)
      shape == Resized(a.shape, Max({Len(a.shape), d}))
      output == [shape EXCEPT ![d] = Max({0, @ - n})]
      Window(o) == [k \in 0..n |-> LET c == ColumnMajorCoordinates(o, output)
                                   IN ElementAt(a, ColumnMajorIndex([c EXCEPT ![d] = @ + k], shape))]
      Sign(k) == IF (n - k) % 2 = 0 THEN 1 ELSE -1
      Weighed(w) == IF NotANumber \in Range(w) THEN NotANumber
                    ELSE FoldSet(LAMBDA k, sum : sum + Sign(k) * choose(n, k) * w[k], 0, 0..n)
  IN r # NotAccepted =>
       /\ r[1].shape = NormalizedShape(output)
       /\ \A o \in Indices(r[1]) : ElementAt(r[1], o) = Weighed(Window(o))

\* The nearest non-zero elements to the chosen end, in order, told alike by
\* index and by subscripts.
MeansFind(call, r) ==
  LET a == call.array
      places == IF Len(r) = 1 THEN [k \in Indices(r[1]) |-> ElementAt(r[1], k) - 1]
                ELSE [k \in Indices(r[1]) |->
                        ElementAt(r[1], k) - 1 + a.shape[1] * (ElementAt(r[2], k) - 1)]
      told == Range(places)
      nonzero == {i \in Indices(a) : ElementAt(a, i) # 0}
  IN /\ told \subseteq nonzero /\ \A k, l \in DOMAIN places : k < l => places[k] < places[l]
     /\ \A i \in nonzero \ told : \A j \in told : IF call.reverse THEN i < j ELSE i > j
     /\ told = nonzero \/ Cardinality(told) = call.limit
     /\ Len(r) = 3 => \A k \in DOMAIN places : ElementAt(r[3], k) = ElementAt(a, places[k])

MeansSort(call, r) ==
  LET a == call.array
      d == LineDimension(a, call.selection)
      shape == Resized(a.shape, Max({Len(a.shape), d}))
      At(b, c, place) == ElementAt(b, ColumnMajorIndex([c EXCEPT ![d] = place - 1], shape))
      missingFirst == IF call.missing = "auto" THEN call.reverse ELSE call.missing = "first"
      InOrder(x, y, i, j) ==
        CASE IsNaN(x) /\ IsNaN(y) -> i < j
          [] IsNaN(x) -> missingFirst
          [] IsNaN(y) -> ~missingFirst
          [] OTHER -> (IF call.reverse THEN x > y ELSE x < y) \/ (x = y /\ i < j)
  IN /\ r[1].shape = a.shape
     /\ \A index \in Indices(a) :
          LET c == ColumnMajorCoordinates(index, shape)
              n == shape[d]
          IN /\ {At(r[2], c, place) : place \in 1..n} = 1..n
             /\ \A place \in 1..n : At(r[1], c, place) = At(a, c, At(r[2], c, place))
             /\ \A p, q \in 1..n : p < q =>
                  InOrder(At(r[1], c, p), At(r[1], c, q), At(r[2], c, p), At(r[2], c, q))

MeansUnique(call, r) ==
  LET keys == UniqueKeys(call)
      shown == [g \in 1..Len(r[2].storage) |-> ElementAt(r[2], g - 1)]
      group == [i \in DOMAIN keys |-> ElementAt(r[3], i - 1)]
      Of(g) == {i \in DOMAIN keys : group[i] = g}
      value(g) == IF call.rows THEN [k \in DOMAIN keys[1] |-> ElementAt(r[1], g - 1 + Len(shown) * (k - 1))]
                  ELSE <<ElementAt(r[1], g - 1)>>
  IN r # NotAccepted =>
       /\ \A i, j \in DOMAIN keys :
            (group[i] = group[j]) <=> (i = j \/ SameKey(keys[i], keys[j], call.distinct))
       /\ \A g \in DOMAIN shown :
            /\ shown[g] = IF call.reverse THEN Max(Of(g)) ELSE Min(Of(g))
            /\ value(g) = keys[shown[g]]
       /\ \A g, h \in DOMAIN shown : g < h =>
            IF call.stable THEN Min(Of(g)) < Min(Of(h))
            ELSE KeyLess(value(g), value(h)) \/ value(g) = value(h)

\* Reductions, cumulative operations, differences, find, sort and unique give
\* what they mean for the elements of each line: whichever dimensions are
\* taken, with empty lines, missing values taken or left out, equal elements
\* and indices along the line or in the whole array (reduceNumeric,
\* cumulativeBuiltin, differenceBuiltin, findBuiltin, sortNumeric,
\* uniqueNumeric).
ReductionsMeanWhatTheySay ==
  numericAnswer.done =>
    LET call == numericCall
        r == numericAnswer.outputs
    IN CASE call.name \in {"sum", "prod", "any", "all", "min", "max"} -> MeansReduction(call, r)
         [] call.name \in {"cumsum", "cumprod", "cummin", "cummax"} -> MeansAccumulation(call, r)
         [] call.name = "diff" -> MeansDifference(call, r)
         [] call.name = "find" -> MeansFind(call, r)
         [] call.name = "sort" -> MeansSort(call, r)
         [] call.name = "unique" -> MeansUnique(call, r)
=============================================================================
