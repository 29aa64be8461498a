--------------------------- MODULE ArrayOperations ---------------------------
(***************************************************************************)
(* The builtins that build arrays and move their elements                  *)
(* (builtins/array/runtime_array_ops.cpp, core/value/runtime_array.cpp):   *)
(* constructors, reshape, permute, ipermute, flip, squeeze, repmat, cat    *)
(* and size, over row-major storage, each against what it means at the     *)
(* coordinates of its result.                                              *)
(*                                                                         *)
(* Abstracted: the kinds of storage, which the code moves by the same      *)
(* loop once per kind; numeric classes other than double and logical.      *)
(***************************************************************************)
EXTENDS ArrayLayout, FiniteSets

CONSTANT ArrayCalls    \* [name, array, list, arrays]: the calls asked

VARIABLES
  arrayCall,    \* the call
  arrayAnswer   \* [done, outputs]; no outputs is a failure

arrayVars == <<arrayCall, arrayAnswer>>

Inferred == 99       \* an extent given as []
Failed == <<>>

Count(a) == Len(a.storage)
Offsets(a) == 0..(Count(a) - 1)

\* numericResult: elements in row-major order become a value of one class;
\* a logical result takes no NaN.
NumericResult(shape, elements, preferNumber, logical) ==
  LET normal == NormalizedShape(shape)
      inOrder == [i \in 0..(Len(elements) - 1) |->
                    LET element == elements[RowMajorOffset(ColumnMajorCoordinates(i, normal), normal) + 1]
                    IN IF logical /\ element # 0 THEN 1 ELSE element]
      result == FromElements(normal, inOrder, logical)
  IN IF logical /\ NotANumber \in Range(elements) THEN Failed
     ELSE <<[result EXCEPT !.scalar = @ /\ preferNumber]>>

\* Elements in row-major order of a shape, each taken where From says.
Gathered(shape, From(_)) ==
  <<>> \o [place \in 1..Product(shape) |-> From(RowMajorCoordinates(place - 1, shape))]

-----------------------------------------------------------------------------
(* Constructors.                                                           *)
ConstructorShape(name, form, list) ==
  CASE form = "none" -> IF name = "cell" THEN <<0, 0>> ELSE <<1, 1>>
    [] form = "array" /\ list = <<>> -> <<0, 0>>
    [] form = "array" /\ Len(list) = 1 -> <<list[1], list[1]>>
    [] OTHER -> NormalizedShape(list)

Constructed(name, form, list) ==
  LET shape == ConstructorShape(name, form, list)
      fill == IF name \in {"ones", "true"} THEN 1 ELSE 0
      diagonal == {i * (shape[1] + 1) : i \in 0..(Min({shape[1], shape[2]}) - 1)}
      elements == [i \in 0..(Product(shape) - 1) |->
                     IF name = "eye" /\ i \in diagonal THEN 1 ELSE fill]
  IN IF \/ \E i \in DOMAIN list : list[i] < 0
        \/ name = "eye" /\ Len(shape) > 2
     THEN Failed ELSE <<FromElements(shape, elements, name = "true")>>

-----------------------------------------------------------------------------
(* Moving elements.                                                        *)
ReshapedValue(a, dims) ==
  LET shape == NormalizedShape(dims)
      Source(c) == ElementAt(a, ColumnMajorIndex(c, shape))
  IN IF Product(shape) # Count(a) THEN Failed
     ELSE NumericResult(shape, Gathered(shape, Source), a.scalar, a.logical)

Reshaped(a, requested) ==
  LET inferred == {i \in DOMAIN requested : requested[i] = Inferred}
      dims == [i \in DOMAIN requested |-> IF i \in inferred THEN 1 ELSE requested[i]]
      known == Product(dims)
      divides == IF known = 0 THEN Count(a) = 0 ELSE Count(a) % known = 0
      extent == IF known = 0 THEN 0 ELSE Count(a) \div known
  IN IF Len(requested) < 2 \/ Cardinality(inferred) > 1 \/ (inferred # {} /\ ~divides)
     THEN Failed
     ELSE ReshapedValue(a, [i \in DOMAIN dims |-> IF i \in inferred THEN extent ELSE dims[i]])

IsPermutationOf(a, order) ==
  Len(order) >= Len(a.shape) /\ Range(order) = 1..Len(order)

\* The element at coordinates s of the source goes to the coordinates order
\* picks from s.
Permuted(a, order) ==
  LET source == Resized(a.shape, Len(order))
      shape == [i \in DOMAIN order |-> source[order[i]]]
      Target(offset) ==
        LET s == RowMajorCoordinates(offset, source)
        IN RowMajorOffset([i \in DOMAIN order |-> s[order[i]]], shape)
      elements == [place \in 1..Count(a) |->
                     a.storage[1 + CHOOSE offset \in Offsets(a) : Target(offset) = place - 1]]
  IN NumericResult(shape, elements, a.scalar, a.logical)

KeptOrder(order) == order
Inverted(order) == [i \in DOMAIN order |-> CHOOSE j \in DOMAIN order : order[j] = i]

Permutation(name, a, order) ==
  IF ~IsPermutationOf(a, order) THEN Failed
  ELSE Permuted(a, IF name = "ipermute" THEN Inverted(order) ELSE order)

FirstNonsingleton(shape) ==
  Min({i \in DOMAIN shape : shape[i] # 1} \cup
      (IF \A i \in DOMAIN shape : shape[i] = 1 THEN {1} ELSE {}))

Flipped(a, dimension) ==
  LET shape == Resized(a.shape, Max({Len(a.shape), dimension}))
      Source(index) ==
        ColumnMajorIndex([ColumnMajorCoordinates(index, shape) EXCEPT
                            ![dimension] = shape[dimension] - 1 - @], shape)
      elements == [index \in Offsets(a) |-> ElementAt(a, Source(index))]
  IN IF shape[dimension] <= 1 \/ Count(a) = 0 THEN <<a>>
     ELSE <<[a EXCEPT !.storage = FromElements(a.shape, elements, a.logical).storage]>>

FlipDimension(name, a, list) ==
  CASE name = "flipud" -> 1
    [] name = "fliplr" -> 2
    [] OTHER -> IF list = <<>> THEN FirstNonsingleton(a.shape) ELSE list[1]

Squeezed(a) ==
  LET kept == SelectSeq(a.shape, LAMBDA extent : extent # 1)
  IN IF Len(a.shape) <= 2 THEN <<a>>
     ELSE ReshapedValue(a, kept \o [i \in 1..Max({0, 2 - Len(kept)}) |-> 1])

\* One factor counts for both dimensions; a negative one is none.
RepetitionFactors(list) ==
  LET factors == IF Len(list) = 1 THEN list \o list ELSE list
  IN [i \in DOMAIN factors |-> Max({0, factors[i]})]

Repeated(a, list) ==
  LET given == RepetitionFactors(list)
      rank == Max({Len(a.shape), Len(given)})
      source == Resized(a.shape, rank)
      factors == Resized(given, rank)
      shape == [i \in 1..rank |-> source[i] * factors[i]]
      Source(c) == a.storage[1 + RowMajorOffset([i \in 1..rank |-> c[i] % source[i]], source)]
  IN NumericResult(shape, Gathered(shape, Source), a.scalar, a.logical)

-----------------------------------------------------------------------------
(* Concatenation.                                                          *)
\* Arrays of shape 0 by 0 are left out where there are others.
Pieces(arrays) ==
  LET kept == SelectSeq(arrays, LAMBDA a : a.shape # <<0, 0>>)
  IN IF kept = <<>> THEN SubSeq(arrays, 1, 1) ELSE kept

Agree(shapes, dimension) ==
  \A s \in DOMAIN shapes, i \in DOMAIN shapes[1] :
    i # dimension => shapes[s][i] = shapes[1][i]

\* Where each array begins along the dimension.
Beginnings(shapes, dimension) ==
  [s \in DOMAIN shapes |-> Total([t \in 1..(s - 1) |-> shapes[t][dimension]])]

Concatenated(dimension, given) ==
  LET arrays == Pieces(given)
      rank == Max({2, dimension} \cup {Len(arrays[s].shape) : s \in DOMAIN arrays})
      shapes == [s \in DOMAIN arrays |-> Resized(arrays[s].shape, rank)]
      begins == Beginnings(shapes, dimension)
      shape == [shapes[1] EXCEPT ![dimension] =
                  Total([s \in DOMAIN shapes |-> shapes[s][dimension]])]
      Target(s, offset) ==
        RowMajorOffset([RowMajorCoordinates(offset, shapes[s]) EXCEPT
                          ![dimension] = @ + begins[s]], shape)
      cells == UNION {{<<s, offset>> : offset \in Offsets(arrays[s])} : s \in DOMAIN arrays}
      elements == [place \in 1..Product(shape) |->
                     LET from == CHOOSE cell \in cells : Target(cell[1], cell[2]) = place - 1
                     IN arrays[from[1]].storage[from[2] + 1]]
  IN IF ~Agree(shapes, dimension) THEN Failed
     ELSE NumericResult(shape, elements, \A s \in DOMAIN arrays : arrays[s].scalar,
                        arrays[1].logical)

-----------------------------------------------------------------------------
(* size with as many outputs as list names: the last folds what is left.   *)
SizeOutputs(a, n) ==
  [i \in 1..n |-> IF i = n /\ n < Len(a.shape) THEN Product(Trailing(a.shape, i))
                  ELSE Resized(a.shape, n)[i]]

Outputs(call) ==
  CASE call.name \in {"zeros", "ones", "eye", "true", "cell"} ->
         Constructed(call.name, call.form, call.list)
    [] call.name = "reshape" -> Reshaped(call.array, call.list)
    [] call.name \in {"permute", "ipermute"} -> Permutation(call.name, call.array, call.list)
    [] call.name \in {"flip", "flipud", "fliplr"} ->
         Flipped(call.array, FlipDimension(call.name, call.array, call.list))
    [] call.name = "squeeze" -> Squeezed(call.array)
    [] call.name = "repmat" -> Repeated(call.array, call.list)
    [] call.name = "cat" -> Concatenated(call.list[1], call.arrays)
    [] call.name = "size" -> SizeOutputs(call.array, call.list[1])

Unanswered == [done |-> FALSE, outputs |-> Failed]

ArrayInit == arrayCall \in ArrayCalls /\ arrayAnswer = Unanswered
ArrayNext ==
  /\ ~arrayAnswer.done
  /\ arrayAnswer' = [done |-> TRUE, outputs |-> Outputs(arrayCall)]
  /\ UNCHANGED arrayCall
ArraySpec == ArrayInit /\ [][ArrayNext]_arrayVars

-----------------------------------------------------------------------------
(* What the operations mean.                                               *)
Points(shape) == {c \in [1..Len(shape) -> 0..Max({0} \cup Range(shape))] :
                    \A i \in DOMAIN c : c[i] < shape[i]}

\* The element at coordinates of any number of dimensions.
Value(a, c) == ElementAt(a, ColumnMajorIndex(c, Resized(a.shape, Len(c))))
InOrder(a) == [index \in Offsets(a) |-> ElementAt(a, index)]
AsClass(logical, element) == IF logical /\ element # 0 THEN 1 ELSE element

MeansReshape(a, requested, r) ==
  LET fits(e) == Product([i \in DOMAIN requested |->
                            IF requested[i] = Inferred THEN e ELSE requested[i]]) = Count(a)
      possible == /\ Len(requested) >= 2
                  /\ Cardinality({i \in DOMAIN requested : requested[i] = Inferred}) <= 1
                  /\ \E e \in 0..Count(a) : fits(e)
  IN IF r = Failed THEN ~possible
     ELSE /\ possible /\ InOrder(r[1]) = InOrder(a)
          /\ \A i \in DOMAIN requested :
               requested[i] = Inferred \/ Resized(r[1].shape, Len(requested))[i] = requested[i]

MeansPermutation(name, a, order, r) ==
  IF r = Failed THEN ~IsPermutationOf(a, order)
  ELSE LET from == IF name = "permute" THEN a ELSE r[1]
           to == IF name = "permute" THEN r[1] ELSE a
           source == Resized(from.shape, Len(order))
       IN /\ to.shape = NormalizedShape([i \in DOMAIN order |-> source[order[i]]])
          /\ \A c \in Points(source) :
               Value(to, [i \in DOMAIN order |-> c[order[i]]]) = Value(from, c)

MeansFlip(a, dimension, r) ==
  LET shape == Resized(a.shape, Max({Len(a.shape), dimension}))
  IN r[1].shape = a.shape /\ \A c \in Points(shape) :
       Value(r[1], [c EXCEPT ![dimension] = shape[dimension] - 1 - @]) = Value(a, c)

\* A repetition is a concatenation along each dimension in turn.
MeansRepetition(a, list, r) ==
  LET factors == RepetitionFactors(list)
      Piled(b, i) == IF b = Failed THEN b
                     ELSE Concatenated(i, [k \in 1..factors[i] |-> b[1]])
      piles == FoldLeft(LAMBDA b, i : Piled(b, i), <<a>>, [i \in DOMAIN factors |-> i])
      rank == Max({Len(factors), Len(a.shape)})
  IN /\ r # Failed
     /\ Count(r[1]) # 0 => r[1].shape = piles[1].shape /\ r[1].storage = piles[1].storage
     /\ Resized(r[1].shape, rank) =
          [i \in 1..rank |-> Resized(a.shape, rank)[i] * Resized(factors, rank)[i]]

\* Every array is found whole, one after the other, in the class of the first.
MeansConcatenation(dimension, given, r) ==
  LET arrays == Pieces(given)
      rank == Max({2, dimension} \cup {Len(arrays[s].shape) : s \in DOMAIN arrays})
      shapes == [s \in DOMAIN arrays |-> Resized(arrays[s].shape, rank)]
      begin(s) == Total([t \in 1..(s - 1) |-> shapes[t][dimension]])
      missing == \E s \in DOMAIN arrays : NotANumber \in Range(arrays[s].storage)
      uneven == \E s \in DOMAIN arrays, i \in (1..rank) \ {dimension} : shapes[s][i] # shapes[1][i]
  IN IF r = Failed THEN uneven \/ (arrays[1].logical /\ missing)
     ELSE /\ ~uneven /\ Count(r[1]) = Total([s \in DOMAIN arrays |-> Count(arrays[s])])
          /\ \A s \in DOMAIN arrays : \A c \in Points(shapes[s]) :
               Value(r[1], [c EXCEPT ![dimension] = @ + begin(s)])
                 = AsClass(arrays[1].logical, Value(arrays[s], c))

MeansConstruction(name, r) ==
  r # Failed => \A c \in Points(r[1].shape) :
    Value(r[1], c) = CASE name = "eye" -> IF c[1] = c[2] THEN 1 ELSE 0
                       [] name \in {"ones", "true"} -> 1
                       [] OTHER -> 0

\* Every operation puts each element at the coordinates its meaning gives,
\* whatever the rank, with empty extents, inferred extents, trailing ones and
\* mixed classes, and fails exactly where no result exists
\* (runtimeArrayOperationBuiltin, runtimeArrayConstructorBuiltin).
ArraysMeanWhatTheySay ==
  arrayAnswer.done =>
    LET a == arrayCall.array
        list == arrayCall.list
        r == arrayAnswer.outputs
    IN CASE arrayCall.name = "reshape" -> MeansReshape(a, list, r)
         [] arrayCall.name \in {"permute", "ipermute"} ->
              MeansPermutation(arrayCall.name, a, list, r)
         [] arrayCall.name \in {"flip", "flipud", "fliplr"} ->
              MeansFlip(a, FlipDimension(arrayCall.name, a, list), r)
         [] arrayCall.name = "squeeze" ->
              /\ InOrder(r[1]) = InOrder(a)
              /\ Len(r[1].shape) > 2 => 1 \notin Range(r[1].shape)
              /\ \A extent \in Range(a.shape) \ {1} : extent \in Range(r[1].shape)
         [] arrayCall.name = "repmat" -> MeansRepetition(a, list, r)
         [] arrayCall.name = "cat" -> MeansConcatenation(list[1], arrayCall.arrays, r)
         [] arrayCall.name = "size" -> list[1] < 2 \/ Product(r) = Count(a)
         [] OTHER -> MeansConstruction(arrayCall.name, r)
=============================================================================
