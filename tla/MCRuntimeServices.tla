-------------------------- MODULE MCRuntimeServices --------------------------
(***************************************************************************)
(* The services of the runtime: files, source evaluation, the event        *)
(* journal, warnings, listeners, graphics, sets, arrays and classes.        *)
(* They share no state; in a behaviour one moves, the others stay where    *)
(* they start.                                                             *)
(***************************************************************************)
EXTENDS RuntimeFiles, SourceEvaluation, EventJournal, WarningSettings,
        EventDispatch, ListenerCollection, GraphicsGraph, SetOperations,
        IndexedAssignment, ArrayOperations, NumericReductions, ClassHierarchy

VARIABLE moving

-----------------------------------------------------------------------------
(* Files *)
FileMode(r, w, a, t, b) ==
  [readable |-> r, writable |-> w, append |-> a, truncate |-> t, binary |-> b]

MCModes == {FileMode(TRUE, FALSE, FALSE, FALSE, FALSE),
            FileMode(TRUE, TRUE, FALSE, FALSE, FALSE),
            FileMode(TRUE, TRUE, FALSE, FALSE, TRUE),
            FileMode(TRUE, TRUE, TRUE, FALSE, TRUE)}
MCContents == {<<"CR", "LF", "x", "LF">>, <<"x", "CR", "CR", "LF">>, <<"x">>}
MCTexts == {<<"w", "LF">>}

-----------------------------------------------------------------------------
(* Sets: up to three values and two, one of them missing.                   *)
Listed(atoms, n) == UNION {[1..k -> {<<atom>> : atom \in atoms}] : k \in 0..n}

MCSetQuestions ==
  [name : {"union", "intersect", "setdiff", "setxor"}, integer : {FALSE}, stable : BOOLEAN,
   left : Listed({0, 1, 2, Missing}, 3), right : Listed({0, 1, 2, Missing}, 2)]
  \cup [name : {"union", "intersect", "setdiff", "setxor"}, integer : {TRUE}, stable : BOOLEAN,
        left : Listed({0, 2}, 2), right : Listed({0, 1, 2, Missing}, 3)]
  \cup [name : {"ismember"}, integer : {FALSE}, stable : {FALSE},
        left : Listed({0, 1, Missing}, 2), right : Listed({0, 1, 2, Missing}, 3)]

FirstQuestion ==
  [name |-> "union", left |-> <<>>, right |-> <<>>, integer |-> FALSE, stable |-> FALSE]

-----------------------------------------------------------------------------
(* Indexing *)
Array(shape, scalar, logical) ==
  [scalar |-> scalar, logical |-> logical, shape |-> shape,
   storage |-> [i \in 1..Product(shape) |-> IF logical THEN i % 2 ELSE i]]
EmptyArray == Array(<<0, 0>>, FALSE, FALSE)

MCArrays == {EmptyArray, Array(<<1, 1>>, TRUE, FALSE), Array(<<1, 0>>, FALSE, FALSE),
             Array(<<1, 3>>, FALSE, TRUE), Array(<<2, 1>>, FALSE, FALSE),
             Array(<<2, 2>>, FALSE, FALSE), Array(<<2, 1, 2>>, FALSE, FALSE)}

Numbers(list) == [kind |-> "list", shape |-> <<1, Len(list)>>, list |-> list]
Mask(list) == [kind |-> "mask", shape |-> <<1, Len(list)>>, list |-> list]
Colon == [kind |-> "colon", shape |-> <<1, 1>>, list |-> <<>>]

MCSubscripts ==
  {<<s>> : s \in {Numbers(<<>>), Numbers(<<1>>), Numbers(<<3, 3>>), Numbers(<<5>>),
                  Mask(<<TRUE, FALSE, TRUE>>), Colon,
                  [kind |-> "list", shape |-> <<2, 1>>, list |-> <<1, 2>>]}}
  \cup {<<s, t>> : s, t \in {Numbers(<<1>>), Numbers(<<3>>), Colon}}
  \cup {<<Numbers(<<2, 1>>), Colon>>, <<Colon, Mask(<<FALSE, TRUE>>)>>,
        <<Numbers(<<2>>), Colon, Colon>>, <<Colon, Colon, Numbers(<<2>>)>>}

MCValues == {Array(<<1, 1>>, TRUE, FALSE),
             [Array(<<1, 2>>, FALSE, FALSE) EXCEPT !.storage = <<8, NotANumber>>],
             [Array(<<2, 2>>, FALSE, FALSE) EXCEPT !.storage = <<6, 7, 8, 9>>]}

-----------------------------------------------------------------------------
(* Array operations: calls that hit empty extents, trailing ones, inferred   *)
(* extents, wrong orders and mixed classes.                                  *)
MCMoved == {Array(shape, FALSE, FALSE) : shape \in {<<0, 0>>, <<1, 0>>, <<1, 3>>, <<2, 3>>, <<2, 1, 2>>,
                                                  <<1, 1, 3>>, <<2, 3, 2>>}}
           \cup {Array(<<1, 1>>, TRUE, FALSE), Array(<<3, 2>>, FALSE, TRUE)}
Asking(name, a, list) == [name |-> name, array |-> a, list |-> list, form |-> "none", arrays |-> <<>>]
Joining(d, arrays) == [Asking("cat", EmptyArray, <<d>>) EXCEPT !.arrays = arrays]

MCArrayCalls ==
  {Asking("reshape", a, list) : a \in MCMoved,
     list \in {<<1>>, <<3, 1>>, <<2, Inferred>>, <<Inferred, 0>>, <<1, Inferred, 3>>,
               <<Inferred, Inferred>>, <<3, 2, 2>>, <<6, 1, 1>>, <<1, 1, 3>>}}
  \cup {Asking(name, a, list) : name \in {"permute", "ipermute"}, a \in MCMoved,
          list \in {<<2, 1>>, <<2, 3, 1>>, <<3, 1, 2>>, <<4, 1, 3, 2>>, <<1, 1, 2>>, <<1, 3>>}}
  \cup {Asking("flip", a, list) : a \in MCMoved, list \in {<<>>, <<1>>, <<3>>, <<4>>}}
  \cup {Asking(name, a, <<>>) : name \in {"flipud", "fliplr", "squeeze"}, a \in MCMoved}
  \cup {Asking("repmat", a, list) : a \in MCMoved,
          list \in {<<2>>, <<1, 2>>, <<0, 2>>, <<2, -1>>, <<1, 1, 2>>, <<2, 1, 1, 2>>}}
  \cup {Asking("size", a, <<n>>) : a \in MCMoved, n \in 1..4}
  \cup {Joining(d, <<a>>) : d \in 1..3, a \in MCMoved}
  \cup {Joining(d, <<a, b>>) : d \in 1..3, a, b \in MCMoved}
  \cup {Joining(2, <<Array(<<1, 2>>, FALSE, TRUE), a, b>>) :
          a \in {EmptyArray, [Array(<<1, 1>>, TRUE, FALSE) EXCEPT !.storage = <<NotANumber>>]},
          b \in {Array(<<1, 2>>, FALSE, FALSE), Array(<<1, 0>>, FALSE, FALSE)}}
  \cup {[Asking(name, EmptyArray, list) EXCEPT !.form = "array"] :
          name \in {"zeros", "eye", "true", "cell"},
          list \in {<<>>, <<2>>, <<3, 2>>, <<2, 0>>, <<2, 3, 1>>, <<2, 2, 2>>, <<-1>>}}
  \cup {Asking(name, EmptyArray, <<>>) : name \in {"ones", "cell"}}

-----------------------------------------------------------------------------
(* Reductions and sorting: lines with equal and missing elements, empty      *)
(* lines, and dimensions the array does not have.                            *)
Filled(shape, list) == [scalar |-> FALSE, logical |-> FALSE, shape |-> shape, storage |-> list]
MCLines ==
  {Filled(<<0, 0>>, <<>>), Filled(<<1, 0>>, <<>>), Filled(<<0, 2>>, <<>>),
   Filled(<<2, 2, 2>>, <<3, 0, NotANumber, 1, 2, 2, 0, 5>>), Filled(<<1, 1, 3>>, <<2, NotANumber, 2>>),
   [Filled(<<1, 3>>, <<0, 1, 0>>) EXCEPT !.logical = TRUE],
   [Filled(<<1, 1>>, <<0>>) EXCEPT !.scalar = TRUE],
   Filled(<<1, 3>>, <<NotANumber, 2, NotANumber>>), Filled(<<1, 3>>, <<2, 0, 2>>),
   Filled(<<2, 1>>, <<NotANumber, NotANumber>>)}
  \cup {Filled(<<3, 2>>, <<x, 1, y, 2, x, 0>>) : x, y \in {1, NotANumber}}

Default == [kind |-> "default", list |-> <<>>]
Everything == [kind |-> "all", list |-> <<>>]
Along(dims) == [kind |-> "given", list |-> dims]
MCSelections == {Default, Everything, Along(<<1>>), Along(<<2>>), Along(<<4>>), Along(<<2, 1>>),
                 Along(<<1, 3>>), Along(<<2, 2>>)}
Of(name, a) ==
  [name |-> name, array |-> a, selection |-> Default, omit |-> TRUE, reverse |-> FALSE, linear |-> FALSE,
   outputs |-> 1, limit |-> -1, order |-> 1, missing |-> "auto", distinct |-> FALSE, stable |-> FALSE,
   rows |-> FALSE]

MCNumericCalls ==
  {[Of(name, a) EXCEPT !.selection = s, !.omit = omit] :
     name \in {"sum", "prod", "any", "all"}, a \in MCLines, s \in MCSelections, omit \in BOOLEAN}
  \cup {[Of(name, a) EXCEPT !.selection = s, !.omit = omit, !.linear = linear, !.outputs = 2] :
          name \in {"min", "max"}, a \in MCLines, s \in MCSelections, omit, linear \in BOOLEAN}
  \cup {[Of(name, a) EXCEPT !.selection = s, !.omit = omit, !.reverse = reverse] :
          name \in {"cumsum", "cumprod", "cummin", "cummax"}, a \in MCLines,
          s \in {Default, Along(<<2>>), Along(<<3>>)}, omit, reverse \in BOOLEAN}
  \cup {[Of("diff", a) EXCEPT !.selection = s, !.order = n] :
          a \in MCLines, s \in {Default, Along(<<2>>), Along(<<4>>)}, n \in 0..3}
  \cup {[Of("find", a) EXCEPT !.limit = n, !.reverse = reverse, !.outputs = k] :
          a \in MCLines, n \in {-1, 0, 1, 2, 9}, reverse \in BOOLEAN, k \in 1..3}
  \cup {[Of("sort", a) EXCEPT !.selection = s, !.reverse = reverse, !.missing = missing, !.outputs = 2] :
          a \in MCLines, s \in {Default, Along(<<1>>), Along(<<2>>), Along(<<4>>)},
          reverse \in BOOLEAN, missing \in {"auto", "first", "last"}}
  \cup {[Of("unique", a) EXCEPT !.distinct = distinct, !.stable = stable, !.reverse = last, !.rows = rows,
                          !.outputs = 3] :
          a \in MCLines, distinct, stable, last, rows \in BOOLEAN}

-----------------------------------------------------------------------------
(* Classes: four of them, with a method, a property or something else.       *)
MCNames == <<"A", "B", "C", "D">>

Plainly(level) ==
  [level |-> level, listed |-> {}, selective |-> FALSE, own |-> level = "private"]
OnlyTo(class) ==
  [level |-> "private", listed |-> {class}, selective |-> TRUE, own |-> FALSE]
ToNobody == [level |-> "private", listed |-> {}, selective |-> TRUE, own |-> FALSE]
Open == Plainly("public")

Method(name, access, abstract, sealed) ==
  [declarer |-> name, access |-> access, abstract |-> abstract, sealed |-> sealed]
Property(name, access, abstract, validated) ==
  [declarer |-> name, access |-> access, abstract |-> abstract, validated |-> validated]

Declaration(supers, method, property) ==
  [supers |-> supers, handle |-> FALSE, sealed |-> FALSE, restricted |-> FALSE,
   allowed |-> {}, heterogeneous |-> FALSE, abstract |-> FALSE,
   property |-> property, method |-> method, event |-> FALSE]

MethodsOf(name) ==
  {NoMember, Method(name, Open, FALSE, FALSE)} \cup
  CASE name = "A" -> {Method(name, Open, FALSE, TRUE), Method(name, Open, TRUE, FALSE),
                      Method(name, Plainly("private"), FALSE, TRUE),
                      Method(name, OnlyTo("C"), FALSE, FALSE)}
    [] name = "B" -> {Method(name, Open, TRUE, FALSE), Method(name, Plainly("private"), FALSE, FALSE)}
    [] name = "C" -> {Method(name, Plainly("protected"), FALSE, FALSE),
                      Method(name, ToNobody, FALSE, FALSE), Method(name, OnlyTo("C"), FALSE, FALSE)}
    [] name = "D" -> {Method(name, Plainly("private"), FALSE, FALSE)}

PropertiesOf(name) ==
  {NoMember, Property(name, Open, FALSE, FALSE)} \cup
  CASE name = "A" -> {Property(name, Open, TRUE, TRUE), Property(name, Plainly("private"), FALSE, FALSE)}
    [] name = "B" -> {Property(name, Open, TRUE, FALSE), Property(name, Plainly("private"), FALSE, FALSE)}
    [] name = "C" -> {Property(name, Open, TRUE, TRUE), Property(name, Open, FALSE, TRUE)}
    [] name = "D" -> {}

SupersOf(name) ==
  CASE name = "A" -> {<<>>}
    [] name = "B" -> {<<>>, <<"A">>}
    [] name = "C" -> {<<>>, <<"A">>, <<"B">>, <<"A", "B">>}
    [] name = "D" -> {<<"B", "C">>, <<"C", "A">>, <<"A", "B", "C">>, <<"C", "B", "A">>}

OthersOf(name, supers) ==
  LET plain == Declaration(supers, NoMember, NoMember)
  IN {[plain EXCEPT !.event = TRUE], [plain EXCEPT !.heterogeneous = TRUE]}
     \cup CASE name = "A" -> {[plain EXCEPT !.handle = TRUE],
                              [plain EXCEPT !.restricted = TRUE, !.allowed = {"B"}],
                              [plain EXCEPT !.supers = <<"D">>], [plain EXCEPT !.supers = <<"Z">>]}
            [] name = "B" -> {[plain EXCEPT !.sealed = TRUE]}
            [] OTHER -> {}

MCDeclarations(name) ==
  LET has(Test(_)) == \E c \in DOMAIN classes : Test(classes[c])
      methods == has(LAMBDA c : c.method # NoMember)
      properties == has(LAMBDA c : c.property # NoMember)
      others == has(LAMBDA c : c \in OthersOf("A", c.supers) \cup OthersOf("B", c.supers))
      with(taken, declarations) == IF taken THEN {} ELSE declarations
  IN {Declaration(s, NoMember, NoMember) : s \in SupersOf(name)}
     \cup with(properties \/ others,
               {Declaration(s, m, NoMember) : s \in SupersOf(name), m \in MethodsOf(name)})
     \cup with(methods \/ others,
               {Declaration(s, NoMember, p) : s \in SupersOf(name), p \in PropertiesOf(name)})
     \cup with(methods \/ properties, UNION {OthersOf(name, s) : s \in SupersOf(name)})

-----------------------------------------------------------------------------
Parts == {"files", "table", "evaluation", "journal", "warnings", "dispatch", "collection",
          "graphics", "sets", "indexing", "arrays", "reductions", "classes"}

\* Two files of any mode and content after each other, or several short ones
\* at a time that are only read: their identifiers wrap around the open ones.
FilesMove ==
  /\ FilesNext
  /\ moving = "files" => Cardinality(DOMAIN openFiles') <= 1 /\ Cardinality(handedOut') <= 2
  /\ moving = "table" =>
       \A id \in DOMAIN openFiles' : openFiles'[id].content = <<"x">> /\ ~openFiles'[id].mode.writable

\* An array of two classes is changed once: its class comes from what it had.
ClassMove ==
  /\ HierarchyNext /\ preferred = NoClass
  /\ preferred' # NoClass => Cardinality(arrayOf) = 2

LeastStored ==
  /\ \A f \in Frames, n \in {"x", "output_0"} : workspaces[f][n] = None
  /\ \A n \in WrittenBack : globals[n] = None

ServicesInit ==
  /\ moving \in Parts
  /\ FilesInit /\ WarningInit /\ DispatchInit /\ CollectionInit /\ GraphicsInit
  /\ HierarchyInit
  /\ JournalInit /\ (moving # "journal" => ~recording)
  /\ EvaluationInit /\ (moving # "evaluation" => LeastStored)
  /\ IndexingInit /\ (moving # "indexing" => array = EmptyArray)
  /\ IF moving = "sets" THEN SetsInit ELSE asked = FirstQuestion /\ answer = NoAnswer
  /\ IF moving = "arrays" THEN ArrayInit
     ELSE arrayCall = Asking("size", EmptyArray, <<2>>) /\ arrayAnswer = Unanswered
  /\ IF moving = "reductions" THEN NumericInit
     ELSE numericCall = Of("sum", EmptyArray) /\ numericAnswer = [done |-> FALSE, outputs |-> NotAccepted]

ServicesNext ==
  /\ UNCHANGED moving
  /\ \/ moving \in {"files", "table"} /\ FilesMove
     \/ moving = "evaluation" /\ EvaluationNext
     \/ moving = "journal" /\ Step
     \/ moving = "warnings" /\ WarningNext
     \/ moving = "dispatch" /\ DispatchNext
     \/ moving = "collection" /\ CollectionNext
     \/ moving = "graphics" /\ GraphicsNext
     \/ moving = "sets" /\ SetsNext
     \/ moving = "indexing" /\ IndexingNext
     \/ moving = "arrays" /\ ArrayNext
     \/ moving = "reductions" /\ NumericNext
     \/ moving = "classes" /\ ClassMove
  /\ (moving \notin {"files", "table"} => UNCHANGED fileVars)
  /\ (moving # "evaluation" => UNCHANGED evaluationVars)
  /\ (moving # "journal" => UNCHANGED journalVars)
  /\ (moving # "warnings" => UNCHANGED warningVars)
  /\ (moving # "dispatch" => UNCHANGED dispatchVars)
  /\ (moving # "collection" => UNCHANGED collectionVars)
  /\ (moving # "graphics" => UNCHANGED graphicsVars)
  /\ (moving # "sets" => UNCHANGED setVars)
  /\ (moving # "indexing" => UNCHANGED indexingVars)
  /\ (moving # "arrays" => UNCHANGED arrayVars)
  /\ (moving # "reductions" => UNCHANGED numericVars)
  /\ (moving # "classes" => UNCHANGED hierarchyVars)

servicesVars ==
  <<moving, fileVars, evaluationVars, journalVars, warningVars, dispatchVars,
    collectionVars, graphicsVars, setVars, indexingVars, arrayVars, numericVars,
    hierarchyVars>>

ServicesSpec == ServicesInit /\ [][ServicesNext]_servicesVars
=============================================================================
