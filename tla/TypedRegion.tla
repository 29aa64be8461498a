----------------------------- MODULE TypedRegion -----------------------------
(***************************************************************************)
(* A hot for loop of the bytecode VM and its typed region: the contract    *)
(* read off the bytecode (bytecode_region.cpp), the scalar kernel compiled *)
(* for the values found at its entry and run on staged state               *)
(* (typed_region_executor.cpp), and the VM that runs the loop when the     *)
(* region is not entered or gives up (bytecode_vm.cpp, executeTypedLoop).  *)
(* LoopContract says what the loop means; both paths have to implement it. *)
(*                                                                         *)
(* Numbers are small integers and NaN; `-`, `<` and `sqrt` stand for the   *)
(* total, the logical and the partial operations of the kernel.            *)
(***************************************************************************)
EXTENDS LoopAnalysis

CONSTANTS
  RegionLoops,      \* the loops, each with its tree and its analysed bytecode
  Workspaces, \* the values a loop may find
  LoopRanges, \* what it iterates over
  Backends    \* subset of {"auto", "portable", "native"}

VARIABLES
  region,     \* the loop that runs, with its analysed body
  range,      \* its range, on the VM's stack
  entry,      \* history: the workspace before the loop
  limited,    \* a call-depth limit is active, and reached
  backend,    \* typedRegionBackend_
  phase,      \* "entry", "native", "kernel", "vm", "done" or "error"
  workspace,  \* the current frame
  kernel,     \* the compiled kernel and its staged slots
  iteration   \* outer iterations done: by the kernel, or by the VM

regionVars == <<region, range, entry, limited, backend, phase, workspace, kernel,
                iteration>>

-----------------------------------------------------------------------------
(* compileKernel.  Slots, registers and arrays are named; an operand is      *)
(* <<"slot", name>>, <<"register", i>>, <<"literal", n>>, or on the compile  *)
(* stack also <<"array", name>> or <<"range", from, to>>.                    *)

IsScalar(operand) == operand[1] \in {"slot", "register", "literal"}

Step(op, destination, left, right) ==
  [op |-> op, destination |-> destination, left |-> left, right |-> right,
   target |-> 0, single |-> FALSE]
Nowhere == <<"nowhere", 0>>
One == <<"literal", 1>>

(* The kernel before its first instruction; `ready` are initialized slots.  *)
EmptyKernel(found) ==
  LET scalars == {x \in region.inputs : IsDouble(found[x])}
  IN [steps |-> <<>>, slots |-> {region.variable} \cup scalars,
      ready |-> {region.variable} \cup scalars, arrays |-> region.inputs \ scalars,
      registers |-> 0, operands |-> <<>>, open |-> <<>>, patches |-> {},
      at |-> <<>>, failed |-> FALSE]

Reject(k) == [k EXCEPT !.failed = TRUE]
PushOperand(k, operand) == [k EXCEPT !.operands = Append(@, operand)]
Drop(k, count) == [k EXCEPT !.operands = SubSeq(@, 1, Len(@) - count)]
Operand(k, depth) == k.operands[Len(k.operands) - depth]
ScalarsOnTop(k, count) ==
  /\ Len(k.operands) >= count
  /\ \A d \in 0 .. count - 1 : IsScalar(Operand(k, d))

(* An operation into a new register, pushed.                                *)
Compute(k, op, left, right) ==
  LET result == <<"register", k.registers + 1>>
  IN PushOperand([k EXCEPT !.registers = @ + 1,
                           !.steps = Append(@, Step(op, result, left, right))], result)

CompileLoad(k, name) ==
  IF name \in k.slots
  THEN IF name \in k.ready THEN PushOperand(k, <<"slot", name>>) ELSE Reject(k)
  ELSE IF name \in k.arrays THEN PushOperand(k, <<"array", name>>) ELSE Reject(k)

(* The step that computed the value stores it, when it came last.           *)
CompileStore(k, name) ==
  IF ~ScalarsOnTop(k, 1) \/ name \in k.arrays THEN Reject(k)
  ELSE LET source == Operand(k, 0)
           rest == [Drop(k, 1) EXCEPT !.slots = @ \cup {name}, !.ready = @ \cup {name}]
           last == Len(k.steps)
       IN IF source[1] = "register" /\ last > 0 /\ k.steps[last].destination = source
          THEN [rest EXCEPT !.steps[last].destination = <<"slot", name>>]
          ELSE [rest EXCEPT !.steps = Append(@, Step("copy", <<"slot", name>>, source, One))]

(* A call of the local function is inlined: its locals become operands.     *)
CompileInline(k) ==
  LET argument == Operand(k, 0)
      inner == Compute(Drop(k, 1), "-", argument, One)
  IN Compute(Drop(inner, 1), "sqrt", Operand(inner, 0), One)

CompileForBegin(k, at, ins) ==
  LET over == Operand(k, 0)
      single == IsScalar(over)
      begin == [Step("loopBegin", <<"slot", ins.name>>,
                     IF single THEN over ELSE over[2], IF single THEN over ELSE over[3])
                  EXCEPT !.single = single]
  IN IF k.operands = <<>> \/ over[1] = "array" \/ ins.name \in k.arrays THEN Reject(k)
     ELSE [Drop(k, 1) EXCEPT
             !.slots = @ \cup {ins.name}, !.ready = @ \cup {ins.name},
             !.steps = Append(@, begin),
             !.open = Append(@, [begin |-> Len(k.steps) + 1, ready |-> k.ready])]

CompileForNext(k, ins) ==
  LET open == k.open[Len(k.open)]
      next == [Step("loopNext", <<"slot", ins.name>>, One, One) EXCEPT !.target = open.begin + 1]
  IN [k EXCEPT !.steps = Append([@ EXCEPT ![open.begin].target = Len(k.steps) + 2], next),
               !.ready = open.ready, !.open = SubSeq(@, 1, Len(@) - 1)]

CompileInstruction(k, at, ins) ==
  CASE ins.op = "LoadName" -> CompileLoad(k, ins.name)
    [] ins.op = "LoadLiteral" -> PushOperand(k, <<"literal", ins.n>>)
    [] ins.op = "LoadCallee" -> k
    [] ins.op = "StoreName" -> CompileStore(k, ins.name)
    [] ins.op = "BinaryOp" ->
         IF ~ScalarsOnTop(k, 2) THEN Reject(k)
         ELSE IF ins.name = ":"
         THEN PushOperand(Drop(k, 2), <<"range", Operand(k, 1), Operand(k, 0)>>)
         ELSE Compute(Drop(k, 2), ins.name, Operand(k, 1), Operand(k, 0))
    [] ins.op = "Call" ->
         IF ~ScalarsOnTop(k, 1) THEN Reject(k)
         ELSE IF ins.name = "f" THEN CompileInline(k)
         ELSE Compute(Drop(k, 1), "sqrt", Operand(k, 0), One)
    [] ins.op = "Index" ->
         IF ~ScalarsOnTop(k, 1) \/ Operand(k, 1)[1] # "array" THEN Reject(k)
         ELSE Compute(Drop(k, 2), "loadElement", Operand(k, 0), Operand(k, 1))
    [] ins.op = "StoreIndex" ->
         IF ~ScalarsOnTop(k, 1) \/ Operand(k, 1)[1] # "array" \/ ~IsScalar(Operand(k, 2))
         THEN Reject(k)
         ELSE [Drop(k, 3) EXCEPT !.steps = Append(@,
                 Step("storeElement", Operand(k, 1), Operand(k, 0), Operand(k, 2)))]
    [] ins.op = "Jump" ->
         [k EXCEPT !.steps = Append(@, Step("jump", Nowhere, One, One)),
                   !.patches = @ \cup {<<Len(k.steps) + 1, ins.target>>}]
    [] ins.op = "JumpIfFalse" ->
         IF Len(k.operands) # 1 \/ ~ScalarsOnTop(k, 1) THEN Reject(k)
         ELSE [Drop(k, 1) EXCEPT
                 !.steps = Append(@, Step("jumpIfFalse", Nowhere, Operand(k, 0), One)),
                 !.patches = @ \cup {<<Len(k.steps) + 1, ins.target>>}]
    [] ins.op = "ForBegin" -> CompileForBegin(k, at, ins)
    [] ins.op = "ForNext" -> CompileForNext(k, ins)

RECURSIVE CompileFrom(_, _, _)
CompileFrom(k, at, code) ==
  IF k.failed \/ at > Len(code) THEN [k EXCEPT !.at = Append(@, Len(k.steps) + 1)]
  ELSE CompileFrom(CompileInstruction([k EXCEPT !.at = Append(@, Len(k.steps) + 1)],
                                      at, code[at]), at + 1, code)

(* The compiled kernel with its slots loaded from the workspace.            *)
CompileKernel(found) ==
  LET k == CompileFrom(EmptyKernel(found), 1, region.code)
      steps == [i \in DOMAIN k.steps |->
                  LET p == {q \in k.patches : q[1] = i}
                  IN IF p = {} THEN k.steps[i]
                     ELSE [k.steps[i] EXCEPT !.target = k.at[(CHOOSE q \in p : TRUE)[2]]]]
  IN IF k.failed THEN [failed |-> TRUE]
     ELSE [failed |-> FALSE, steps |-> steps,
           slots |-> [x \in k.slots |-> IF x \in DOMAIN found /\ found[x].kind = "number"
                                         THEN found[x] ELSE Double(0)],
           arrays |-> [x \in k.arrays |-> found[x]],
           registers |-> [i \in 1 .. k.registers |-> Double(0)],
           written |-> {}, writtenArrays |-> {}]

-----------------------------------------------------------------------------
(* executeKernelSpan: the steps from pc up to end, on the staged slots.     *)

Read(k, operand) ==
  CASE operand[1] = "slot"     -> k.slots[operand[2]]
    [] operand[1] = "register" -> k.registers[operand[2]]
    [] operand[1] = "literal"  -> Double(operand[2])

Write(k, destination, value) ==
  IF destination[1] = "slot"
  THEN [k EXCEPT !.slots[destination[2]] = value, !.written = @ \cup {destination[2]}]
  ELSE [k EXCEPT !.registers[destination[2]] = value]

Truthy(number) == number \notin {0, NaN}

RunRegion(k, step) ==
  LET left == Scalar(Read(k, step.left))
      Give(value) == Write(k, step.destination, value)
      array == step.right[2]
  IN CASE step.op = "copy" -> Give(Read(k, step.left))
       [] step.op = "-" -> Give(Double(SubtractReal(left, Scalar(Read(k, step.right)))))
       [] step.op = "<" -> Give(Logical(LessReal(left, Scalar(Read(k, step.right)))))
       [] step.op = "sqrt" -> IF left # NaN /\ left < 0 THEN Reject(k) ELSE Give(Double(RootReal(left)))
       [] step.op = "loadElement" ->
            IF left \notin DOMAIN k.arrays[array].elements THEN Reject(k)
            ELSE Give(Double(k.arrays[array].elements[left]))
       [] step.op = "storeElement" ->
            LET name == step.destination[2]
                index == Scalar(Read(k, step.left))
            IN IF index \notin DOMAIN k.arrays[name].elements THEN Reject(k)
               ELSE [k EXCEPT !.arrays[name].elements[index] = Scalar(Read(k, step.right)),
                              !.writtenArrays = @ \cup {name}]

RECURSIVE ExecuteSpan(_, _, _), ExecuteEach(_, _, _, _, _)
ExecuteSpan(k, at, end) ==
  IF k.failed \/ at >= end THEN k
  ELSE LET step == k.steps[at]
       IN CASE step.op = "jump" -> ExecuteSpan(k, step.target, end)
            [] step.op = "jumpIfFalse" ->
                 ExecuteSpan(k, IF Truthy(Scalar(Read(k, step.left))) THEN at + 1
                                ELSE step.target, end)
            [] step.op = "loopBegin" ->
                 LET from == Read(k, step.left)
                     over == IF step.single THEN <<Scalar(from)>>
                             ELSE ColonRange(from, Read(k, step.right)).elements
                 IN ExecuteSpan(ExecuteEach(k, over, step.destination, at + 1, step.target - 1),
                                step.target, end)
            [] OTHER -> ExecuteSpan(RunRegion(k, step), at + 1, end)

ExecuteEach(k, over, variable, at, end) ==
  IF over = <<>> \/ k.failed THEN k
  ELSE ExecuteEach(ExecuteSpan(Write(k, variable, Double(Head(over))), at, end),
                   Tail(over), variable, at, end)

KernelIteration(k, value) ==
  ExecuteSpan(Write(k, <<"slot", region.variable>>, Double(value)), 1, Len(k.steps) + 1)

RECURSIVE KernelRun(_, _)
KernelRun(k, values) ==
  IF values = <<>> \/ k.failed THEN k
  ELSE KernelRun(KernelIteration(k, Head(values)), Tail(values))

(* The workspace with the slots and arrays the kernel has written.          *)
Committed(k) ==
  [x \in DOMAIN workspace \cup k.written |->
     CASE x \in k.written -> k.slots[x]
       [] x \in k.writtenArrays -> k.arrays[x]
       [] OTHER -> workspace[x]]

-----------------------------------------------------------------------------
(* The VM's instructions on [pc, stack, loops, workspace, failed].          *)

Function(name) == [kind |-> "function", name |-> name]

Under(m, depth) == m.stack[Len(m.stack) - depth]
Replace(m, count, value) ==
  IF value = Failed THEN [m EXCEPT !.failed = TRUE]
  ELSE [m EXCEPT !.stack = Append(SubSeq(@, 1, Len(@) - count), value), !.pc = @ + 1]

CallValue(callee, argument) ==
  CASE callee.kind # "function" -> ElementAt(callee, argument)
    [] callee.name = "sqrt" -> SquareRoot(argument)
    [] limited -> Failed
    [] OTHER -> LET less == Subtract(argument, Double(1))
                IN IF less = Failed THEN Failed ELSE SquareRoot(less)

BeginFor(m, ins) ==
  LET over == Under(m, 0)
      popped == [m EXCEPT !.stack = SubSeq(@, 1, Len(@) - 1)]
      values == Columns(over)
  IN CASE over.kind \notin {"number", "array"} -> [m EXCEPT !.failed = TRUE]
       [] values = <<>> -> [popped EXCEPT !.pc = ins.target]
       [] OTHER -> [popped EXCEPT !.workspace = Bind(@, ins.name, Head(values)),
                      !.loops = Append(@, [name |-> ins.name, left |-> Tail(values)]),
                      !.pc = @ + 1]

NextFor(m, ins) ==
  LET left == m.loops[Len(m.loops)].left
  IN IF left = <<>> THEN [m EXCEPT !.loops = SubSeq(@, 1, Len(@) - 1), !.pc = @ + 1]
     ELSE [m EXCEPT !.workspace = Bind(@, ins.name, Head(left)),
             !.loops[Len(m.loops)].left = Tail(left), !.pc = ins.target]

VmStep(m, ins) ==
  LET top == Under(m, 0)
      Name == IF ins.name \in DOMAIN m.workspace THEN m.workspace[ins.name] ELSE Failed
  IN CASE ins.op = "LoadLiteral" -> Replace(m, 0, Double(ins.n))
       [] ins.op = "LoadText" -> Replace(m, 0, Text)
       [] ins.op = "LoadName" -> Replace(m, 0, Name)
       [] ins.op = "LoadCallee" -> Replace(m, 0, IF Name = Failed THEN Function(ins.name) ELSE Name)
       [] ins.op = "BinaryOp" ->
            Replace(m, 2, CASE ins.name = "-" -> Subtract(Under(m, 1), top)
                            [] ins.name = "<" -> LessThan(Under(m, 1), top)
                            [] ins.name = ":" -> ColonRange(Under(m, 1), top))
       [] ins.op = "Call" -> Replace(m, 2, CallValue(Under(m, 1), top))
       [] ins.op = "Index" -> Replace(m, 2, ElementAt(Under(m, 1), top))
       [] ins.op = "StoreName" ->
            [m EXCEPT !.workspace = Bind(@, ins.name, top), !.pc = @ + 1,
                      !.stack = SubSeq(@, 1, Len(@) - 1)]
       [] ins.op = "StoreIndex" ->
            LET put == PutElement(Under(m, 1), top, Under(m, 2))
            IN IF put = Failed THEN [m EXCEPT !.failed = TRUE]
               ELSE [m EXCEPT !.workspace = Bind(@, ins.name, put), !.pc = @ + 1,
                              !.stack = SubSeq(@, 1, Len(@) - 3)]
       [] ins.op = "Jump" -> [m EXCEPT !.pc = ins.target]
       [] ins.op = "JumpIfFalse" ->
            IF Truth(top) = "failed" THEN [m EXCEPT !.failed = TRUE]
            ELSE [m EXCEPT !.stack = SubSeq(@, 1, Len(@) - 1),
                           !.pc = IF Truth(top) = "true" THEN @ + 1 ELSE ins.target]
       [] ins.op = "ForBegin" -> BeginFor(m, ins)
       [] ins.op = "ForNext" -> NextFor(m, ins)

RECURSIVE VmRun(_, _)
VmRun(code, m) == IF m.failed \/ m.pc > Len(code) THEN m ELSE VmRun(code, VmStep(m, code[m.pc]))

-----------------------------------------------------------------------------
(* The loop's header in the VM.                                             *)

AtEntry ==
  /\ phase = "entry"
  /\ workspace = entry
  /\ kernel = [failed |-> TRUE]
  /\ iteration = 0

Initially ==
  /\ region \in RegionLoops
  /\ range \in LoopRanges
  /\ entry \in Workspaces
  /\ limited \in BOOLEAN
  /\ limited \/ "f" \in DOMAIN entry => "f" \in region.callTargets
  /\ backend \in Backends
  /\ AtEntry

(* executeTypedLoop up to the kernel: what sends the loop to the VM.        *)
Enterable ==
  /\ region.eligible
  /\ range.kind \in {"number", "array"} /\ range.class = "double"
  /\ region.callTargets \cap DOMAIN workspace = {}
  /\ ~(limited /\ "f" \in region.callTargets)
  /\ region.inputs \subseteq DOMAIN workspace
  /\ \A x \in region.inputs :
          workspace[x].kind \in {"number", "array"} /\ workspace[x].class = "double"
  /\ ~CompileKernel(workspace).failed

EnterTypedLoop ==
  /\ phase = "entry"
  /\ Enterable
  /\ phase' = IF backend = "portable" THEN "kernel" ELSE "native"
  /\ kernel' = CompileKernel(workspace)
  /\ UNCHANGED <<region, range, entry, limited, backend, workspace, iteration>>

EnterVm ==
  /\ phase = "entry"
  /\ ~Enterable
  /\ phase' = "vm"
  /\ UNCHANGED <<region, range, entry, limited, backend, workspace, kernel, iteration>>

Commit(k) ==
  /\ phase' = "done"
  /\ workspace' = Committed(k)
  /\ kernel' = [failed |-> TRUE]

(* The native code runs a copy of the kernel over all the values; it may be *)
(* unavailable, unsupported or not compile, too.                            *)
RunNative ==
  /\ phase = "native"
  /\ LET copy == KernelRun(kernel, range.elements)
     IN /\ ~copy.failed
        /\ Commit(copy)
  /\ UNCHANGED <<region, range, entry, limited, backend, iteration>>

(* Only "auto" tries the portable executor next, with the kernel as it was. *)
LeaveNative ==
  /\ phase = "native"
  /\ phase' = IF backend = "native" THEN "vm" ELSE "kernel"
  /\ UNCHANGED <<region, range, entry, limited, backend, workspace, kernel, iteration>>

IterateKernel ==
  /\ phase = "kernel"
  /\ iteration < Len(range.elements)
  /\ LET run == KernelIteration(kernel, range.elements[iteration + 1])
     IN /\ phase' = IF run.failed THEN "vm" ELSE "kernel"
        /\ kernel' = IF run.failed THEN [failed |-> TRUE] ELSE run
        /\ iteration' = IF run.failed THEN 0 ELSE iteration + 1
  /\ UNCHANGED <<region, range, entry, limited, backend, workspace>>

FinishKernel ==
  /\ phase = "kernel"
  /\ iteration = Len(range.elements)
  /\ Commit(kernel)
  /\ UNCHANGED <<region, range, entry, limited, backend, iteration>>

(* One turn of the loop in the VM, from ForBegin or ForNext to the next.    *)
IterateVm ==
  /\ phase = "vm"
  /\ range.kind \in {"number", "array"}
  /\ iteration < Len(range.elements)
  /\ LET bound == Bind(workspace, region.variable, Columns(range)[iteration + 1])
         run == VmRun(region.code, [pc |-> 1, stack |-> <<>>, loops |-> <<>>,
                                         workspace |-> bound, failed |-> FALSE])
     IN /\ workspace' = run.workspace
        /\ phase' = IF run.failed THEN "error" ELSE "vm"
  /\ iteration' = iteration + 1
  /\ UNCHANGED <<region, range, entry, limited, backend, kernel>>

FinishVm ==
  /\ phase = "vm"
  /\ \/ range.kind \notin {"number", "array"} /\ phase' = "error"
     \/ range.kind \in {"number", "array"} /\ iteration = Len(range.elements) /\ phase' = "done"
  /\ UNCHANGED <<region, range, entry, limited, backend, workspace, kernel, iteration>>

RegionNext ==
  \/ EnterTypedLoop \/ EnterVm \/ RunNative \/ LeaveNative
  \/ IterateKernel \/ FinishKernel \/ IterateVm \/ FinishVm

RegionSpec == Initially /\ [][RegionNext]_regionVars

-----------------------------------------------------------------------------
(* Whatever executes the loop - native code, the portable kernel, the VM    *)
(* from the start or after a kernel gave up half way - the workspace goes   *)
(* from the values before the loop to those LoopContract gives it, failure  *)
(* included: no store of a discarded attempt, no store twice, no value of   *)
(* an unwritten slot (docs/jit-and-fallback.md, "fallback parity").         *)
Settled == phase \in {"done", "error"}

Contract == INSTANCE LoopPromise WITH
  task <- [variable |-> region.variable, body |-> region.body,
           range |-> range, before |-> entry, limited |-> limited],
  values <- IF Settled THEN workspace ELSE entry,
  outcome <- IF Settled THEN phase ELSE "running"

LoopRefinesContract == Contract!Spec

(* The same for the end of the loop alone: every way of executing it gives  *)
(* the interpreter's values and fails where the interpreter fails           *)
(* (docs/jit-and-fallback.md, "native/no-JIT equivalence").                 *)
LoopMeansTheSame ==
  Settled /\ range.kind = "number" =>
    [failed |-> phase = "error", workspace |-> workspace]
      = RunOver(region.variable, Columns(range), region.body, entry, limited)

=============================================================================
