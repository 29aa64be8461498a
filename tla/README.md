# MParser: a TLA+ verification project

MParser is a MATLAB-like language runtime in C++20. Source is lexed, parsed and
lowered to a semantic HIR, compiled to bytecode that a verifier accepts, and run
by a virtual machine; a reference interpreter walks the HIR directly. Hot loops
are promoted to typed regions and to native kernels. The runtime is embedded
through a C ABI and a C++ API, and driven by a command line. Paths below are
relative to `src/src/mparser/` unless they begin with `src/`.

This directory models the parts of that runtime that carry its control: who may
run, when it has to stop, what is undone when something fails, and what two
engines owe each other. It does not model arithmetic, formatting or parsing.

## 1. Inventory

What each part keeps, does, and what makes it hard. "Correct when" is the list
the properties are drawn from; parts without a module have theirs in section 7.

| Component | State | Operations | Hard behaviour | Correct when |
|---|---|---|---|---|
| Execution control (`runtime/core/session/runtime_execution_control`) | limits, token, start time, first stop reason, counters and maxima | construct, checkpoint, before/complete instruction, enter/leave call, observe bytes and diagnostics, stop | another thread cancels; contexts nest and share the control; counters saturate | one first reason; nothing runs after a stop; a script cannot catch it; calls balance |
| Interactive input (`runtime_input`, keyboard in `runtime_system_builtins`) | the re-entrance latch | poll a host callback in slices between two checkpoints | a line that arrives after cancellation; a host that never answers | late lines dropped; cancellation and deadline always end it |
| VM instruction loop (`execution/bytecode/vm/bytecode_vm.cpp`) | C++ recursion, diagnostics, one flag per context | run, call, eval, recover, hooks around each instruction | nested contexts merge diagnostics; the order of hooks | above |
| Debugger (`runtime_debugger`) | breakpoints, action, step depth, scopes, paused event, three re-entrance flags | configure, pause, enter/leave scope, statement, evaluate, dbcont/dbstep/dbquit/dbup/dbdown | conditions and host callbacks run with the mutex released and may throw or re-enter | one thread at a time; flags restored; stale events refused; stop final |
| Native kernel cache (`execution/jit/native_scalar_jit.cpp`) | LRU list, map, code bytes, limits, statistics | find, record compilation, store, configure, clear, reset, snapshot | compiled with the mutex released | list and map agree; limits hold; LRU order; misses accounted |
| C API (`embedding/c_api.cpp`) | per-object mutexes, debugger owner, thread-local callback flag | execute, reset, clear, values, debug evaluation | callbacks re-enter the API on the same thread | graph serialized; one invocation per debugger; nothing executed from a guarded callback |
| Adaptive tiering (`vm/adaptive_bytecode_vm.cpp`, `jit/optimization_plan.cpp`) | merged profile, installed module, fallback counts, retraining sources | run (profiling or typed), promote, invalidate, reset | history of many invocations decides | repeated fallback invalidates; a failed loop returns only on fresh evidence |
| Bytecode lowering (`execution/bytecode/bytecode.cpp`) | code being emitted, patch lists | lower each HIR kind | targets patched later | every lowered program verifies |
| Bytecode verifier (`bytecode_verifier.cpp`) | bracket pairing, states per instruction | structure, targets, contexts, data flow | merges of many paths | what it accepts runs without a machine fault |
| Control machine (same VM file) | operand stack and five context stacks | 30 control instructions, recovery | a failure or a break with contexts half built | stacks are the verified ones |
| Reference interpreter (`execution/interpreter.cpp`) | trap base, control signal | walk of each HIR kind | must agree with the VM | same evaluations, same failures |
| Source evaluation (`execution/runtime_source_evaluation`, `_storage`) | workspace copy, global and persistent bindings, handles of the temporary module | eval, evalc, evalin, assignin, calls delegated to the parent | copy-back after a failure; calls back publish the copy; declarations bind the selected frame | the caller's frame is the caller's again; no handle of a temporary module survives |
| Session state (`runtime_session_state`) | globals, persistents, graph, listeners | declare, store, clear, reset | reset in two parts, one outside the lock | a reset session carries nothing over |
| Listeners (`bytecode_vm.cpp`, `runtime_event_listener_state`) | registry of records, listener fields, sources being destroyed | addlistener, notify, delete, destroy, collect | callbacks do all of it again, fail, or are left by a host exception; reachability over owner counts | each callback at most once per notification; a record goes exactly when nothing outside can reach it |
| Event journal (`runtime_event_journal`) | recorded events with dispositions, capture depths | record, stamp, caught, suppressed, complete | nested machines borrow or replace the recorder | each error once, and what it says of an error is what became of it |
| Warnings (`runtime_warning`) | state for all, overrides, modes, last warning | set, query, save, restore | a saved structure replaces every override | what was saved comes back |
| Classes (`bytecode_vm.cpp`, hierarchy resolution) | table of resolved classes | merge superclasses and own members | the order of superclasses | a resolved class keeps what its superclasses promised |
| Graphics graph (`object_model/runtime_graphics`, `builtin_registry.cpp`) | node table, current figure | figure, axes, plot, label, legend, set, move, delete | six kinds of references by identifier | no reference dangles; generated names go, given names stay |
| Files (`runtime/io/runtime_system`, `runtime_file_io`) | open-file table, restored input, last operation | open, read, write, seek, close | a read in two critical sections; read/write alternation; identifier wrap | no identifier twice; bytes go where the script was told |
| System context (`runtime/io/runtime_system`) | directory, search paths, capabilities | change directory, add and remove paths | read-modify-write over two locks | no lost path |
| Indexing and assignment (`runtime/core/indexing`) | none | index, assign with growth, delete | row-major storage under column-major subscripts, twice | elements keep their coordinates |
| Set builtins (`builtins/array/runtime_set_builtins.cpp`) | none | union, intersect, setdiff, setxor, ismember | sorted searches over missing and converted values | the outputs are the sets, the positions belong to them |
| Array builtins and reductions (`builtins/array`, `builtins/numeric`) | none | construct, reshape, permute, repeat, join; reduce, accumulate, search, sort | empty and absent dimensions, two storage orders, missing values | elements keep their coordinates; a line is reduced to what its elements say |
| Other values and builtins (`runtime/core/value`, `runtime/builtins`) | none of their own | pure functions | shapes, bounds, overflow | they equal their mathematical definition |
| Frontend (`frontend`, `semantic`) | none between calls | lex, parse, load, analyse | error recovery, name precedence | a pure function of the text |
| Typed regions (`bytecode/bytecode_region.cpp`, `jit/typed_*`, `dense_array_region_executor`) | a contract per region, staged slots | analyse, compile, execute, commit, fall back | failure half way, also inside an inlined call or a nested loop | a loop means what the interpreter makes of it |
| Compiled module, protocol, CLI (`embedding`, `cli`) | compiled module | compile, execute, report | status precedence | status matches diagnostics |

How they interact. The API (or the CLI) takes locks and a debugger, builds one
control object and calls the VM. The VM asks the control before and after every
instruction and on every call, tells the debugger of every statement, and calls
itself with a new context for `eval` and `keyboard`; those contexts share the
control but have diagnostics of their own, which are merged at the end. Input,
output, debug and export callbacks run on the executing thread and may call the
API again. The adaptive session chooses the module each invocation runs; its
typed regions use the process-wide kernel cache. Only the cancellation token,
the debugger's configuration, the kernel cache and the object mutexes are
touched by several threads; there is no thread of the runtime's own.

## 2. Modules

| Module | Models | Run |
|---|---|---|
| `ExecutionControl` | control, input, VM instruction loop as one composed system | `execution_control`, `execution_liveness`, `dbquit_uncontrolled`, `terminal_diagnostics` |
| `ExecutionControl_proofs` | theorems about it | checked by tlapm |
| `Debugger` | every critical section of `RuntimeDebugger` | `embedding_and_jit` |
| `EmbeddingApi` | locks, admission and callbacks of the C API | `embedding_and_jit` |
| `HostInterface_proofs` | theorems about these two | checked by tlapm |
| `NativeKernelCache` | the cache and `executeNativeScalarKernel` | `embedding_and_jit` |
| `AdaptiveTier` | one adaptive session | `embedding_and_jit` |
| `Jit_proofs` | theorems about the cache and the tier | checked by tlapm |
| `LoopContract` | what a `for` loop over numbers means, read off its tree | used by the next ones |
| `LoopPromise` | the abstract specification: executing a loop is one step to what it means | refined by `TypedRegion` |
| `LoopAnalysis` | bytecode of a loop body and the region contract read off it | used by the next one |
| `TypedRegion` | compilation, staged and native execution, commit, fallback to the VM | `embedding_and_jit`, `typed_nan` |
| `BytecodeInstructions` | an instruction, and emitting and patching it | used by the next ones |
| `ControlLowering` | the lowering of control flow, as a function from trees to code | used by the next ones |
| `BytecodeFlow` | brackets, ranges and the flow along one edge, as the verifier checks them | used by the next ones |
| `BytecodeVerifier` | the verifier, as a function from code to a verdict and its data flow | used by the next ones |
| `VerifiedLowering` | a tree that grows, lowered and verified at each size | `bytecode` |
| `ControlVm` | the machine that runs verified code | `bytecode` |
| `ControlVm_proofs` | theorems about it | checked by tlapm |
| `ControlInterpreter` | the HIR walk, as a function of recorded answers | used by the next one |
| `ControlEngines` | VM and interpreter side by side | `bytecode`, `engines_short_circuit` |
| `ControlPrograms` | the programs those runs use | |
| `RuntimeFiles` | the open files of a system context | `runtime_services` |
| `SourceEvaluation` | nested evaluation on copies of a workspace | `runtime_services`, `source_anonymous` |
| `SourceEvaluation_proofs` | theorems about it | checked by tlapm |
| `EventJournal` | the transcript of an invocation | `runtime_services`, `journal_handler` |
| `Selection` | the events of a list a condition picks, in order | used by `EventJournal` |
| `EventJournal_proofs` | theorems about it | checked by tlapm |
| `WarningSettings` | warning state, saved and restored | `runtime_services` |
| `RuntimeServices_proofs` | theorems about files, warnings and event listeners | checked by tlapm |
| `EventDispatch` | notification, deletion and destruction under callbacks | `runtime_services` |
| `ListenerCollection` | which listener records are dropped | `runtime_services` |
| `GraphicsGraph` | the node table and the builtins that change it | `runtime_services`, `graphics_names` |
| `GraphicsGraph_proofs` | theorems about it | checked by tlapm |
| `SetOperations` | set builtins against what they mean | `runtime_services` |
| `IndexedAssignment` | indexing, growth and deletion against coordinates | `runtime_services` |
| `ArrayLayout` | storage order and subscript order of an array | used by the next two |
| `ArrayOperations` | constructors, reshape, permute, flip, repmat, cat, size | `runtime_services` |
| `NumericReductions` | reductions, cumulative operations, differences, find, sort, unique | `runtime_services` |
| `ClassHierarchy` | resolution of superclasses | `runtime_services` |

Three runs are *sums*: `MCEmbeddingAndJit`, `MCBytecode` and
`MCRuntimeServices` extend several component modules that share no state. A
variable `moving` names the component that moves in a behaviour; the others keep
their initial state, so the states of a sum are the states of its parts added
up, and a property of one part is checked on exactly that part's behaviours. The
modules themselves know nothing of the sum. Components that do share state are
composed inside one module (`ExecutionControl`, `TypedRegion`, `ControlEngines`,
`SourceEvaluation`).

### ExecutionControl

`frames` is the C++ recursion: a frame is one activation of
`executeFunctionBody` with the phase its instruction is in (`before`, `body`,
`after`, `leave`, `input`, `catch`), the depth of its try blocks and the
diagnostics of its context, counted as errors, terminal errors and warnings.
Every hook (`beforeControlledInstruction`, `afterControlledInstruction`,
`ExecutionCallGuard`, `observeDiagnosticBudget`) is in the action of the place
that calls it, in its order. What an instruction does is one of: compute, fail,
warn, call, evaluate source, or ask for input; payload sizes come from
`Payloads`. `poll` is the loop of `readRuntimeInput` with both of its
checkpoints, so a cancellation can fall between the host's answer and its use.
`requested` and `now` change at any moment. The six choices of limits are one
control each, and two in pairs where their order matters. Counters saturate at
`SizeMax`, as they do at the largest `size_t`.

### Debugger

One action per critical section of the mutex. `pc` says which stretch of
`statement()` each thread is in while the mutex is released; `event` holds the
function's locals. Conditions and host callbacks may run nested script code that
enters and leaves scopes, evaluate, throw, or use the host API; other threads
set breakpoints, pause requests and actions at any time. What the frames of a
paused event contain is left out: they are counted.

### NativeKernelCache

A lookup, the bookkeeping after a compilation and a store are three critical
sections; two threads interleave them with each other and with the host's
configuration. A key stands for a kernel, as `kernelCacheKey` contains
everything the generated code depends on.

### EmbeddingApi

A call is a record on its thread's stack and moves through the locks it takes
in the order of the code; a callback leaves it there and lets the thread start
another. `MayNest` is the discipline the API documentation asks of a host: it
never calls back into the module or session it is executing (a non-recursive
mutex would be locked twice); everything else it may do. A thread that finds a
mutex taken waits, so TLC's deadlock check is the property that no combination
of nested calls waits for ever; the calls end in `Quiescent`.

### AdaptiveTier

One step is one invocation; what the script did in it is chosen freely. A region
has its heat and one summary of the values seen (stable scalar or array, or
anything else). The fallback count is kept as the code keeps it, and beside it a
history variable counts fallbacks since the last execution, so the properties do
not repeat the code's own counter.

### TypedRegion, with LoopContract, LoopPromise and LoopAnalysis

`LoopContract` evaluates a loop over its tree: numbers (small integers and NaN),
arrays read and written at one subscript, complex and text values as kinds that
numeric code refuses. It is what the interpreter does. `LoopPromise` is the
abstract machine: a task is given, and one step takes the workspace to the
result or to the failure and what was stored before it. `LoopAnalysis` lowers
the body to the bytecode the region analysis reads and derives the contract:
structure of branches and nested loops, definite assignment, inputs, call
targets. `TypedRegion` then is the VM at a hot loop: it compiles the kernel for
the values it finds (a name takes its storage class, a call is inlined when the
target is a scalar local function), tries native code, runs the portable kernel
on staged slots, commits, or falls back so that the VM repeats the loop, with the
inner loops and failures of each. `LoopRefinesContract` is
`INSTANCE LoopPromise WITH task, values, outcome <- ...` as a property: the
program sees the workspace, staged slots are invisible, an attempt that falls
back is a stutter, and VM iterations are seen together when the loop ends.

Left out: the range is given (not computed), dense array regions, classes other
than double and logical, and global or persistent names inside a typed loop,
which the kernel reads and writes as locals.

### Lowering, verifier, machine, interpreter

A program is a tree of `if`, `while`, `for`, `switch`, `try`, `break`,
`continue`, `return` and the leaves that matter to control: assignment, binary
operation, call of a local function, an anonymous function, a nested assignment
path with a call inside, an argument default. `Lower` is the lowering with its
late patching of targets; code has 1-based program counters. `Prepare` is the
verifier: brackets, targets and contexts, then a data flow over each execution
range that yields the operand depth and the context stacks at every instruction.
`ControlVm` runs a program the verifier accepted; an expression is an *event*
whose outcome the environment chooses: a condition, a case match, a number of
columns, or a failure. `ControlInterpreter` walks the same tree against the
recorded outcomes, and diverges when it asks for an event the VM did not
evaluate next. The diagnostics limit, which trims a list, is not part of it
(`ExecutionControl` has the limit itself), and neither are values. The interpreter
also gives up a `while` after a million iterations (`kMaxWhileIterations`), which
no compared program reaches.

### RuntimeFiles

`openFiles` is the context's table: a file's content, position, buffered input
that a partial read gave back (`unread`), the last operation and the end-of-file
flag. A read is two actions, since `readFileRemaining` and the restoration of
the rest are two critical sections: between them the file may be closed, all
files may be, and the identifier may be opened again. Text mode turns CR LF into
LF on the way in and back on the way out, so a position is told in bytes while
text is counted in characters. Formats, encodings, directories, deletion and
copying are left out.

### SourceEvaluation

`control` is the stack of evaluations and of calls they delegate to the parent
module. An evaluation works on a copy of the frame it was asked for, as a
separate VM with a module context of its own; a delegated call publishes the
copy into the frame, runs, and reads it back. `globals` and `persistents` are
session storage a frame may bind names to; a handle value names the context of
its module, and is restored (or refused) when that context ends. One handle
object is shared, so a handle can also escape through it. `AnonymousDelegates`
says whether an anonymous function of the evaluated text calls a function of the
parent; the property fails when it does (a finding), so the passing run leaves
it out. Also left out: `clear`, display capture, and what the text prints.

### EventJournal

`frames` holds the nested machines, the `try`s, captures (`evalc`) and calls
back; each machine shares the recorder of its control or brings its own. Errors
are stamped, travel, and are caught, suppressed or returned; texts are printed at
a capture depth. `printed` and `raised` are histories. `UnhandledIsReturned`
relates what the journal says of every error to what became of it, and
`EachTextOnce` the rendered transcript to what was printed. `ErrorHandlers` is
FALSE in the passing run (a finding). Warnings and displays are recorded the
same way and left out, as is the bounded public projection of the journal.

### WarningSettings

The state record with its overrides, as `warning` sets, queries, saves and
restores it; `saved` is what the script keeps, with a copy of the state it was
taken from as a history, so the property compares a restored state to the state
at the time of saving and not to the structure.

### EventDispatch and ListenerCollection

`EventDispatch` has the registry (active counts), the fields of every listener
and the stack of running callbacks and destructors; each may notify, add,
delete, or fail, an exception of the host may leave through all of them. A script
may set `Enabled` at any time, so each callback found is run or skipped.
`ListenerCollection` is the collector alone, over objects that own each other:
what lives is defined by owners (as `shared_ptr` does), and what the collection
keeps is compared to reachability from the script's variables. The code's
comparison of owner counts cannot see rings apart from every listener; the
property says exactly that and no less.

### GraphicsGraph

The node table with every identifier a node holds. A builtin is an action,
`legend` with all it does to existing legends, lines and their generated names.
Property values other than `DisplayName`, `AutoUpdate` and `NextPlot` are left
out. `GraphIsSound` includes what the serialiser refuses.

### SetOperations, IndexedAssignment, ArrayOperations, NumericReductions, ClassHierarchy

Algorithms checked against a definition that does not share their structure.
`SetOperations` sorts, searches and removes neighbours as the code does;
`Meaning` is by membership and positions. `IndexedAssignment` computes row-major
offsets and copies as the code does; the property speaks of coordinates only. It
is a small machine, because arrays remember growth and deletion (a vector that
was deleted from keeps its orientation), and arrays of missing, which the code
implements a second time, step beside the numeric ones. `ArrayOperations` and
`NumericReductions` share `ArrayLayout`, which has both orders of an array, and
answer one call per behaviour: the element at every coordinate of the result is
compared to the element the call means (`ArraysMeanWhatTheySay`), and what a line
is reduced to, ordered by or searched for to a definition over its elements
(`ReductionsMeanWhatTheySay`), with the positions returned and the shapes of empty
results. Complex and integer classes, means and sparse arrays are left out. `ClassHierarchy` merges superclasses in
order; classes are declared one after another, and the property states what a
resolved class owes to its ancestors: sealed members, access, requirements,
determinate dispatch, and a common class for arrays, which stays in the hierarchy
of the class an array had when elements are selected, deleted or assigned.

## 3. Runs

| Run | States | Shows |
|---|---|---|
| `execution_control` | 2.0 M | calls balance through nested contexts; the instruction budget is passed at most by the nesting; nothing is dispatched after a stop or over a budget; a script catches no stop; late input is dropped; the first reason stays |
| `execution_liveness` | 8 K | cancellation and the deadline end every invocation, also in a loop and in `input` |
| `embedding_and_jit` | 747 K | debugger: one execution thread, flags and paused stack on every exceptional path, stale events refused, stop final, no pause request lost. C API: ownership, serialization, guarded callbacks, no deadlock. Cache: list, map, bytes, limits, order. Tier: repeated fallback invalidates, failed loops prove themselves. Typed loops implement what a loop means |
| `bytecode` | 407 K | what the lowering makes is accepted, unless a `break` is stray; what is accepted runs on the stacks the verifier computed, recovery only discards, a stop is not caught; both engines evaluate and fail alike |
| `runtime_services` | 1.2 M | files, evaluation, journal, warnings, listeners, graphics, sets, arrays, reductions and classes keep what section 2 says of them |
| `dbquit_uncontrolled` | violated | `dbquit` in an invocation without any limit |
| `terminal_diagnostics` | violated | a stop inside `eval` |
| `engines_short_circuit` | violated | the VM and `&&` |
| `typed_nan` | violated | a NaN condition in the typed kernel |
| `source_anonymous` | violated | a call back from an anonymous function |
| `journal_handler` | violated | a failure an `ErrorHandler` recovered |
| `graphics_names` | violated | generated names after a shorter `String` |

### Bounds, and why they are enough

- `execution_control`: three frames give an entry, a call or evaluation in it,
  and a call in that: the smallest stack with a context between two calls. One
  try level catches or does not; a second catches the same. A limit of 2
  instructions or 2 calls is reached before, at and after nesting; `SizeMax` = 4
  is above every limit and is reached, so saturation happens.
- Debugger: two threads, two breakpoints of which one has a condition, two
  scopes, so stepping over and out differ from stepping in; two events, so a
  stale one exists while another is paused.
- Cache: three kernels of different sizes and four limits: no room, one entry,
  two by count, two by bytes. Three executions by two threads fit two
  compilations of one key and an eviction; the limits change once.
- C API: two threads, one module with two sessions, one runtime, one debugger,
  two calls per thread and a callback: every pair of locks is taken in both
  orders somewhere.
- Tier: two loops and a dense assignment, five invocations: promote, fall back
  twice, and be profiled twice more, with one loop rejected while another is
  promoted. A loop is hot at its first iteration, so all five are informative.
- Typed regions: loops of one or two statements of fourteen kinds, over workspaces
  that hold each kind of value in each place; two iterations make an iteration
  after a failure-free one, so that staged values are used and thrown away.
- `bytecode`: programs grow to three nested constructs and two statements; the
  machine runs two constructs around each leaf, 576 programs and thousands with
  one instruction altered; a third level repeats the second, since the contexts
  a construct opens do not depend on what is outside its parent. The engines are
  compared on the sources of the same trees. Loops end after two iterations,
  behaviours after five recorded answers.
- Files: a context whose identifiers end at 5 and that has two files open, so
  identifiers wrap around the open ones and are reused. Two open files are short
  and only read; contents of up to four characters, with every arrangement of CR
  and LF the translation tells apart, growth to five, and all modes are explored
  with one file open at a time, two in a behaviour.
- Evaluation: two evaluations, nested or in turn, two statements, and a stack of
  three: an evaluation in a call back of an evaluation.
- Journal: four frames, two texts and two errors, so texts have an order and one
  error is raised while another is being disposed of. Warnings: two identifiers, five operations: two
  changes, a save, another change, a restore.
- Listeners: one source with one destructor, two listeners, stack five: a
  callback that deletes the source whose destructor notifies. Collection: two
  sources, two listeners and two callbacks, the smallest ring through two
  records.
- Graphics: seven nodes (figure, axes, legend, label, lines of two axes) and
  four calls; the cheapest harmful sequences seen needed three.
- Sets: every list of up to three values against every list of up to two, with
  repetitions and missing values, and conversions to an integer class; keys are
  single values, since a row is compared like one. Indexing: seven arrays from
  0 x 0 to 2 x 1 x 2 under every listed subscript, twice, so an array that grew is
  deleted from and the other way round. Array operations: nine arrays, among them
  empty ones, a scalar, a trailing extent of one and a third dimension, under
  permutations that are none, repetitions of zero, inferred extents and dimensions
  an array does not have; up to three arrays joined. Reductions: lines of up to
  three elements with equal and missing ones, whole arrays, several dimensions at
  once, absent and repeated dimensions, and every option of a call. Classes: four, with a diamond listed in
  several orders, an array of two of them selected from, emptied or assigned to, cycles, missing superclasses, and per behaviour one kind of
  member, since kinds do not interact.
- Deadlock is checked except in `runtime_services` and the violated runs of its
  modules, where every part stops at its bound. In `embedding_and_jit` and
  `bytecode` the parts that end do so in an explicit stuttering step, so a state
  without a successor would be reported.

### Fairness

`execution_liveness` assumes weak fairness of the executing thread as a whole
(`VmStep \/ InputStep`) and of the clock. The operating system runs a runnable
thread, host callbacks return (a callback of `readRuntimeInput` is given a time
slice), and `steady_clock` advances. No fairness is assumed of what the script
does: it may loop for ever, and no answer to `input` need ever come. All other
runs are safety.

### Findings

- **`dbquit` without limits.** `src/docs/interactive-input.md` says it cancels
  execution. The stop is recorded, but the VM's hooks are skipped when the
  control has no limit, token or debugger, so a `try` around `keyboard` goes on.
- **Two terminal diagnostics.** `src/docs/v0.82.md` promises one. The flag that
  prevents a second belongs to a VM context, and `eval` has its own.
- **`&&` and `||` in the VM.** `src/README.md` lists them as short-circuit and a
  test of the interpreter relies on it; the lowering evaluates both operands.
- **A NaN condition.** The typed kernel takes the false branch where the VM and
  the interpreter stop with an error; `src/docs/jit-and-fallback.md` asks for
  unchanged fallback parity.
- **Calls back from anonymous functions.** `callInheritedSourceCallable`
  publishes the current frame as the selected workspace; inside an anonymous
  function of the evaluated text that is the wrong one.
- **`ErrorHandler`.** `arrayfun` recovers a failure and the journal keeps calling
  it unhandled.
- **Generated names.** A legend whose `String` is shortened drops lines that keep
  their generated names.

Observations without a run of their own, met while modelling:

- The adaptive session counts fallbacks that preceded an execution in the same
  invocation as consecutive (`adaptive_bytecode_vm.cpp:532`), and asks no
  retraining proof of dense regions (`:585`), both against
  `src/docs/history/v0.1-v0.76/v0.17.md`.
- The interpreter evaluates the cases of a `switch` whose selector failed
  (`interpreter.cpp:2823`), and replaces the diagnostic of a failed `for` range
  by its own (`:2669`). The comparison of the engines lets evaluations fail only
  where both stop alike; besides those two places it leaves out the operands of a
  sum, the default of an argument, and a subscript call inside an assignment
  path, after which the interpreter goes on to the store.
- A typed loop reads and writes a name that is dynamically bound to global or
  persistent storage as a local; and a nested single-value range over a logical
  scalar yields a double in the kernel (`typed_region_executor.cpp:1526`).
  `LoopContract` has neither.
- Deleting all elements through different subscripts leaves shapes of 1x0 or 0x0
  that differ between numeric arrays and arrays of missing.
- A class that lists `B` before its subclass `C` keeps `B`'s unvalidated
  descriptor (`bytecode_vm.cpp:3202`), and `D < A, B, C` with `C < A, B` is refused
  as ambiguous (`:3538`), against `v0.30.md` and `v0.26.md` of the history; the
  access of an overriding method is compared with the first superclass only.
  `ClassesKeepPromises` says nothing of validation or of classes refused.
- `cumsum` and `cumprod` with the policy that omits missing values keep a NaN along
  a dimension the array does not have (`runtime_scan.cpp`, `cumulativeBuiltin`),
  and element-wise `min` and `max` take the left operand when a comparison is
  undecided, so `min(NaN, 1)` is NaN and `min(1, NaN)` is 1
  (`runtime_reduction.cpp:517`), against `v0.48.md` and `v0.47.md` of the history.
  `sort` with comparison method `abs` compares real input by value. The
  property states the first as it is; the other two are not among the calls.
- `addSearchPaths` reads under one lock and stores under another
  (`runtime_system.cpp:1921`), and a session reset does half of its work after
  releasing the mutex (`runtime_session_state.cpp:197`). Neither component is
  modelled yet.

## 4. Proofs

Every theorem holds for all values of the constants its assumption admits; the
bounds that make the runs finite are constants too, and no proof uses more of
them than that they are counts. A proof has the same shape everywhere: an
inductive invariant in named parts, one lemma for each action, helper lemmas for
the data an action changes (a stack pushed, popped or with another top; a set
with one element more), `...Invariance`, and the properties as consequences.
The invariants were model-checked on the instances of the runs before they were
proved (`FramesInv` with one more nested entry than its run has), except `VmInv`,
which asks for a sequence of any numbers; of it TLC checks the property only.

| Module | Theorems | Inductive invariant | Assumes |
|---|---|---|---|
| `ExecutionControl_proofs` | 8 | `IInv` | `ConstantsOK` |
| `HostInterface_proofs` | 5 and 3 | `DebuggerInv`, `EmbeddingInv` | `DebuggerAssumption`, `EmbeddingAssumption` |
| `ControlVm_proofs` | 3 | `VmInv` | `ControlVmAssumption` |
| `Jit_proofs` | 3 and 4 | `CacheInv`, `TierInv` | `CacheAssumption`, `TierAssumption` |
| `SourceEvaluation_proofs` | 4 | `EvaluationInv`, `FramesInv` | nothing of its constants; `FramesStay` says `~AnonymousDelegates` |
| `EventJournal_proofs` | 2 | `JournalInv` | nothing of its constants; `TranscriptIsTrue` says `~ErrorHandlers` |
| `RuntimeServices_proofs` | 2, 1 and 2 | `FilesInv`, `WarningInv`, `DispatchInv` | `FilesAssumption`, `WarningAssumption`; nothing of the constants of `EventDispatch` |
| `GraphicsGraph_proofs` | 2 | `Good` | `GraphicsAssumption` |

### ExecutionControl

`ExecutionControl_proofs` proves every safety property of `execution_control`
for every set of invocations, every width of the counters and every bound. The
only assumption is `ConstantsOK`: limits are counts (the wall time may be
negative), `SizeMax` is positive, at least one frame and at most `SizeMax` can be
active, and payload sizes are naturals, zero among them. The last but one is
what makes the call counter exact: a counter of type `size_t` that saturated
would not be the number of frames any more.

| Theorem | Property |
|---|---|
| `TypeCorrect` | `TypeOK`: counters stay within `0..SizeMax`, phases and diagnostics are well formed |
| `Balance` | `CallsBalance` |
| `Overrun` | `BudgetOverrun` |
| `Dispatching` | `DispatchWithinBudgets` |
| `Uncatchable` | `UncatchableStop` |
| `Late` | `LateLineDropped` |
| `FirstReason` | `FirstReasonWins`, an action property; needs no invariant |
| `Invariance` | the inductive invariant `IInv` they follow from |

None of the properties is inductive. What `IInv` adds to them, and why:

- `Promise`: what the phase of the innermost frame says. A terminal diagnostic
  is noted exactly on the way out (`after`, `leave`), a stop found while the
  frame leaves is noted, and a frame about to dispatch has no error and is
  within its budgets. `UncatchableStop` needs it one step earlier, for the
  outermost frame at `leave`; `DispatchWithinBudgets` needs it one phase
  earlier, since an instruction that was checked `after` the previous one is
  dispatched without being checked again.
- `Suspended`: a frame below another was entered, and in a controlled invocation
  its context has no terminal diagnostic. So a caller that gets control back
  after a stop tells it itself, and merging the diagnostics of an `eval` cannot
  hide that it has not.
- `Stack`: exactly the outermost frame is the invocation's own, so only it
  leaves without a caller.
- `Depths`: the largest call depth bounds the current one.
- `Budget`: instructions counted plus instructions in progress are below the
  limit plus the deepest nesting. `BudgetOverrun` is this with nothing in
  progress; an instruction moves from one summand to the other when it ends.
- `Polling`: there is a poll only while the innermost frame is at input, and a
  late answer means the token is set, so the checkpoint after the callback
  fails: `LateLineDropped`.

An action changes the stack in one of three ways, and each has one lemma that
re-establishes the part of `IInv` about frames and counters (`StackReplaced`,
`StackPushed`, `StackPopped`). The step of an action then shows what the new
innermost frame promises; `Induction` collects the steps.

`IInv` itself was model-checked on the instances of `execution_control` before
it was proved.

### Debugger (in `HostInterface_proofs`)

| Theorem | Property |
|---|---|
| `ExecutionTold` | `ExecutionIsTold`: one thread executes, and the three flags say what it does |
| `PausedEventStaysCurrent` | `PausedEventIsCurrent`: an evaluation reaches only the pause it was asked for |
| `StopIsObeyed` | `StopPrevails`, an action property |
| `PauseIsHonoured` | `PauseHonoured`, an action property: a request is served by the next statement |
| `DebuggerInvariance` | the inductive invariant |

`statement()` releases the mutex three times and trusts its locals afterwards.
`DebuggerInv` says why it may: `ThreadOK(t)` describes a thread from its place
alone. In `Suspended`, the event of a thread inside `statement()` names a scope it
owns, the frames it counted are the frames below that scope whatever nested code
has pushed above it, and the action is not `Stop`. `Presented` adds, while the
host runs, that the selected frame exists and that an evaluation carries the
sequence number of the pause. `OneExecutionThread` and `ExecutorOwns` make all
other threads idle without scopes, which is what lets an action of one thread
leave the promises of the others alone (`Alone`, `AllIdle`). The sequence number
and the action could be changed by nested code; the flags (`FlagsTellWhere`) say
that they are not.

### EmbeddingApi (in `HostInterface_proofs`)

| Theorem | Property |
|---|---|
| `DebuggersAreOwned` | `DebuggerIsOwned`: a debugger serves one invocation, and says so |
| `CallsSerialized` | `CallsAreSerialized`: invocations over one graph or one session never overlap on two threads; nothing is admitted below a guarded callback |
| `EmbeddingInvariance` | the inductive invariant |

The assumption says that the kinds of objects are disjoint and that a host does
not nest a module or a session in itself (`MayNest`), which its mutex would not
survive. `Held` reads the locks of a call off its phase, and `Levels` collects the
calls of a stack that hold one. `LocksTell` then is the whole argument: a mutex
that is free is held by no call; one that is owned is held by its owner only, as
often as `count` says, and a session mutex once. `Stacks` says that all calls but
the innermost wait in a callback, that guarded callbacks are the last that admit
anything, and that a stack debugs with a debugger once; `Told` relates that to
the debugger's flag. That no combination of calls deadlocks stays with TLC: it is
a statement about `ENABLED`.

### NativeKernelCache

| Theorem | Property |
|---|---|
| `CacheStaysConsistent` | `CacheIsConsistent`: list and map agree, limits hold, every miss is accounted for |
| `LeastRecentAreEvicted` | `EvictsLeastRecent`, an action property |
| `CacheInvariance` | the inductive invariant |

Any kernels, sizes, limits and any finite set of threads; finiteness is needed
since misses in progress are counted. `Ordered` is what makes eviction from the
tail of the list an eviction of the least recently used: the list is in the order
of the last uses (`used` is a history variable), hence without repetition, hence
its length is the number of kernels. `SurvivorsFit` proves of what
an eviction keeps that it is a prefix of the list within both limits.

### AdaptiveTier

| Theorem | Property |
|---|---|
| `FallbacksInvalidate` | `RepeatedFallbackInvalidates` |
| `LoopsAreProved` | `LoopsProveThemselves`, an action property |
| `RejectionsAreToldOnce` | `RejectionsToldOnce`, an action property |
| `TierInvariance` | the inductive invariant |

`FallbacksCounted` relates the counter of the code to the streak the history
counts: it is never smaller, so the code invalidates at the latest when the
property wants it to. `ProfileTells` says that the profile that survived merging
is the one of everything since the last invalidation, and `FailuresTold` that the
two sets of retraining sources are the loops that failed and those reported.

### EventDispatch (in `RuntimeServices_proofs`)

| Theorem | Property |
|---|---|
| `ListenersStayTracked` | `ListenersAreTracked`: active while running, dropped only when nothing holds it, ended with its source |
| `DispatchInvariance` | the inductive invariant |

The registry keeps one flag per listener where callbacks nest. `CallbackNests`
explains why that is enough: a callback remembers whether the listener was active
before it, and it was exactly when another callback of the same listener runs
further out. So returning in order, or leaving all of them by an exception of the
host (`CutOffFields`), restores the flag. `DestructionNests` says that a source is
destroyed once and is invalid by then, whatever a destructor notifies.

### ControlVm

| Theorem | Property |
|---|---|
| `MachineRunsAsVerified` | `RunsAsVerified`: operands and contexts are the verified ones, recovery only discards, no fault of the machine |
| `StopStaysUncaught` | `StopIsNotCaught`, an action property |
| `VmSound` | the inductive invariant |

The theorems are about every program that was accepted, not about the lists of
programs the run has. What an accepted program is, `ControlVmAssumption` says in
two parts. `Verified` is what the verifier looked at: brackets pair, ranges are
structured, targets stay inside them, and the flow of every execution range is a
table in which each instruction passes and each edge agrees with the state at its
target. Nothing is assumed of how that table was computed, so the recursion of
`BytecodeVerifier` stays outside. `Made` is what the verifier does not look at and
the lowering sees to: the operand counts of three instructions, a handle made before
it is called, a default in every function, no empty range, and a `try` that begins
without operands or open contexts. TLC evaluates both for every program of the run,
those with an altered instruction among them.

`VmInv` relates the stack of frames to the flow. `Stands`: the loops, switches and
tries of a frame are the brackets open at its instruction, its indexes those of the
flow. `Formed`: a try has recorded the stacks of the place where it began, and no
fewer loops and switches than it recorded are open (`Bounded`), so cutting back
never invents one. `Chain` is the reason a callee cannot hurt its caller: each frame
below another waits at the call for exactly the operands below its callee (`Waits`),
and the assignment paths of each frame lie above those of its callers (`Mark`).
`Ready` is the property itself, for the uppermost frame.

A step is an evaluation, which may fail, a jump, a call, or a return; each is shown
to leave the frame where an edge of the flow leads (`Arrives`), or with a diagnostic.
Then one lemma serves them all: what happens after an instruction either goes on,
recovers at the innermost try (`RecoveredStands`: its catch is an edge of the flow from
everywhere inside the try), or leaves the frame done. A break has to close what its
target is outside of; that the brackets of a program nest is what makes the closed
ones the innermost ones.

### SourceEvaluation

| Theorem | Property |
|---|---|
| `HandlesStay` | `TemporaryHandlesStay`: no handle of a finished evaluation's module is left in a frame, in session storage or in the shared object |
| `FramesStay` | `FramesKeptAcrossCalls`, an action property, while anonymous functions do not delegate: entering or leaving evaluated code changes no variable any frame sees |
| `EvaluationInvariance` | the inductive invariant |

`HandlesStay` is proved with and without delegating anonymous functions (`AnonymousDelegates`), so
the finding about them is about values, not about handles. The property speaks of
what code sees; the invariant has to speak of what it will see again when inner
evaluations have ended, that is of every copy and saved workspace in the control
stack:

- `Order`: an entry stands on the one that entered it, in the same frame or, for
  `evalin`, further out; `Hidden` tells frames whose code sees a copy.
- `Kept`: the copy of an entry holds handles of contexts that live at least as
  long as the entry (`ContextsBelow`), and what an evaluation would give back
  (`GivesBack`: the original workspace, the borrowed ones, globals, persistents
  and the shared field) holds only what it allowed when it began. The frames an
  evaluation cannot restore, those inside of the selected one, are as clean as
  they were, since nothing it runs can store into them.
- `Unreached`: an evaluation that took no snapshot of the shared object has no
  reference to it, nor does anything it enters, so the field is what it was and
  needs no restoring. That is the hard part: it couples the value of a flag taken
  at the start with every workspace, session value and saved copy until the end.

`SessionClean` is then the property for the frames as they are, and `VisibleIs`
takes it to what code sees.

`FramesStay` has a hypothesis because the property is false without it: that is
the finding of `source_anonymous`. `FramesInv` adds three facts. A delegated
call stands on an evaluation, not on an anonymous function, so what is read back
goes where it was published from. An evaluation that does not write to a caller's
copy is the first, stands on a delegated call of its frame, or has a frame no
entry below it has (`Entered`), so what it writes back is what its frame sees. The
name generated for an output has no value in the copy (`OutputsStay`), so taking
the output out of the copy takes nothing else. `Seen` is `Visible` of any stack,
and `SeenPushed` and `SeenReturned` say which frames see the same through a pushed
and a popped one.

### EventJournal

| Theorem | Property |
|---|---|
| `EveryTextOnce` | `EachTextOnce`: what is printed reaches output, `evalc` string and transcript once and in order |
| `TranscriptIsTrue` | `JournalIsTrue`, while no handler recovers a failure: the texts, and exactly the returned errors are unhandled |

Both properties speak of a finished invocation only; `JournalInv` says what makes
them true while it runs, of machines nested in each other by evaluated source,
captures, calls of elements and calls back into the parent machine.

- `Stacked`, `Owned`, `AllRecorded`: how frames nest and which of them brought
  the recorder; while one records, every text printed since it began is in the
  journal.
- `Nested`: what a machine printed is a contiguous end of the history of texts
  (`from` is where it begins), and machines further in begin later.
- `Transcribed`: the texts the journal holds, rendered at a capture depth, are
  what was printed at that depth.
- `Collected`: the outputs of the frames of a capture depth, one after another,
  are what was printed at it. Leaving a machine moves its output one frame out,
  which keeps the concatenation, also when the frame leaves with an error.
- `Pending` (recording, no handlers): an event that is still open in the journal is
  an error on its way out in some frame, and each error on its way out has its
  event. Catching, suppressing and validating take both away at once; an
  `ErrorHandler` takes only the error away, which is why `TranscriptIsTrue` has its
  hypothesis and `journal_handler` its counterexample.

Rendering picks events of a list by a condition. What it returns cannot be shown
by induction over the list; `Ascending` lists the numbers of a set in order, and
the lemmas about it take a least counterexample instead.

### RuntimeFiles

| Theorem | Property |
|---|---|
| `FilesStayConsistent` | `FilesConsistent`: the told position is where the next input starts, and end of file is told truly |
| `TransfersHappenWhereTold` | `TransfersWhereTold`, an action property of reads, writes and new identifiers |

For any contents, texts, modes and limits that leave one identifier free. The code
never stores the position a script is told: it subtracts from the stream's
position what is buffered, and one more for each buffered line end that was two
bytes. `SettledFile` says what has to be true for that to work: either nothing is
buffered, or what is buffered, text and marks, is exactly what some position of
the file leaves behind it (`BufferedFrom`), and the stream is at the end.
`ReadingFile` says the same of the input a builtin has between the two critical
sections, in the file's pending marks. `SettledTells` then computes the told
position, and `InputGivenBack` takes what the builtin did not use back into the
file.

The arithmetic rests on ranks: character `n` of a text is the kept byte of rank
`n`. `Counted` to `CountRest` count positions one at a time; `TextBehind`,
`TextBefore` and `ExtraBehind` say that the text of the rest of a file is the rest
of its text, that marks move with it, and that no byte is counted twice when it
is cut at the end of a character. A write is only possible when nothing is buffered
(`WriteReady`), which is why it starts where scripts are told; `BlockWritten` and
`StartOfBytes` follow it through blocks and failures of the host. `InOrder` says
that the identifiers handed out are those before the next one, or all of them.

### WarningSettings

`SavedSettingsComeBack` proves `SettingsComeBack` for any identifiers and any
operations between saving and restoring. `SavedRight` says of the saved
structure that it lists the state of `all` first and then each override once, with
the state it was saved from; it need not say what the state is now. Restoring is
a recursion over the structure. `AllRestored` shows of each prefix that the state
after it shows the warnings listed so far as the saved state did, and all others
as the saved `all`: the first setting resets every override, and a later one
that says what `all` says takes an override away instead of adding one. Again a
least counterexample replaces the induction. The assumption says that an
identifier, which has a colon, is no name of a setting.

### GraphicsGraph

| Theorem | Property |
|---|---|
| `GraphStaysSound` | `GraphIsSound`: every object can be serialised, references are live, an axes has one legend, which lists its lines |
| `ScriptNamesSurvive` | `UserNamesSurvive`, an action property: a name a script gave stays until a call writes that line's name; of a `legend` with labels, those are the lines it labels |

For any number of nodes and calls. `GraphIsSound` read as a property of a table is
`Sound`: each node hangs below its parent once (`Placed`), references lead to live
nodes of the right kind (`Refers`), a legend lists lines, and without an explicit
subset only those of its axes (`Lists`), and no axes has two (`OneLegend`). `Good`
adds:

- identifiers in use are below the next one, and the current figure is one
  (`Sane`), so a new node takes the place of none and what is erased never comes
  back under its number;
- a legend stands beside the axes it belongs to (`Beside`), which fails while
  `reparent` has moved an axes and not yet its legend;
- a legend belongs to an axes (`Owned`), which fails while `configureLegend` has
  created a legend and not yet set its owner: hence `Sane`, which does without.

A builtin calls several operations, and `create`, `erase`, `plot` without hold and
`configureLegend` loop. Each operation is shown to keep `Good` and to follow on
from what was there (`Follows`: what lives has its kind, and a name the script
gave has not changed). `Follows` is transitive (`FollowsSane`), so it goes through
a builtin and through a loop, by a least counterexample. `NamesKept` is `Follows`
without the lines whose name the call itself writes, which is `UserNamesSurvive`.
The longest arguments are about what `erase` takes (`BelowClosed` to
`Erased`: whatever is taken, all that refers to it is cleaned or taken too), and
about a line moved between axes (`LineRehung`): it leaves one legend, may join
another, and its generated name is kept only as long as the legend that gave it.

What the theorems do not say is `GeneratedNamesRetained`, which the code violates
(`graphics_names`).

### What the proofs changed in the models

Definitions were rewritten where the provers could not follow them, with the same
runs and mutants before and after: the counts of `AdaptiveTier` and the outermost
handler of `EventDispatch` no longer use folds, the bytes of the cache are the
size of a set, and unions in `SourceEvaluation` have parentheses (the parsers of
TLC and of the proof system read `UNION S \cup T` differently). The journal picks
events with `Selection` instead of `SelectSeq`, whose recursion the provers do not
unfold, and a text is stamped by `WithTexts` like an error by `WithErrors`. The
warning settings are restored by a recursive function instead of a fold, their
case distinctions no longer overlap, and `WarningAssumption` says what an
identifier is not.

The text of a file is defined by ranks instead of a flattened sequence, and the
steps of a read and a seek have operators of their own (`TakenFrom`, `GivenBack`,
`Sought`). One definition was wrong: a write that failed before its first byte,
behind the end of a file, filled the gap with zeros although the host is never
reached. `BytesPut` could not be proved of it, and the run now has a file short
enough to show it.

`GraphicsGraph` has no recursion over the tree any more. What lies below a node is
the least closed set (`Below`), lists lose members by position (`Outside`), and the
lines whose generated name has to be looked at again are refreshed in one step
(`AllRefreshed`; no line's name depends on another's). The loop of
`configureLegend` has its body in `ListedNext`. The mutants and `graphics_names` are
violated as before.

The bytecode modules were divided: what an instruction is (`BytecodeInstructions`), what
the verifier asks of brackets and of one edge (`BytecodeFlow`), and the recursions that
parse and propagate (`BytecodeVerifier`). `ControlVm` uses the first two only, so its
theorems do not depend on recursive operators.
## 5. Only model-checked

- Liveness (`execution_liveness`): the
  prover has no fairness reasoning.
- That no combination of C API calls deadlocks: a statement about `ENABLED`, shown
  by the runs' deadlock check.
- What recursive definitions compute, and every module that has one or reaches
  one: that lowered programs are accepted (`ControlLowering`, `BytecodeVerifier`,
  `VerifiedLowering`) and that both engines agree (`ControlInterpreter`,
  `ControlEngines`), the loops (`LoopContract`,
  `LoopAnalysis`, `TypedRegion` and the refinement of `LoopPromise`), `ClassHierarchy`
  and `ListenerCollection`.
- The algorithms on arrays, sets and reductions against their references: they
  are induction over data, checked over all bounded inputs instead.

## 6. Not modelled

Every component with status `not_modelled` in `PROJECT.json` has its reason
there. In short: parsing, formatting and file formats are pure functions whose
errors tests reach; floating point is out of TLC's reach; most builtins are one
call each, for which the models use "succeeds or fails"; machine code generation
is vendored. What a modelled component leaves out is said in section 2 and in its
note.

## 7. Plan

1. Proofs: what a resolved class owes its ancestors, with the ancestors as a least
   closed set instead of a recursion, as `GraphicsGraph` has what lies below a node,
   and the collection of listeners in the same way.
2. The system context's search paths under two threads, and a session's reset.
3. Handle reference counts in the C API, and liveness of its calls.
4. Dense array regions, beside the scalar kernel and under the same promise.
5. Algorithms: name precedence of the source loader, argument contracts, joins,
   calendar arithmetic, saturating integers.
