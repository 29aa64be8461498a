---------------------- MODULE ExecutionControl_proofs ----------------------
(***************************************************************************)
(* Proofs about ExecutionControl, for every set of limits and every bound. *)
(*                                                                         *)
(* The inductive invariant IInv says of the innermost frame what its phase *)
(* promises, of the suspended frames that they were entered and have no    *)
(* terminal diagnostic yet, and of the counters how they follow from the   *)
(* frames.  What an action does to frames is one of three things, and a    *)
(* lemma for each (StackReplaced, StackPushed, StackPopped) reestablishes  *)
(* the part of IInv about frames and counters.                             *)
(***************************************************************************)
EXTENDS ExecutionControl, SequenceTheorems, TLAPS

\* The frames whose instruction is in progress and not yet counted, when the
\* innermost of n frames is at phase.
Uncounted(phase, n) == IF phase \in {"before", "leave"} THEN n - 1 ELSE n

\* A frame that waits for a callee or a nested context.
Suspended(f) == f.entered /\ (Active => ~f.run.noted)

\* What the phase of the innermost of n frames promises: a terminal diagnostic
\* is noted exactly on the way out, and an instruction is only dispatched
\* with no error, no stop and no budget exceeded.
Promise(phase, run, n, reason, bytes) ==
    /\ phase = "catch" => n < DepthBound
    /\ Active /\ run.noted =>
          /\ phase \in {"after", "leave"}
          /\ reason # None /\ run.terminals > 0 /\ run.errs > 0
    /\ Active /\ reason # None =>
          /\ phase \in {"after", "leave", "catch"}
          /\ phase = "leave" => run.noted
    /\ phase \in {"before", "body"} =>
          /\ run.errs = 0
          /\ Active => /\ reason = None
                       /\ ~TooManyBytes(bytes)
                       /\ ~TooManyDiagnostics(run.warns)

Innermost(f, n, reason, bytes) ==
    /\ f.entered \/ f.phase = "leave"
    /\ Promise(f.phase, f.run, n, reason, bytes)

Stack ==
    /\ frames # <<>> <=> state = "running"
    /\ Len(frames) <= DepthBound
    /\ \A i \in 1..Len(frames) :
          /\ frames[i].kind = "entry" <=> i = 1
          /\ i < Len(frames) => Suspended(frames[i])
    /\ frames # <<>> => Innermost(Top, Len(frames), stopReason, live)

Depths ==
    /\ depth <= maxima.depth
    /\ limits.callDepth # 0 => maxima.depth <= limits.callDepth

Budget ==
    limits.instructions # 0 =>
        executed + (IF frames = <<>> THEN 0 ELSE Uncounted(Top.phase, Len(frames)))
            <= limits.instructions - 1 + maxima.depth

Core == /\ frames \in Seq(Frames)
        /\ Stack /\ CallsBalance /\ Depths /\ Budget

Polling ==
    /\ poll.step # "idle" => AtPhase("input")
    /\ poll.late => Cancelled

IInv == TypeOK /\ Core /\ Polling /\ LateLineDropped /\ UncatchableStop
-----------------------------------------------------------------------------
\* Replacing the last element of a sequence.
LEMMA ReplaceLast ==
  ASSUME NEW S, NEW s \in Seq(S), s # <<>>, NEW x \in S, NEW t,
         t = [s EXCEPT ![Len(s)] = x]
  PROVE  /\ t \in Seq(S)
         /\ t # <<>>
         /\ Len(t) = Len(s)
         /\ t[Len(s)] = x
         /\ \A i \in 1..Len(s) : i < Len(s) => t[i] = s[i]
<1>1. Len(s) \in Nat \ {0} /\ DOMAIN s = 1..Len(s) /\ Len(s) \in 1..Len(s)
  OBVIOUS
<1>2. t \in Seq(S) /\ Len(t) = Len(s)
  BY <1>1
<1>3. t # <<>>
  BY <1>1, <1>2
<1>4. t[Len(s)] = x
  BY <1>1
<1>5. ASSUME NEW i \in 1..Len(s), i < Len(s)
      PROVE  t[i] = s[i]
  <2>1. i \in DOMAIN s
    BY <1>1, Zenon
  <2>2. \A a, b \in Int : a < b => a # b
    OBVIOUS
  <2>3. i \in Int /\ Len(s) \in Int
    BY <1>1
  <2>4. i # Len(s)
    BY <2>2, <2>3, <1>5
  <2> QED
    BY <2>1, <2>4
<1> QED
  BY <1>2, <1>3, <1>4, <1>5

\* The innermost frame becomes f.
LEMMA TopReplaced ==
  ASSUME frames \in Seq(Frames), frames # <<>>, NEW f \in Frames,
         frames' = [frames EXCEPT ![Len(frames)] = f]
  PROVE  /\ frames' \in Seq(Frames)
         /\ frames' # <<>>
         /\ Len(frames') = Len(frames)
         /\ Top' = f
         /\ \A i \in 1..Len(frames) : i < Len(frames) => frames'[i] = frames[i]
<1> DEFINE t == frames'
<1>1. t = [frames EXCEPT ![Len(frames)] = f]
  OBVIOUS
<1> HIDE DEF t
<1>2. /\ t \in Seq(Frames) /\ t # <<>> /\ Len(t) = Len(frames)
      /\ t[Len(frames)] = f
      /\ \A i \in 1..Len(frames) : i < Len(frames) => t[i] = frames[i]
  BY <1>1, ReplaceLast
<1> QED
  BY <1>2 DEF t, Top

\* It is of the same kind and as entered as before.
LEMMA StackReplaced ==
  ASSUME TypeOK, Core, frames # <<>>,
         NEW f \in Frames, f.kind = Top.kind, f.entered = Top.entered,
         frames' = [frames EXCEPT ![Len(frames)] = f],
         Innermost(f, Len(frames), stopReason', live'),
         limits' = limits, state' = state, depth' = depth,
         maxima'.depth = maxima.depth,
         limits.instructions # 0 =>
            executed' + Uncounted(f.phase, Len(frames))
                <= limits.instructions - 1 + maxima.depth
  PROVE  Core'
<1>1. frames \in Seq(Frames) /\ Len(frames) \in Nat \ {0}
  BY DEF Core
<1>2. /\ frames' \in Seq(Frames) /\ frames' # <<>>
      /\ Len(frames') = Len(frames)
      /\ Top' = f
      /\ \A i \in 1..Len(frames) : i < Len(frames) => frames'[i] = frames[i]
  BY <1>1, TopReplaced
<1>3. Top' = f /\ frames'[Len(frames)].kind = frames[Len(frames)].kind
  BY <1>2 DEF Top
<1>4. \A i \in 1..Len(frames') :
          /\ frames'[i].kind = "entry" <=> i = 1
          /\ i < Len(frames') => Suspended(frames[i]) /\ frames'[i] = frames[i]
  <2> SUFFICES ASSUME NEW i \in 1..Len(frames)
               PROVE  /\ frames'[i].kind = "entry" <=> i = 1
                      /\ i < Len(frames) =>
                            Suspended(frames[i]) /\ frames'[i] = frames[i]
    BY <1>2
  <2>1. CASE i < Len(frames)
    BY <1>2, <2>1 DEF Core, Stack
  <2>2. CASE i = Len(frames)
    BY <1>1, <1>3, <2>2 DEF Core, Stack
  <2> QED
    BY <1>1, <2>1, <2>2
<1>5. Active' = Active
  BY DEF Active
<1>6. Stack'
  <2>1. (frames # <<>> <=> state = "running")' /\ Len(frames') <= DepthBound
    BY <1>2 DEF Core, Stack
  <2>2. Innermost(Top, Len(frames), stopReason, live)'
    BY <1>2, <1>3, <1>5 DEF Innermost, Promise, TooManyBytes,
       TooManyDiagnostics
  <2>3. \A i \in 1..Len(frames') : i < Len(frames') => Suspended(frames[i])'
    BY <1>4, <1>5 DEF Suspended
  <2> QED
    BY <1>4, <2>1, <2>2, <2>3 DEF Stack
<1>7. CallsBalance'
  BY <1>2, <1>3, <1>5 DEF Core, CallsBalance
<1>8. Depths'
  BY DEF Core, Depths
<1>9. Budget'
  BY <1>2, <1>3 DEF Budget
<1> QED
  BY <1>2, <1>6, <1>7, <1>8, <1>9 DEF Core

\* Move replaces the innermost frame, which was not leaving.
LEMMA StackMoved ==
  ASSUME TypeOK, Core, frames # <<>>, Top.phase # "leave",
         NEW phase \in Phases, NEW run \in Runs, Move(phase, run),
         Promise(phase, run, Len(frames), stopReason', live'),
         limits' = limits, state' = state, depth' = depth,
         maxima'.depth = maxima.depth,
         limits.instructions # 0 =>
            executed' + Uncounted(phase, Len(frames))
                <= limits.instructions - 1 + maxima.depth
  PROVE  /\ Core' /\ frames' # <<>>
         /\ Top'.phase = phase /\ Top'.run = run
<1> DEFINE f == [Top EXCEPT !.phase = phase, !.run = run]
<1>1. frames \in Seq(Frames) /\ Len(frames) \in Nat \ {0}
  BY DEF Core
<1>2. Top \in Frames
  BY <1>1 DEF Top
<1>3. /\ f \in Frames /\ f.kind = Top.kind /\ f.entered = Top.entered
      /\ f.phase = phase /\ f.run = run
  BY <1>2 DEF Frames
<1>4. frames' = [frames EXCEPT ![Len(frames)] = f]
  BY <1>1 DEF Move, Top
<1> HIDE DEF f
<1>5. Innermost(f, Len(frames), stopReason', live')
  BY <1>3 DEF Core, Stack, Innermost
<1>6. limits.instructions # 0 =>
         executed' + Uncounted(f.phase, Len(frames))
             <= limits.instructions - 1 + maxima.depth
  BY <1>3
<1>7. Core'
  BY <1>3, <1>4, <1>5, <1>6, StackReplaced
<1>8. frames' # <<>> /\ Top' = f
  BY <1>1, <1>3, <1>4, TopReplaced
<1> QED
  BY <1>3, <1>7, <1>8

\* The control's operations return stop reasons.
LEMMA StopTypes ==
  ASSUME TypeOK
  PROVE  /\ limits \in Limits
         /\ Active \in BOOLEAN
         /\ Checkpoint \in StopReasons \cup {None}
         /\ BeforeInstruction \in StopReasons \cup {None}
         /\ EnterCall \in StopReasons \cup {None}
         /\ EntryStop \in StopReasons \cup {None}
         /\ CallStop \in StopReasons \cup {None}
         /\ AfterStop \in StopReasons \cup {None}
         /\ \A reason \in StopReasons \cup {None} :
               Record(reason) \in StopReasons \cup {None}
<1>1. limits \in Limits
  BY ConstantsOK DEF TypeOK
<1>2. Checkpoint \in StopReasons \cup {None}
  BY DEF TypeOK, Checkpoint, StopReasons
<1>3. BeforeInstruction \in StopReasons \cup {None}
  BY <1>2 DEF BeforeInstruction, StopReasons
<1>4. EnterCall \in StopReasons \cup {None}
  BY <1>2 DEF EnterCall, StopReasons
<1>5. EntryStop \in StopReasons \cup {None}
  BY <1>4 DEF EntryStop, StopReasons
<1>6. CallStop \in StopReasons \cup {None}
  BY <1>4 DEF CallStop
<1>7. AfterStop \in StopReasons \cup {None}
  BY <1>2 DEF AfterStop, StopReasons
<1>8. Active \in BOOLEAN
  BY DEF Active
<1>9. \A reason \in StopReasons \cup {None} :
         Record(reason) \in StopReasons \cup {None}
  BY DEF Record, TypeOK
<1> QED
  BY <1>1, <1>2, <1>3, <1>4, <1>5, <1>6, <1>7, <1>8, <1>9

\* What the terminal diagnostic makes of the diagnostics of a context.
LEMMA Noting ==
  ASSUME limits \in Limits, NEW run \in Runs,
         NEW reason \in StopReasons \cup {None}
  PROVE  /\ addExecutionStopDiagnostic(run, reason) \in Runs
         /\ run.noted \/ reason = None =>
               addExecutionStopDiagnostic(run, reason) = run
         /\ ~run.noted /\ reason # None =>
               /\ addExecutionStopDiagnostic(run, reason).noted
               /\ addExecutionStopDiagnostic(run, reason).errs > 0
               /\ addExecutionStopDiagnostic(run, reason).terminals > 0
<1>1. trimDiagnosticsToLimit(run) \in Runs
  <2> DEFINE warns == Smaller(run.warns, limits.diagnostics)
             errs == Smaller(run.errs, limits.diagnostics - warns)
             terminals == Larger(0, run.terminals - (run.errs - errs))
  <2>1. limits.diagnostics \in Nat
    BY DEF Limits
  <2>2. run.warns \in Nat /\ run.errs \in Nat /\ run.terminals \in Nat
    BY DEF Runs
  <2>3. warns \in Nat /\ limits.diagnostics - warns \in Nat
    BY <2>1, <2>2 DEF Smaller
  <2>4. errs \in Nat
    BY <2>2, <2>3 DEF Smaller
  <2>5. terminals \in Nat
    BY <2>2, <2>4 DEF Larger
  <2> HIDE DEF warns, errs, terminals
  <2>6. [run EXCEPT !.warns = warns, !.errs = errs, !.terminals = terminals]
           \in Runs
    BY <2>3, <2>4, <2>5 DEF Runs
  <2> QED
    BY <2>6 DEF trimDiagnosticsToLimit, warns, errs, terminals
<1> DEFINE kept == IF reason = "DiagnosticLimit"
                   THEN trimDiagnosticsToLimit(run) ELSE run
           new == [kept EXCEPT !.errs = @ + 1, !.terminals = @ + 1,
                               !.noted = TRUE]
<1>2. kept \in Runs
  BY <1>1
<1> HIDE DEF kept
<1>3. new \in Runs /\ new.noted /\ new.errs > 0 /\ new.terminals > 0
  <2> DEFINE errs == kept.errs + 1
             terminals == kept.terminals + 1
  <2>1. errs \in Nat /\ errs > 0 /\ terminals \in Nat /\ terminals > 0
    BY <1>2 DEF Runs
  <2>2. new = [kept EXCEPT !.errs = errs, !.terminals = terminals,
                           !.noted = TRUE]
    OBVIOUS
  <2> HIDE DEF new, errs, terminals
  <2> QED
    BY <1>2, <2>1, <2>2 DEF Runs
<1>4. addExecutionStopDiagnostic(run, reason) =
         IF run.noted \/ reason = None THEN run ELSE new
  BY DEF addExecutionStopDiagnostic, kept
<1> HIDE DEF new
<1> QED
  BY <1>3, <1>4

\* Pushing one frame above the others.
LEMMA TopPushed ==
  ASSUME frames \in Seq(Frames), NEW f \in Frames, frames' = Append(frames, f)
  PROVE  /\ frames' \in Seq(Frames)
         /\ frames' # <<>>
         /\ Len(frames') = Len(frames) + 1
         /\ Top' = f
         /\ \A i \in 1..Len(frames) : frames'[i] = frames[i]
  BY DEF Top

\* A callee or a nested context is entered, or stopped on entry.
LEMMA StackPushed ==
  ASSUME TypeOK, Core,
         NEW kind \in Kinds, NEW catch \in BOOLEAN, NEW run \in Runs,
         NEW reason \in StopReasons \cup {None},
         Push(kind, catch, run, reason),
         kind = "entry" <=> frames = <<>>,
         frames # <<>> => Suspended(Top) /\ Top.phase \notin {"before", "leave"},
         Len(frames) < DepthBound, state' = "running",
         limits' = limits, executed' = executed, live' = live,
         run.errs = 0, Active => ~run.noted,
         ~Active => reason = None,
         Active /\ reason = None =>
            /\ stopReason = None
            /\ ~TooManyBytes(live) /\ ~TooManyDiagnostics(run.warns)
            /\ limits.callDepth # 0 => depth < limits.callDepth
  PROVE  /\ Core'
         /\ stopReason' \in StopReasons \cup {None}
         /\ depth' \in 0..SizeMax
         /\ maxima' \in [depth : Nat, bytes : Nat, diags : Nat]
<1> DEFINE f == [kind |-> kind, tries |-> 0, catch |-> catch,
                 entered |-> reason = None,
                 run |-> addExecutionStopDiagnostic(run, reason),
                 phase |-> IF reason = None THEN "before" ELSE "leave"]
<1>1. /\ frames \in Seq(Frames) /\ Len(frames) \in Nat
      /\ limits \in Limits
  BY ConstantsOK DEF Core, TypeOK
<1>2. /\ addExecutionStopDiagnostic(run, reason) \in Runs
      /\ reason = None => addExecutionStopDiagnostic(run, reason) = run
      /\ reason # None =>
            /\ addExecutionStopDiagnostic(run, reason).noted
            /\ addExecutionStopDiagnostic(run, reason).errs > 0
            /\ addExecutionStopDiagnostic(run, reason).terminals > 0
  BY <1>1, Noting
<1>3. f \in Frames
  BY <1>2 DEF Frames, Phases
<1>4. /\ f.kind = kind
      /\ f.entered = (reason = None)
      /\ f.phase = IF reason = None THEN "before" ELSE "leave"
      /\ f.run = addExecutionStopDiagnostic(run, reason)
  OBVIOUS
<1>5. frames' = Append(frames, f)
  BY DEF Push
<1> HIDE DEF f
<1>6. /\ frames' \in Seq(Frames) /\ frames' # <<>>
      /\ Len(frames') = Len(frames) + 1
      /\ Top' = f
      /\ \A i \in 1..Len(frames) : frames'[i] = frames[i]
  BY <1>1, <1>3, <1>5, TopPushed
<1>7. Active' = Active
  BY DEF Active
<1>8. stopReason' = Record(reason)
  BY DEF Push
<1>9. stopReason' \in StopReasons \cup {None}
  BY <1>8 DEF Record, TypeOK
<1>10. Innermost(f, Len(frames) + 1, stopReason', live')
  BY <1>2, <1>4, <1>8 DEF Innermost, Promise, Record, StopReasons, None
<1>11. Stack'
  <2>1. (frames # <<>> <=> state = "running")' /\ Len(frames') <= DepthBound
    BY <1>1, <1>6, ConstantsOK
  <2>2. Innermost(Top, Len(frames), stopReason, live)'
    BY <1>6, <1>7, <1>10 DEF Innermost, Promise, TooManyBytes,
       TooManyDiagnostics
  <2>3. ASSUME NEW i \in 1..(Len(frames) + 1)
        PROVE  /\ frames'[i].kind = "entry" <=> i = 1
               /\ i < Len(frames) + 1 => Suspended(frames'[i])
    <3>1. CASE i = Len(frames) + 1
      <4>1. frames'[i] = f
        BY <1>6, <3>1 DEF Top
      <4>2. frames = <<>> <=> i = 1
        BY <1>1, <3>1
      <4> QED
        BY <1>1, <1>4, <3>1, <4>1, <4>2
    <3>2. CASE i \in 1..Len(frames)
      <4>1. frames'[i] = frames[i] /\ frames # <<>>
        BY <1>1, <1>6, <3>2
      <4>2. frames[i].kind = "entry" <=> i = 1
        BY <3>2 DEF Core, Stack
      <4>3. Suspended(frames[i])
        BY <1>1, <3>2, <4>1 DEF Core, Stack, Top
      <4> QED
        BY <4>1, <4>2, <4>3
    <3> QED
      BY <1>1, <3>1, <3>2
  <2>4. \A i \in 1..Len(frames') :
           /\ frames'[i].kind = "entry" <=> i = 1
           /\ i < Len(frames') => Suspended(frames[i])'
    BY <1>6, <1>7, <2>3 DEF Suspended
  <2> QED
    BY <2>1, <2>2, <2>4 DEF Stack
<1>12. /\ ~Active => depth = 0
       /\ Active => depth = Len(frames)
  BY <1>1 DEF Core, CallsBalance, Suspended
<1>13. depth' = IF Active /\ reason = None THEN Len(frames) + 1 ELSE depth
  BY <1>1, <1>12, ConstantsOK DEF Push, EnteredDepth, Saturated
<1>14. depth' \in 0..SizeMax
  BY <1>1, <1>12, <1>13, ConstantsOK
<1>15. /\ maxima' \in [depth : Nat, bytes : Nat, diags : Nat]
       /\ maxima'.depth = IF reason = None THEN Larger(maxima.depth, depth')
                                           ELSE maxima.depth
  <2>1. /\ live \in Nat /\ depth' \in Nat
        /\ maxima \in [depth : Nat, bytes : Nat, diags : Nat]
    BY <1>14, ConstantsOK DEF TypeOK
  <2> QED
    BY <2>1 DEF Push, Larger
<1>16. CallsBalance'
  <2>1. depth' = IF ~Active THEN 0
                 ELSE IF reason = None THEN Len(frames) + 1 ELSE Len(frames)
    BY <1>1, <1>12, <1>13
  <2>2. Top'.entered <=> reason = None
    BY <1>4, <1>6
  <2>3. (Len(frames) + 1) - 1 = Len(frames)
    BY <1>1
  <2> QED
    BY <1>6, <1>7, <2>1, <2>2, <2>3 DEF CallsBalance
<1>17. Depths'
  <2>1. limits.callDepth # 0 => Active
    BY DEF Active
  <2>2. maxima.depth \in Nat /\ limits.callDepth \in Nat
    BY <1>1 DEF TypeOK, Limits
  <2> QED
    BY <1>1, <1>12, <1>13, <1>15, <2>1, <2>2 DEF Core, Depths, Larger
<1>18. Budget'
  <2>1. /\ maxima.depth \in Nat /\ maxima'.depth \in Nat
        /\ maxima.depth <= maxima'.depth
        /\ executed \in Nat /\ limits.instructions \in Nat
    BY <1>1, <1>14, <1>15, ConstantsOK DEF TypeOK, Limits, Larger
  <2>2. limits.instructions # 0 =>
           executed + Len(frames) <= limits.instructions - 1 + maxima.depth
    BY <1>1 DEF Core, Budget, Uncounted
  <2>3. Uncounted(f.phase, Len(frames) + 1) = Len(frames)
    BY <1>1, <1>4 DEF Uncounted
  <2> QED
    BY <1>1, <1>6, <2>1, <2>2, <2>3 DEF Budget
<1> QED
  BY <1>6, <1>9, <1>11, <1>14, <1>15, <1>16, <1>17, <1>18 DEF Core

\* The innermost frame is popped, its caller goes on at phase.
LEMMA StackPopped ==
  ASSUME TypeOK, Core, AtPhase("leave"), Len(frames) > 1,
         NEW phase \in {"after", "catch", "input"}, NEW run \in Runs,
         PopTo(phase, run), depth' = LeftDepth(Top),
         Promise(phase, run, Len(frames) - 1, stopReason', live),
         limits' = limits, state' = state, executed' = executed,
         maxima' = maxima, live' = live
  PROVE  /\ Core'
         /\ depth' \in 0..SizeMax
         /\ frames' # <<>> /\ Top'.phase = phase /\ Top'.run = run
<1> DEFINE f == [Caller EXCEPT !.phase = phase, !.run = run]
           below == SubSeq(frames, 1, Len(frames) - 1)
           n == Len(frames) - 1
<1>1. frames \in Seq(Frames) /\ Len(frames) \in Nat /\ n \in 1..Len(frames)
  BY DEF Core
<1>2. /\ below \in Seq(Frames) /\ below # <<>> /\ Len(below) = n
      /\ \A i \in 1..n : below[i] = frames[i]
  <2>1. /\ below \in Seq(Frames) /\ Len(below) = n
        /\ \A i \in 1..n : below[i] = frames[i]
    BY <1>1
  <2> HIDE DEF below
  <2>2. below # <<>>
    BY <1>1, <2>1
  <2> QED
    BY <2>1, <2>2
<1>3. Caller \in Frames /\ Caller = frames[n] /\ below[n] = Caller
  BY <1>1, <1>2 DEF Caller
<1>4. /\ f \in Frames /\ f.kind = Caller.kind /\ f.entered = Caller.entered
      /\ f.phase = phase /\ f.run = run
  BY <1>3 DEF Frames, Phases
<1>5. frames' = [below EXCEPT ![Len(below)] = f]
  BY <1>1, <1>2, <1>3 DEF PopTo
<1> HIDE DEF f, below
<1>6. /\ frames' \in Seq(Frames) /\ frames' # <<>> /\ Len(frames') = n
      /\ frames'[n] = f
      /\ \A i \in 1..n : i < n => frames'[i] = frames[i]
  <2> DEFINE t == frames'
  <2>1. t = [below EXCEPT ![Len(below)] = f]
    BY <1>5
  <2> HIDE DEF t
  <2>2. /\ t \in Seq(Frames) /\ t # <<>> /\ Len(t) = Len(below)
        /\ t[Len(below)] = f
        /\ \A i \in 1..Len(below) : i < Len(below) => t[i] = below[i]
    BY <1>2, <1>4, <2>1, ReplaceLast
  <2> QED
    BY <1>2, <2>2 DEF t
<1>7. Top' = f /\ Active' = Active
  BY <1>6 DEF Top, Active
<1>8. /\ Suspended(Caller)
      /\ \A i \in 1..n : /\ frames[i].kind = "entry" <=> i = 1
                         /\ Suspended(frames[i])
  BY <1>1, <1>3 DEF Core, Stack
<1>9. Stack'
  <2>1. (frames # <<>> <=> state = "running")' /\ Len(frames') <= DepthBound
    BY <1>1, <1>6, ConstantsOK DEF Core, Stack
  <2>2. Innermost(Top, Len(frames), stopReason, live)'
    BY <1>4, <1>6, <1>7, <1>8 DEF Innermost, Promise, Suspended, TooManyBytes,
       TooManyDiagnostics
  <2>3. ASSUME NEW i \in 1..n
        PROVE  /\ frames'[i].kind = "entry" <=> i = 1
               /\ i < n => Suspended(frames'[i])
    <3>1. CASE i = n
      BY <1>1, <1>3, <1>4, <1>6, <1>8, <3>1
    <3>2. CASE i < n
      BY <1>6, <1>8, <3>2
    <3> QED
      BY <1>1, <3>1, <3>2
  <2>4. \A i \in 1..Len(frames') :
           /\ frames'[i].kind = "entry" <=> i = 1
           /\ i < Len(frames') => Suspended(frames[i])'
    BY <1>6, <1>7, <2>3 DEF Suspended
  <2> QED
    BY <2>1, <2>2, <2>4 DEF Stack
<1>10. depth = IF ~Active THEN 0 ELSE IF Top.entered THEN n + 1 ELSE n
  BY <1>1 DEF Core, CallsBalance, AtPhase
<1>11. depth' = IF Active THEN n ELSE 0
  BY <1>1, <1>10 DEF LeftDepth
<1>12. depth' \in 0..SizeMax /\ depth' <= depth
  <2>1. Len(frames) <= DepthBound /\ DepthBound \in 1..SizeMax
    BY ConstantsOK DEF Core, Stack
  <2>2. SizeMax \in Nat /\ n \in Nat /\ n <= SizeMax
    BY <1>1, <2>1, ConstantsOK
  <2> HIDE DEF n
  <2> QED
    BY <1>10, <1>11, <2>2
<1>13. CallsBalance'
  <2>1. Top'.entered
    BY <1>4, <1>7, <1>8 DEF Suspended
  <2> QED
    BY <1>6, <1>7, <1>11, <2>1 DEF CallsBalance
<1>14. Depths'
  <2>1. maxima.depth \in Nat /\ depth \in Nat
    BY DEF TypeOK
  <2> QED
    BY <1>12, <2>1 DEF Core, Depths
<1>15. Budget'
  <2>1. Uncounted(Top.phase, Len(frames)) = n
    BY DEF Uncounted, AtPhase
  <2>2. Uncounted(phase, n) = n
    BY DEF Uncounted
  <2>3. limits.instructions # 0 =>
           executed + n <= limits.instructions - 1 + maxima.depth
    BY <2>1 DEF Core, Budget, AtPhase
  <2> QED
    BY <1>4, <1>6, <1>7, <2>2, <2>3 DEF Budget
<1> QED
  BY <1>4, <1>6, <1>7, <1>9, <1>12, <1>13, <1>14, <1>15 DEF Core

-----------------------------------------------------------------------------
\* The part of IInv about frames and counters reads only these.
LEMMA CoreKept ==
  ASSUME Core, maxima'.depth = maxima.depth,
         UNCHANGED <<limits, stopReason, executed, depth, state, frames, live>>
  PROVE  Core'
<1>1. Active' = Active /\ Top' = Top
  BY DEF Active, Top
<1>2. Stack'
  <2>1. frames # <<>> => Innermost(Top, Len(frames), stopReason, live)'
    BY <1>1 DEF Core, Stack, Innermost, Promise, TooManyBytes,
       TooManyDiagnostics
  <2>2. \A i \in 1..Len(frames) : Suspended(frames[i])' <=> Suspended(frames[i])
    BY <1>1 DEF Suspended
  <2> QED
    BY <2>1, <2>2 DEF Core, Stack
<1>3. CallsBalance'
  BY <1>1 DEF Core, CallsBalance
<1>4. Depths'
  BY DEF Core, Depths
<1>5. Budget'
  BY <1>1 DEF Core, Budget
<1> QED
  BY <1>2, <1>3, <1>4, <1>5 DEF Core

\* A step of a frame that does not wait for input leaves the rest alone.
LEMMA Aside ==
  ASSUME IInv, frames # <<>>, Top.phase # "input", state' = state,
         poll' = poll, limits' = limits, requested' = requested
  PROVE  Polling' /\ LateLineDropped' /\ UncatchableStop'
<1>1. poll.step = "idle"
  BY DEF IInv, Polling, AtPhase
<1>2. state' # "done"
  BY DEF IInv, Core, Stack
<1>3. Cancelled' = Cancelled
  BY DEF Cancelled
<1> QED
  BY <1>1, <1>2, <1>3 DEF IInv, Polling, LateLineDropped, UncatchableStop

\* What IInv says of the innermost frame, and of the budget left to it.
LEMMA AtTop ==
  ASSUME IInv, frames # <<>>
  PROVE  /\ Len(frames) \in Nat \ {0} /\ Len(frames) <= DepthBound
         /\ Top \in Frames /\ Top.run \in Runs
         /\ limits \in Limits /\ live \in Nat /\ state = "running"
         /\ Top.entered \/ Top.phase = "leave"
         /\ Promise(Top.phase, Top.run, Len(frames), stopReason, live)
         /\ limits.instructions # 0 =>
               executed + Uncounted(Top.phase, Len(frames))
                   <= limits.instructions - 1 + maxima.depth
<1>1. frames \in Seq(Frames) /\ Len(frames) \in Nat \ {0}
  BY DEF IInv, Core
<1>2. Top \in Frames /\ Top.run \in Runs
  <2>1. Top \in Frames
    BY <1>1 DEF Top
  <2> QED
    BY <2>1 DEF Frames
<1>3. limits \in Limits /\ live \in Nat
  BY ConstantsOK DEF IInv, TypeOK
<1> QED
  BY <1>1, <1>2, <1>3 DEF IInv, Core, Stack, Budget, Innermost

\* An instruction that touches neither the control nor the poll.
LEMMA QuietStep ==
  ASSUME IInv, frames # <<>>, Top.phase = "body",
         NEW phase \in Phases \ {"before", "leave"}, NEW run \in Runs,
         Move(phase, run),
         Promise(phase, run, Len(frames), stopReason, live'),
         live' \in Payloads, UNCHANGED <<controlVars, state, result, poll>>
  PROVE  IInv'
<1>1. /\ limits' = limits /\ stopReason' = stopReason /\ executed' = executed
      /\ depth' = depth /\ maxima' = maxima /\ requested' = requested
      /\ now' = now /\ inputActive' = inputActive
  BY DEF controlVars
<1>2. limits.instructions # 0 =>
         executed' + Uncounted(phase, Len(frames))
             <= limits.instructions - 1 + maxima.depth
  BY <1>1, AtTop DEF Uncounted
<1>3. Core'
  BY <1>1, <1>2, StackMoved DEF IInv
<1>4. TypeOK'
  BY <1>1, <1>3 DEF IInv, TypeOK, Core
<1> QED
  BY <1>1, <1>3, <1>4, Aside DEF IInv

\* An instruction computes, perhaps with a warning.
LEMMA ComputeStep == IInv /\ Compute => IInv'
<1> SUFFICES ASSUME IInv, Compute PROVE IInv'
  OBVIOUS
<1>1. frames # <<>> /\ Top.phase = "body"
  BY DEF Compute, AtPhase
<1>2. PICK run \in Runs : Move("after", run) /\ run.noted = Top.run.noted
  <2>1. Top.run \in Runs /\ [Top.run EXCEPT !.warns = @ + 1] \in Runs
    BY <1>1, AtTop DEF Runs
  <2>2. [Top.run EXCEPT !.warns = @ + 1].noted = Top.run.noted
    BY <1>1, AtTop DEF Runs
  <2> QED
    BY <2>1, <2>2 DEF Compute
<1>3. Promise("after", run, Len(frames), stopReason, live')
  BY <1>1, <1>2, AtTop DEF Promise
<1> QED
  BY <1>1, <1>2, <1>3, QuietStep DEF Compute, Phases

\* A failure adds an error.
LEMMA Failing ==
  ASSUME NEW run \in Runs
  PROVE  Failed(run) \in Runs /\ Failed(run).noted = run.noted
<1> DEFINE errs == run.errs + 1
<1>1. errs \in Nat
  BY DEF Runs
<1>2. Failed(run) = [run EXCEPT !.errs = errs]
  BY DEF Failed
<1> HIDE DEF errs
<1> QED
  BY <1>1, <1>2 DEF Runs

\* An instruction fails.
LEMMA RaiseStep == IInv /\ Raise => IInv'
<1> SUFFICES ASSUME IInv, Raise PROVE IInv'
  OBVIOUS
<1>1. frames # <<>> /\ Top.phase = "body"
  BY DEF Raise, AtPhase
<1>2. Failed(Top.run) \in Runs /\ Failed(Top.run).noted = Top.run.noted
  BY <1>1, AtTop, Failing
<1>3. Promise("after", Failed(Top.run), Len(frames), stopReason, live')
  BY <1>1, <1>2, AtTop DEF Promise
<1>4. live' \in Payloads
  BY DEF Raise, IInv, TypeOK
<1> QED
  BY <1>1, <1>2, <1>3, <1>4, QuietStep DEF Raise, Phases

\* Source that does not compile: its catch source is next.
LEMMA RejectedStep == IInv /\ EvalRejected => IInv'
<1> SUFFICES ASSUME IInv, EvalRejected PROVE IInv'
  OBVIOUS
<1>1. frames # <<>> /\ Top.phase = "body" /\ Len(frames) < DepthBound
  BY DEF EvalRejected, AtPhase
<1>2. Promise("catch", Top.run, Len(frames), stopReason, live')
  BY <1>1, AtTop DEF Promise
<1>3. live' \in Payloads
  BY DEF EvalRejected, IInv, TypeOK
<1> QED
  BY <1>1, <1>2, <1>3, AtTop, QuietStep DEF EvalRejected, Phases

\* A try block is entered or left.
LEMMA TryStep == IInv /\ (TryBegin \/ TryEnd) => IInv'
<1> SUFFICES ASSUME IInv, TryBegin \/ TryEnd PROVE IInv'
  OBVIOUS
<1>1. frames # <<>> /\ Top.phase = "body"
  BY DEF TryBegin, TryEnd, AtPhase
<1>2. /\ limits' = limits /\ stopReason' = stopReason /\ executed' = executed
      /\ depth' = depth /\ maxima' = maxima /\ requested' = requested
      /\ now' = now /\ inputActive' = inputActive
      /\ UNCHANGED <<state, result, live, poll>>
  BY DEF TryBegin, TryEnd, controlVars
<1>3. PICK f \in Frames :
         /\ f.kind = Top.kind /\ f.entered = Top.entered
         /\ f.phase = "after" /\ f.run = Top.run
         /\ frames' = [frames EXCEPT ![Len(frames)] = f]
  <2>1. PICK tries \in Nat :
           frames' = [frames EXCEPT ![Len(frames)].tries = tries,
                                    ![Len(frames)].phase = "after"]
    <3>1. CASE TryBegin
      <4>1. Top.tries + 1 \in Nat
        BY <1>1, AtTop DEF Frames
      <4>2. Len(frames) \in DOMAIN frames
        BY <1>1, AtTop DEF IInv, Core
      <4> QED
        BY <3>1, <4>1, <4>2 DEF TryBegin, Top
    <3>2. CASE TryEnd
      <4>1. Top.tries - 1 \in Nat
        BY <1>1, <3>2, AtTop DEF Frames, TryEnd
      <4>2. Len(frames) \in DOMAIN frames
        BY <1>1, AtTop DEF IInv, Core
      <4> QED
        BY <3>2, <4>1, <4>2 DEF TryEnd, Top
    <3> QED
      BY <3>1, <3>2
  <2> DEFINE f == [Top EXCEPT !.tries = tries, !.phase = "after"]
  <2>2. /\ f \in Frames /\ f.kind = Top.kind /\ f.entered = Top.entered
        /\ f.phase = "after" /\ f.run = Top.run
    BY <1>1, AtTop DEF Frames, Phases
  <2>3. frames' = [frames EXCEPT ![Len(frames)] = f]
    BY <1>1, <2>1, AtTop DEF Top, IInv, Core
  <2> HIDE DEF f
  <2> QED
    BY <2>2, <2>3
<1>4. Innermost(f, Len(frames), stopReason', live')
  BY <1>1, <1>2, <1>3, AtTop DEF Innermost, Promise
<1>5. limits.instructions # 0 =>
         executed' + Uncounted(f.phase, Len(frames))
             <= limits.instructions - 1 + maxima.depth
  BY <1>1, <1>2, <1>3, AtTop DEF Uncounted
<1>6. Core'
  BY <1>1, <1>2, <1>3, <1>4, <1>5, StackReplaced DEF IInv
<1>7. TypeOK'
  BY <1>2, <1>6 DEF IInv, TypeOK, Core
<1> QED
  BY <1>1, <1>2, <1>6, <1>7, Aside DEF IInv

\* An instruction is dispatched, or the control stops before it.
LEMMA DispatchStep == IInv /\ Dispatch => IInv'
<1> SUFFICES ASSUME IInv, Dispatch PROVE IInv'
  OBVIOUS
<1> DEFINE reason == IF Active THEN BeforeInstruction ELSE None
           phase == IF reason = None THEN "body" ELSE "leave"
           run == addExecutionStopDiagnostic(Top.run, reason)
<1>1. frames # <<>> /\ Top.phase = "before"
  BY DEF Dispatch, AtPhase
<1>2. /\ limits' = limits /\ executed' = executed /\ depth' = depth
      /\ maxima' = maxima /\ requested' = requested /\ now' = now
      /\ inputActive' = inputActive /\ live' = live
      /\ UNCHANGED <<state, result, live, poll>>
      /\ stopReason' = Record(reason) /\ Move(phase, run)
  BY DEF Dispatch
<1>3. reason \in StopReasons \cup {None} /\ phase \in Phases
  BY StopTypes DEF IInv, Phases
<1>4. /\ reason # None => Active
      /\ Active /\ reason = None =>
            /\ stopReason = None
            /\ limits.instructions # 0 => ~(executed >= limits.instructions)
  BY DEF BeforeInstruction, Checkpoint, None
<1> HIDE DEF reason
<1>5. /\ run \in Runs
      /\ Top.run.noted \/ reason = None => run = Top.run
      /\ ~Top.run.noted /\ reason # None =>
            run.noted /\ run.errs > 0 /\ run.terminals > 0
  BY <1>1, <1>3, AtTop, Noting
<1> HIDE DEF run
<1>6. Active => ~Top.run.noted /\ stopReason = None
  BY <1>1, AtTop DEF Promise
<1>7. Promise(phase, run, Len(frames), stopReason', live')
  BY <1>1, <1>2, <1>3, <1>4, <1>5, <1>6, AtTop
  DEF Promise, Record, StopReasons, None
<1>8. limits.instructions # 0 =>
         executed' + Uncounted(phase, Len(frames))
             <= limits.instructions - 1 + maxima.depth
  <2>1. SUFFICES ASSUME limits.instructions # 0
                 PROVE  executed + Uncounted(phase, Len(frames))
                            <= limits.instructions - 1 + maxima.depth
    BY <1>2
  <2>2. Active /\ limits.instructions \in Nat /\ executed \in Nat
    BY <1>1, <2>1, AtTop DEF Active, Limits, IInv, TypeOK
  <2>3. CASE reason = None
    <3>1. executed <= limits.instructions - 1
      BY <1>4, <2>1, <2>2, <2>3
    <3>2. Top.entered /\ depth = Len(frames)
      BY <1>1, <2>2, AtTop DEF IInv, Core, CallsBalance
    <3>3. Len(frames) <= maxima.depth /\ maxima.depth \in Nat
      BY <3>2 DEF IInv, Core, Depths, TypeOK
    <3>4. Uncounted(phase, Len(frames)) = Len(frames)
      BY <2>3 DEF Uncounted
    <3>5. Len(frames) \in Nat
      BY <1>1, AtTop
    <3> QED
      BY <2>2, <3>1, <3>3, <3>4, <3>5
  <2>4. CASE reason # None
    BY <1>1, <2>1, <2>4, AtTop DEF Uncounted
  <2> QED
    BY <2>3, <2>4
<1>9. Core'
  BY <1>1, <1>2, <1>3, <1>5, <1>7, <1>8, StackMoved DEF IInv
<1>10. stopReason' \in StopReasons \cup {None}
  BY <1>2, <1>3 DEF Record, IInv, TypeOK
<1>11. TypeOK'
  BY <1>2, <1>9, <1>10 DEF IInv, TypeOK, Core
<1> QED
  BY <1>1, <1>2, <1>9, <1>11, Aside DEF IInv

\* What it means that a call or a nested context may start.
LEMMA MayEnter ==
  ASSUME TypeOK
  PROVE  /\ ~Active => EntryStop = None /\ CallStop = None
         /\ Active /\ (EntryStop = None \/ CallStop = None) =>
               /\ stopReason = None
               /\ limits.callDepth # 0 => depth < limits.callDepth
         /\ Active /\ EntryStop = None => ~TooManyBytes(live)
         /\ ~TooManyDiagnostics(FreshRun.warns)
<1>1. depth \in Nat /\ limits.callDepth \in Nat /\ limits.diagnostics \in Nat
  BY StopTypes DEF Limits, TypeOK
<1>2. EntryStop = None \/ CallStop = None => ~Active \/ EnterCall = None
  BY DEF EntryStop, CallStop, None
<1>3. EnterCall = None =>
         /\ Checkpoint = None
         /\ limits.callDepth # 0 => depth < limits.callDepth
  BY <1>1 DEF EnterCall, None
<1>4. Checkpoint = None => stopReason = None
  BY DEF Checkpoint
<1>5. Active /\ EntryStop = None => ~TooManyBytes(live)
  BY <1>2, <1>3 DEF EntryStop, None
<1>6. ~TooManyDiagnostics(FreshRun.warns)
  BY <1>1 DEF TooManyDiagnostics, FreshRun
<1> QED
  BY <1>2, <1>3, <1>4, <1>5, <1>6 DEF EntryStop, CallStop

\* The invocation's own context starts.
LEMMA StartStep == IInv /\ Start => IInv'
<1> SUFFICES ASSUME IInv, Start PROVE IInv'
  OBVIOUS
<1>1. frames = <<>> /\ state = "idle" /\ state' = "running"
  BY DEF Start, IInv, Core, Stack
<1>2. /\ UNCHANGED <<limits, requested, now, executed, inputActive, result,
                     live, poll>>
      /\ Push("entry", FALSE, FreshRun, EntryStop)
  BY DEF Start
<1>3. /\ FreshRun \in Runs /\ FreshRun.errs = 0 /\ ~FreshRun.noted
      /\ "entry" \in Kinds /\ EntryStop \in StopReasons \cup {None}
  BY StopTypes DEF IInv, FreshRun, Runs, Kinds
<1>4. Len(frames) < DepthBound
  BY <1>1, ConstantsOK
<1>5. /\ Core' /\ stopReason' \in StopReasons \cup {None}
      /\ depth' \in 0..SizeMax
      /\ maxima' \in [depth : Nat, bytes : Nat, diags : Nat]
  BY <1>1, <1>2, <1>3, <1>4, MayEnter, StackPushed DEF IInv
<1>6. TypeOK'
  BY <1>1, <1>2, <1>5 DEF IInv, TypeOK, Core
<1>7. poll.step = "idle" /\ Cancelled' = Cancelled
  BY <1>1, <1>2 DEF IInv, Polling, AtPhase, Cancelled
<1>8. Polling' /\ LateLineDropped' /\ UncatchableStop'
  BY <1>1, <1>2, <1>7 DEF IInv, Polling, LateLineDropped, UncatchableStop
<1> QED
  BY <1>5, <1>6, <1>8 DEF IInv

\* Dynamic source starts a nested context.
LEMMA NestedPush ==
  ASSUME IInv, frames # <<>>, Top.phase \in {"body", "catch", "input"},
         NEW kind \in {"eval", "command"}, NEW catch \in BOOLEAN,
         Push(kind, catch, FreshRun, EntryStop), Len(frames) < DepthBound,
         UNCHANGED <<limits, executed, state, live>>
  PROVE  /\ Core' /\ stopReason' \in StopReasons \cup {None}
         /\ depth' \in 0..SizeMax
         /\ maxima' \in [depth : Nat, bytes : Nat, diags : Nat]
<1>1. /\ FreshRun \in Runs /\ FreshRun.errs = 0 /\ ~FreshRun.noted
      /\ kind \in Kinds /\ kind # "entry"
      /\ EntryStop \in StopReasons \cup {None}
  BY StopTypes DEF IInv, FreshRun, Runs, Kinds
<1>2. Suspended(Top) /\ Top.phase \notin {"before", "leave"}
  BY AtTop DEF Promise, Suspended
<1>3. state' = "running"
  BY AtTop
<1> QED
  BY <1>1, <1>2, <1>3, MayEnter, StackPushed DEF IInv

\* eval and its catch source.
LEMMA EvalStep == IInv /\ (EvalSource \/ EvalCatch) => IInv'
<1> SUFFICES ASSUME IInv, EvalSource \/ EvalCatch PROVE IInv'
  OBVIOUS
<1>1. /\ frames # <<>> /\ Top.phase \in {"body", "catch"}
      /\ UNCHANGED <<limits, requested, now, executed, inputActive, state,
                     result, live, poll>>
  BY DEF EvalSource, EvalCatch, AtPhase
<1>2. PICK catch \in BOOLEAN : Push("eval", catch, FreshRun, EntryStop)
  BY DEF EvalSource, EvalCatch
<1>3. Len(frames) < DepthBound
  BY <1>1, AtTop DEF EvalSource, EvalCatch, AtPhase, Promise
<1>4. /\ Core' /\ stopReason' \in StopReasons \cup {None}
      /\ depth' \in 0..SizeMax
      /\ maxima' \in [depth : Nat, bytes : Nat, diags : Nat]
  BY <1>1, <1>2, <1>3, NestedPush
<1>5. TypeOK'
  BY <1>1, <1>4 DEF IInv, TypeOK, Core
<1> QED
  BY <1>1, <1>4, <1>5, Aside DEF IInv

\* A call takes over the diagnostics of its caller's context.
LEMMA CallStep == IInv /\ CallFunction => IInv'
<1> SUFFICES ASSUME IInv, CallFunction PROVE IInv'
  OBVIOUS
<1>1. /\ frames # <<>> /\ Top.phase = "body" /\ Len(frames) < DepthBound
      /\ Push("call", FALSE, Top.run, CallStop)
      /\ UNCHANGED <<limits, requested, now, executed, inputActive, state,
                     result, live, poll>>
  BY DEF CallFunction, AtPhase
<1>2. /\ Top.run \in Runs /\ Top.run.errs = 0 /\ state' = "running"
      /\ Active => /\ ~Top.run.noted /\ ~TooManyBytes(live)
                   /\ ~TooManyDiagnostics(Top.run.warns)
  BY <1>1, AtTop DEF Promise
<1>3. Suspended(Top)
  BY <1>1, <1>2, AtTop DEF Suspended
<1>4. CallStop \in StopReasons \cup {None} /\ "call" \in Kinds
  BY StopTypes DEF IInv, Kinds
<1>5. /\ Core' /\ stopReason' \in StopReasons \cup {None}
      /\ depth' \in 0..SizeMax
      /\ maxima' \in [depth : Nat, bytes : Nat, diags : Nat]
  BY <1>1, <1>2, <1>3, <1>4, MayEnter, StackPushed DEF IInv
<1>6. TypeOK'
  BY <1>1, <1>5 DEF IInv, TypeOK, Core
<1> QED
  BY <1>1, <1>5, <1>6, Aside DEF IInv

\* The debugger stops the invocation at a statement.
LEMMA DebugStep == IInv /\ DebugStatement => IInv'
<1> SUFFICES ASSUME IInv, DebugStatement PROVE IInv'
  OBVIOUS
<1>1. PICK reason \in StopReasons, was \in Runs :
         /\ was.noted = Top.run.noted
         /\ stopReason' = reason
         /\ Move("after", addExecutionStopDiagnostic(was, reason))
  <2>1. frames # <<>>
    BY DEF DebugStatement, AtPhase
  <2>2. /\ Top.run \in Runs /\ Failed(Top.run) \in Runs
        /\ Failed(Top.run).noted = Top.run.noted
    BY <2>1, AtTop, Failing
  <2>3. Stop("Cancelled") \in StopReasons \cup {None}
    BY DEF Stop, StopReasons, IInv, TypeOK
  <2>4. Checkpoint \in StopReasons \cup {None}
    BY StopTypes DEF IInv
  <2> QED
    BY <2>2, <2>3, <2>4 DEF DebugStatement
<1>2. /\ frames # <<>> /\ Top.phase = "body" /\ Active
      /\ UNCHANGED <<limits, requested, now, executed, depth, maxima,
                     inputActive, state, result, live, poll>>
  BY DEF DebugStatement, AtPhase, Active
<1> DEFINE run == addExecutionStopDiagnostic(was, reason)
<1>3. ~was.noted /\ reason # None
  BY <1>1, <1>2, AtTop DEF Promise, StopReasons, None
<1>4. run \in Runs /\ run.noted /\ run.errs > 0 /\ run.terminals > 0
  BY <1>2, <1>3, AtTop, Noting
<1> HIDE DEF run
<1>5. Promise("after", run, Len(frames), stopReason', live')
  BY <1>1, <1>3, <1>4 DEF Promise
<1>6. limits.instructions # 0 =>
         executed' + Uncounted("after", Len(frames))
             <= limits.instructions - 1 + maxima.depth
  BY <1>2, AtTop DEF Uncounted
<1>7. Move("after", run)
  BY <1>1 DEF run
<1>8. Core'
  BY <1>2, <1>4, <1>5, <1>6, <1>7, StackMoved DEF IInv, Phases
<1>9. TypeOK'
  BY <1>1, <1>2, <1>8 DEF IInv, TypeOK, Core
<1> QED
  BY <1>2, <1>8, <1>9, Aside DEF IInv

\* An instruction ends: it is counted, and the loop goes on or out.
LEMMA AfterStep == IInv /\ AfterInstruction => IInv'
<1> SUFFICES ASSUME IInv, AfterInstruction PROVE IInv'
  OBVIOUS
<1>1. /\ frames # <<>> /\ Top.phase = "after"
      /\ UNCHANGED <<limits, requested, now, depth, inputActive, state, result,
                     live, poll>>
      /\ executed' = IF Active THEN Saturated(executed) ELSE executed
      /\ stopReason' = Record(AfterStop)
  BY DEF AfterInstruction, AtPhase
<1>2. /\ Top.run \in Runs /\ Top.entered /\ Top \in Frames
      /\ Len(frames) \in Nat \ {0}
      /\ Active /\ Top.run.noted =>
            /\ stopReason # None
            /\ Top.run.terminals > 0 /\ Top.run.errs > 0
  BY <1>1, AtTop DEF Promise
<1>3. /\ AfterStop \in StopReasons \cup {None}
      /\ AfterStop # None => Active
      /\ Active /\ AfterStop = None =>
            /\ stopReason = None
            /\ ~TooManyBytes(live)
            /\ ~TooManyDiagnostics(Top.run.warns + Top.run.errs)
  BY StopTypes DEF IInv, AfterStop, Checkpoint, None
<1>4. /\ maxima' \in [depth : Nat, bytes : Nat, diags : Nat]
      /\ maxima'.depth = maxima.depth
  <2>1. /\ live \in Nat /\ Top.run.warns + Top.run.errs \in Nat
        /\ maxima \in [depth : Nat, bytes : Nat, diags : Nat]
    <3>1. Top.run.warns \in Nat /\ Top.run.errs \in Nat
      BY <1>2 DEF Runs
    <3>2. Top.run.warns + Top.run.errs \in Nat
      BY <3>1
    <3>3. live \in Nat
      BY <1>1, AtTop
    <3>4. maxima \in [depth : Nat, bytes : Nat, diags : Nat]
      BY DEF IInv, TypeOK
    <3> QED
      BY <3>2, <3>3, <3>4
  <2> QED
    BY <2>1 DEF AfterInstruction, Larger
<1>5. executed' \in 0..SizeMax /\ executed' <= executed + 1
  BY <1>1, ConstantsOK DEF IInv, TypeOK, Saturated
<1>6. ASSUME NEW phase \in {"before", "leave"}
      PROVE  limits.instructions # 0 =>
                executed' + Uncounted(phase, Len(frames))
                    <= limits.instructions - 1 + maxima.depth
  <2>1. Uncounted(phase, Len(frames)) = Len(frames) - 1
    BY DEF Uncounted
  <2>2. executed \in Nat /\ executed' \in Nat /\ maxima.depth \in Nat
    BY <1>5 DEF IInv, TypeOK
  <2>3. limits.instructions \in Nat
    BY <1>1, AtTop DEF Limits
  <2>4. limits.instructions # 0 =>
           executed + Len(frames) <= limits.instructions - 1 + maxima.depth
    BY <1>1, AtTop DEF Uncounted
  <2> QED
    BY <1>2, <1>5, <2>1, <2>2, <2>3, <2>4
<1>7. stopReason' \in StopReasons \cup {None}
  BY <1>1, <1>3 DEF Record, IInv, TypeOK
<1>8. Core'
  <2>1. CASE AfterStop # None
    <3> DEFINE run == addExecutionStopDiagnostic(Top.run, AfterStop)
    <3>1. Move("leave", run)
      BY <2>1 DEF AfterInstruction
    <3>2. /\ run \in Runs
          /\ Top.run.noted => run = Top.run
          /\ ~Top.run.noted => run.noted /\ run.errs > 0 /\ run.terminals > 0
      BY <1>1, <1>2, <1>3, <2>1, AtTop, Noting
    <3> HIDE DEF run
    <3>3. Promise("leave", run, Len(frames), stopReason', live')
      BY <1>1, <1>2, <1>3, <2>1, <3>2 DEF Promise, Record
    <3> QED
      BY <1>1, <1>4, <1>6, <3>1, <3>2, <3>3, StackMoved DEF IInv, Phases
  <2>2. CASE AfterStop = None
    <3>1. Continue(Top.run) /\ stopReason' = stopReason
      BY <1>1, <2>2 DEF AfterInstruction, Record
    <3>2. Active => /\ stopReason' = None /\ ~Top.run.noted
                    /\ ~TooManyBytes(live')
      BY <1>1, <1>2, <1>3, <2>2, <3>1
    <3>3. Active => ~TooManyDiagnostics(Top.run.warns)
      BY <1>1, <1>2, <1>3, <2>2, AtTop DEF TooManyDiagnostics, Runs, Limits
    <3>4. ASSUME NEW phase \in {"before", "leave"}, Move(phase, Top.run),
                 phase = "before" => Top.run.errs = 0
          PROVE  Core'
      <4>1. Promise(phase, Top.run, Len(frames), stopReason', live')
        BY <3>2, <3>3, <3>4 DEF Promise
      <4> QED
        BY <1>1, <1>2, <1>4, <1>6, <3>4, <4>1, StackMoved DEF IInv, Phases
    <3>5. ASSUME Top.tries > 0,
                 frames' = [frames EXCEPT
                     ![Len(frames)].tries = @ - 1,
                     ![Len(frames)].phase = "before",
                     ![Len(frames)].run =
                         [Top.run EXCEPT !.errs = 0, !.terminals = 0]]
          PROVE  Core'
      <4> DEFINE run == [Top.run EXCEPT !.errs = 0, !.terminals = 0]
                 tries == Top.tries - 1
                 f == [Top EXCEPT !.tries = tries, !.phase = "before",
                                  !.run = run]
      <4>1. /\ run \in Runs /\ run.errs = 0 /\ run.noted = Top.run.noted
            /\ run.warns = Top.run.warns
        BY <1>2 DEF Runs
      <4>2. tries \in Nat
        BY <1>2, <3>5 DEF Frames
      <4>3. Len(frames) \in DOMAIN frames /\ frames \in Seq(Frames)
        BY <1>2 DEF IInv, Core
      <4>4. frames' = [frames EXCEPT ![Len(frames)] = f]
        BY <1>2, <3>5, <4>3 DEF Top
      <4> HIDE DEF run, tries
      <4>5. /\ f \in Frames /\ f.kind = Top.kind /\ f.entered = Top.entered
            /\ f.phase = "before" /\ f.run = run
        BY <1>2, <4>1, <4>2 DEF Frames, Phases
      <4> HIDE DEF f
      <4>6. Innermost(f, Len(frames), stopReason', live')
        BY <1>2, <3>2, <3>3, <4>1, <4>5 DEF Innermost, Promise,
           TooManyDiagnostics
      <4>7. limits.instructions # 0 =>
               executed' + Uncounted(f.phase, Len(frames))
                   <= limits.instructions - 1 + maxima.depth
        BY <1>6, <4>5
      <4> QED
        BY <1>1, <1>4, <4>4, <4>5, <4>6, <4>7, StackReplaced DEF IInv
    <3> QED
      BY <3>1, <3>4, <3>5 DEF Continue
  <2> QED
    BY <2>1, <2>2
<1>9. TypeOK'
  BY <1>1, <1>4, <1>5, <1>7, <1>8 DEF IInv, TypeOK, Core
<1> QED
  BY <1>1, <1>8, <1>9, Aside DEF IInv

\* A frame that leaves, other than the invocation's own, has a caller that
\* waits with no terminal diagnostic; when the control stopped, the frame
\* carries one.
LEMMA AtLeave ==
  ASSUME IInv, NEW kind \in Kinds, Leaving(kind)
  PROVE  /\ AtPhase("leave") /\ frames # <<>>
         /\ kind # "entry" => Len(frames) > 1
         /\ kind = "entry" => Len(frames) = 1
         /\ Len(frames) > 1 => Caller.run \in Runs
         /\ Active /\ Len(frames) > 1 => ~Caller.run.noted
         /\ depth' = LeftDepth(Top) /\ Top.run \in Runs
         /\ Active /\ stopReason # None => Top.run.noted
         /\ Active /\ Top.run.noted =>
               /\ stopReason # None
               /\ Top.run.terminals > 0 /\ Top.run.errs > 0
         /\ UNCHANGED <<limits, requested, now, executed, live>>
<1>1. /\ frames # <<>> /\ Top.phase = "leave" /\ Top.kind = kind
      /\ depth' = LeftDepth(Top)
      /\ UNCHANGED <<limits, requested, now, executed, live>>
  BY DEF Leaving, AtPhase
<1>2. frames \in Seq(Frames) /\ Len(frames) \in Nat \ {0}
  BY <1>1 DEF IInv, Core
<1>3. kind = "entry" <=> Len(frames) = 1
  <2>1. Len(frames) \in 1..Len(frames)
    BY <1>2
  <2>2. frames[Len(frames)].kind = "entry" <=> Len(frames) = 1
    BY <2>1 DEF IInv, Core, Stack
  <2> QED
    BY <1>1, <2>2 DEF Top
<1>4. ASSUME Len(frames) > 1
      PROVE  Caller.run \in Runs /\ (Active => ~Caller.run.noted)
  <2>1. Len(frames) - 1 \in 1..Len(frames) /\ Len(frames) - 1 < Len(frames)
    BY <1>2, <1>4
  <2>2. Caller \in Frames
    BY <1>2, <2>1 DEF Caller
  <2>3. Suspended(Caller)
    BY <2>1 DEF IInv, Core, Stack, Caller
  <2> QED
    BY <2>2, <2>3 DEF Frames, Suspended
<1>5. Top.run \in Runs /\ (Active /\ stopReason # None => Top.run.noted)
  BY <1>1, AtTop DEF Promise
<1>6. Active /\ Top.run.noted => /\ stopReason # None
                                 /\ Top.run.terminals > 0 /\ Top.run.errs > 0
  BY <1>1, AtTop DEF Promise
<1>7. kind # "entry" => Len(frames) > 1
  BY <1>2, <1>3
<1>8. AtPhase("leave")
  BY <1>1 DEF AtPhase
<1> QED
  BY <1>1, <1>3, <1>4, <1>5, <1>6, <1>7, <1>8

\* The invocation is over.
LEMMA LeaveEntryStep == IInv /\ LeaveEntry => IInv'
<1> SUFFICES ASSUME IInv, LeaveEntry PROVE IInv'
  OBVIOUS
<1>1. /\ Leaving("entry") /\ state' = "done" /\ frames' = <<>>
      /\ result' = Top.run
      /\ UNCHANGED <<stopReason, maxima, inputActive, poll>>
  BY DEF LeaveEntry
<1>2. /\ frames # <<>> /\ Top.phase = "leave" /\ Len(frames) = 1
      /\ Top.run \in Runs /\ depth' = LeftDepth(Top)
      /\ Active /\ stopReason # None => Top.run.terminals > 0
      /\ UNCHANGED <<limits, requested, now, executed, live>>
  BY <1>1, AtLeave DEF Kinds, AtPhase
<1>3. /\ Len(<<>>) = 0 /\ frames' \in Seq(Frames)
  BY <1>1
<1>4. Stack'
  BY <1>1, <1>3, ConstantsOK DEF Stack
<1>5. depth' = 0
  BY <1>2 DEF LeftDepth, IInv, Core, CallsBalance
<1>6. CallsBalance' /\ Depths'
  BY <1>1, <1>2, <1>5 DEF CallsBalance, Depths, IInv, Core, TypeOK
<1>7. Budget'
  BY <1>1, <1>2, AtTop DEF Budget, Uncounted
<1>8. TypeOK'
  BY <1>1, <1>2, <1>3, <1>5, ConstantsOK DEF IInv, TypeOK
<1>9. poll.step = "idle" /\ Cancelled' = Cancelled /\ Active' = Active
  BY <1>1, <1>2 DEF IInv, Polling, AtPhase, Cancelled, Active
<1>10. Polling' /\ LateLineDropped' /\ UncatchableStop'
  BY <1>1, <1>2, <1>9 DEF IInv, Polling, LateLineDropped, UncatchableStop
<1> QED
  BY <1>3, <1>4, <1>6, <1>7, <1>8, <1>10 DEF IInv, Core

\* A call hands the diagnostics of its context back.
LEMMA LeaveCallStep == IInv /\ LeaveCall => IInv'
<1> SUFFICES ASSUME IInv, LeaveCall PROVE IInv'
  OBVIOUS
<1>1. /\ Leaving("call") /\ PopTo("after", Top.run)
      /\ UNCHANGED <<stopReason, maxima, inputActive, state, result, poll>>
  BY DEF LeaveCall
<1>2. /\ AtPhase("leave") /\ frames # <<>> /\ Len(frames) > 1
      /\ Top.run \in Runs /\ depth' = LeftDepth(Top)
      /\ Active /\ Top.run.noted =>
            /\ stopReason # None
            /\ Top.run.terminals > 0 /\ Top.run.errs > 0
      /\ UNCHANGED <<limits, requested, now, executed, live>>
  BY <1>1, AtLeave DEF Kinds
<1>3. Promise("after", Top.run, Len(frames) - 1, stopReason', live)
  BY <1>1, <1>2 DEF Promise
<1>4. Core' /\ depth' \in 0..SizeMax
  BY <1>1, <1>2, <1>3, StackPopped DEF IInv
<1>5. TypeOK'
  BY <1>1, <1>2, <1>4 DEF IInv, TypeOK, Core
<1>6. Top.phase # "input"
  BY <1>2 DEF AtPhase
<1> QED
  BY <1>1, <1>2, <1>4, <1>5, <1>6, Aside DEF IInv

\* The diagnostics of two contexts together.
LEMMA Adding ==
  ASSUME NEW a \in Runs, NEW b \in Runs
  PROVE  LET sum == [a EXCEPT !.warns = @ + b.warns, !.errs = @ + b.errs,
                              !.terminals = @ + b.terminals]
         IN  sum \in Runs /\ sum.noted = a.noted
<1> DEFINE warns == a.warns + b.warns
           errs == a.errs + b.errs
           terminals == a.terminals + b.terminals
<1>1. /\ a.warns \in Nat /\ a.errs \in Nat /\ a.terminals \in Nat
      /\ b.warns \in Nat /\ b.errs \in Nat /\ b.terminals \in Nat
  BY DEF Runs
<1>2. warns \in Nat /\ errs \in Nat /\ terminals \in Nat
  BY <1>1
<1> HIDE DEF warns, errs, terminals
<1>3. LET sum == [a EXCEPT !.warns = warns, !.errs = errs,
                           !.terminals = terminals]
      IN  sum \in Runs /\ sum.noted = a.noted
  BY <1>2 DEF Runs
<1> QED
  BY <1>3 DEF warns, errs, terminals

\* A nested context is merged into its caller's, which has no terminal
\* diagnostic of its own: the stop is told again after this instruction.
LEMMA LeaveEvalStep == IInv /\ LeaveEval => IInv'
<1> SUFFICES ASSUME IInv, LeaveEval PROVE IInv'
  OBVIOUS
<1>1. /\ Leaving("eval")
      /\ UNCHANGED <<stopReason, maxima, inputActive, state, result, poll>>
  BY DEF LeaveEval
<1>2. /\ AtPhase("leave") /\ frames # <<>> /\ Len(frames) > 1
      /\ Top.run \in Runs /\ depth' = LeftDepth(Top) /\ Caller.run \in Runs
      /\ Active => ~Caller.run.noted
      /\ UNCHANGED <<limits, requested, now, executed, live>>
  BY <1>1, AtLeave DEF Kinds
<1>3. ASSUME NEW run \in Runs
      PROVE  Merged(run) \in Runs /\ Merged(run).noted = Caller.run.noted
  BY <1>2, Adding DEF Merged
<1>4. PICK phase \in {"after", "catch"}, run \in Runs :
         PopTo(phase, run) /\ (Active => ~run.noted)
  <2>1. [Top.run EXCEPT !.errs = 0, !.terminals = 0] \in Runs
    BY <1>2 DEF Runs
  <2> QED
    BY <1>2, <1>3, <2>1 DEF LeaveEval
<1>5. Promise(phase, run, Len(frames) - 1, stopReason', live)
  <2>1. Len(frames) - 1 < DepthBound
    BY <1>2, AtTop, ConstantsOK
  <2> QED
    BY <1>4, <2>1 DEF Promise
<1>6. Core' /\ depth' \in 0..SizeMax
  BY <1>1, <1>2, <1>4, <1>5, StackPopped DEF IInv
<1>7. TypeOK'
  BY <1>1, <1>2, <1>6 DEF IInv, TypeOK, Core
<1>8. Top.phase # "input"
  BY <1>2 DEF AtPhase
<1> QED
  BY <1>1, <1>2, <1>6, <1>7, <1>8, Aside DEF IInv

\* The values of poll before and while the host is asked.
LEMMA PollTypes ==
  /\ NoPoll \in [step : PollSteps, answer : Answers, bytes : Payloads,
                 late : BOOLEAN]
  /\ [NoPoll EXCEPT !.step = "check"] \in
        [step : PollSteps, answer : Answers, bytes : Payloads, late : BOOLEAN]
<1>1. NoPoll \in [step : PollSteps, answer : Answers, bytes : Payloads,
                  late : BOOLEAN]
  BY ConstantsOK DEF NoPoll, PollSteps, Answers
<1>2. "check" \in PollSteps
  BY DEF PollSteps
<1> QED
  BY <1>1, <1>2

\* A keyboard command is over: its context is dropped, errors were shown.
LEMMA LeaveCommandStep == IInv /\ LeaveCommand => IInv'
<1> SUFFICES ASSUME IInv, LeaveCommand PROVE IInv'
  OBVIOUS
<1>1. /\ Leaving("command")
      /\ stopReason' = IF Top.run.errs > 0 THEN Checkpoint ELSE stopReason
      /\ UNCHANGED <<maxima, state, result>>
  BY DEF LeaveCommand
<1>2. /\ AtPhase("leave") /\ frames # <<>> /\ Len(frames) > 1
      /\ Top.run \in Runs /\ depth' = LeftDepth(Top) /\ Caller.run \in Runs
      /\ Active => ~Caller.run.noted
      /\ Active /\ stopReason # None => Top.run.errs > 0
      /\ UNCHANGED <<limits, requested, now, executed, live>>
  BY <1>1, AtLeave DEF Kinds
<1>3. PICK phase \in {"after", "input"}, run \in Runs :
         /\ PopTo(phase, run) /\ (Active => ~run.noted)
         /\ phase = "after" => EndPoll
         /\ phase = "input" =>
               BeginPoll /\ (Top.run.errs = 0 \/ Checkpoint = None)
  <2>1. /\ Failed(Caller.run) \in Runs
        /\ Failed(Caller.run).noted = Caller.run.noted
    BY <1>2, Failing
  <2> QED
    BY <1>2, <2>1 DEF LeaveCommand
<1>4. phase = "input" => (Active => stopReason' = None)
  <2>1. Checkpoint = None => stopReason = None
    BY DEF Checkpoint
  <2>2. Top.run.errs = 0 => ~(Top.run.errs > 0)
    OBVIOUS
  <2> QED
    BY <1>1, <1>2, <1>3, <2>1, <2>2
<1>5. Promise(phase, run, Len(frames) - 1, stopReason', live)
  BY <1>3, <1>4 DEF Promise
<1>6. /\ Core' /\ depth' \in 0..SizeMax
      /\ frames' # <<>> /\ Top'.phase = phase
  BY <1>1, <1>2, <1>3, <1>5, StackPopped DEF IInv
<1>7. /\ stopReason' \in StopReasons \cup {None}
      /\ inputActive' \in BOOLEAN
      /\ poll' \in [step : PollSteps, answer : Answers, bytes : Payloads,
                    late : BOOLEAN]
  <2>1. stopReason' \in StopReasons \cup {None}
    BY <1>1, StopTypes DEF IInv, TypeOK
  <2>2. /\ inputActive' \in BOOLEAN
        /\ poll' = NoPoll \/ poll' = [NoPoll EXCEPT !.step = "check"]
    BY <1>3 DEF BeginPoll, EndPoll
  <2>3. poll' \in [step : PollSteps, answer : Answers, bytes : Payloads,
                   late : BOOLEAN]
    BY <2>2, PollTypes
  <2> QED
    BY <2>1, <2>2, <2>3
<1>8. TypeOK'
  BY <1>1, <1>2, <1>6, <1>7 DEF IInv, TypeOK, Core
<1>9. Polling' /\ LateLineDropped'
  BY <1>3, <1>6 DEF Polling, LateLineDropped, AtPhase, BeginPoll, EndPoll,
     NoPoll
<1>10. UncatchableStop'
  BY <1>1, <1>2, AtTop DEF UncatchableStop
<1> QED
  BY <1>6, <1>8, <1>9, <1>10 DEF IInv

\* A step of input that leaves the frames alone.
LEMMA PollStep ==
  ASSUME IInv, AtPhase("input"), InputUnchanged,
         UNCHANGED <<frames, stopReason>>, maxima' \in [depth : Nat,
         bytes : Nat, diags : Nat], maxima'.depth = maxima.depth,
         inputActive' \in BOOLEAN,
         poll' \in [step : PollSteps, answer : Answers, bytes : Payloads,
                    late : BOOLEAN],
         poll'.late => Cancelled,
         poll'.step = "delivered" => ~poll'.late /\ stopReason = None
  PROVE  IInv'
<1>1. UNCHANGED <<limits, requested, now, executed, depth, state, result, live>>
  BY DEF InputUnchanged
<1>2. Core'
  BY <1>1, CoreKept DEF IInv
<1>3. TypeOK'
  BY <1>1, <1>2 DEF IInv, TypeOK, Core
<1>4. Polling' /\ LateLineDropped'
  BY <1>1 DEF Polling, LateLineDropped, AtPhase, Top, Cancelled
<1>5. UncatchableStop'
  BY <1>1, AtTop DEF UncatchableStop, AtPhase
<1> QED
  BY <1>2, <1>3, <1>4, <1>5 DEF IInv

\* A step that ends input.
LEMMA InputEnds ==
  ASSUME IInv, AtPhase("input"), InputUnchanged,
         NEW succeeded \in BOOLEAN, EndInput(succeeded),
         stopReason' \in StopReasons \cup {None},
         maxima' \in [depth : Nat, bytes : Nat, diags : Nat],
         maxima'.depth = maxima.depth
  PROVE  IInv'
<1>1. /\ UNCHANGED <<limits, requested, now, executed, depth, state, result,
                     live>>
      /\ poll' = NoPoll /\ inputActive' = FALSE
  BY DEF InputUnchanged, EndInput, EndPoll
<1>2. frames # <<>> /\ Top.phase = "input"
  BY DEF AtPhase
<1>3. PICK run \in Runs : Move("after", run) /\ run.noted = Top.run.noted
  <2>1. /\ Top.run \in Runs /\ Failed(Top.run) \in Runs
        /\ Failed(Top.run).noted = Top.run.noted
    BY <1>2, AtTop, Failing
  <2> QED
    BY <2>1 DEF EndInput
<1>4. Promise("after", run, Len(frames), stopReason', live')
  BY <1>2, <1>3, AtTop DEF Promise
<1>5. limits.instructions # 0 =>
         executed' + Uncounted("after", Len(frames))
             <= limits.instructions - 1 + maxima.depth
  BY <1>1, <1>2, AtTop DEF Uncounted
<1>6. Core'
  BY <1>1, <1>2, <1>3, <1>4, <1>5, StackMoved DEF IInv, Phases
<1>7. poll' \in [step : PollSteps, answer : Answers, bytes : Payloads,
                 late : BOOLEAN]
  BY <1>1, PollTypes
<1>8. TypeOK'
  BY <1>1, <1>6, <1>7 DEF IInv, TypeOK, Core
<1>9. Polling' /\ LateLineDropped'
  BY <1>1 DEF Polling, LateLineDropped, NoPoll
<1>10. UncatchableStop'
  BY <1>1, <1>2, AtTop DEF UncatchableStop
<1> QED
  BY <1>6, <1>8, <1>9, <1>10 DEF IInv

\* input or keyboard starts to ask.
LEMMA InteractStep == IInv /\ Interact => IInv'
<1> SUFFICES ASSUME IInv, Interact PROVE IInv'
  OBVIOUS
<1>1. /\ UNCHANGED <<limits, requested, now, executed, depth, state, result,
                     live, stopReason, maxima>>
      /\ frames # <<>> /\ Top.phase = "body"
      /\ poll' = [NoPoll EXCEPT !.step = "check"] /\ inputActive' = TRUE
      /\ Move("input", Top.run)
  BY DEF InputUnchanged, Interact, BeginPoll, AtPhase
<1>2. Promise("input", Top.run, Len(frames), stopReason', live')
  BY <1>1, AtTop DEF Promise
<1>3. limits.instructions # 0 =>
         executed' + Uncounted("input", Len(frames))
             <= limits.instructions - 1 + maxima.depth
  BY <1>1, AtTop DEF Uncounted
<1>4. Core' /\ frames' # <<>> /\ Top'.phase = "input"
  BY <1>1, <1>2, <1>3, AtTop, StackMoved DEF IInv, Phases
<1>5. poll' \in [step : PollSteps, answer : Answers, bytes : Payloads,
                 late : BOOLEAN]
  BY <1>1, PollTypes
<1>6. TypeOK'
  BY <1>1, <1>4, <1>5 DEF IInv, TypeOK, Core
<1>7. Polling' /\ LateLineDropped'
  BY <1>1, <1>4 DEF Polling, LateLineDropped, AtPhase, NoPoll
<1>8. UncatchableStop'
  BY <1>1, AtTop DEF UncatchableStop
<1> QED
  BY <1>4, <1>6, <1>7, <1>8 DEF IInv

\* The polls of the host: a line is delivered only if the checkpoint after
\* the callback found no stop, so none was late.
LEMMA AskStep ==
  IInv /\ (PollCheck \/ HostAnswers \/ PollAnswer \/ Resume \/ BlankCommand
              \/ Quit) => IInv'
<1> SUFFICES ASSUME IInv PROVE PollCheck \/ HostAnswers \/ PollAnswer \/ Resume
                                  \/ BlankCommand \/ Quit => IInv'
  OBVIOUS
<1>1. /\ maxima \in [depth : Nat, bytes : Nat, diags : Nat]
      /\ inputActive \in BOOLEAN
      /\ stopReason \in StopReasons \cup {None}
      /\ Checkpoint \in StopReasons \cup {None}
      /\ Checkpoint = None => stopReason = None /\ ~Cancelled
  BY StopTypes DEF IInv, TypeOK, Checkpoint, None
<1>2. /\ poll \in [step : PollSteps, answer : Answers, bytes : Payloads,
                   late : BOOLEAN]
      /\ NoPoll \in [step : PollSteps, answer : Answers, bytes : Payloads,
                     late : BOOLEAN]
      /\ poll.late => Cancelled
  BY ConstantsOK DEF IInv, TypeOK, Polling, NoPoll, PollSteps, Answers
<1>3. /\ [NoPoll EXCEPT !.step = "check"] \in
            [step : PollSteps, answer : Answers, bytes : Payloads,
             late : BOOLEAN]
      /\ [NoPoll EXCEPT !.step = "check"].step = "check"
      /\ ~[NoPoll EXCEPT !.step = "check"].late
  BY <1>2 DEF NoPoll, PollSteps
<1>4. ASSUME AtPhase("input"), InputUnchanged, BeginPoll,
             UNCHANGED <<frames, stopReason>>,
             maxima' \in [depth : Nat, bytes : Nat, diags : Nat],
             maxima'.depth = maxima.depth
      PROVE  IInv'
  BY <1>3, <1>4, PollStep DEF BeginPoll
<1>5. CASE PollCheck
  <2>1. /\ AtPhase("input") /\ InputUnchanged /\ maxima' = maxima
        /\ stopReason' = Checkpoint
    BY <1>5 DEF PollCheck, AtPoll
  <2>2. CASE Checkpoint = None
    <3>1. /\ poll' = [poll EXCEPT !.step = "callback"]
          /\ UNCHANGED <<inputActive, frames>>
      BY <1>5, <2>2 DEF PollCheck
    <3>2. /\ poll' \in [step : PollSteps, answer : Answers, bytes : Payloads,
                        late : BOOLEAN]
          /\ poll'.step = "callback" /\ poll'.late = poll.late
      BY <1>2, <3>1 DEF PollSteps
    <3> QED
      BY <1>1, <1>2, <2>1, <2>2, <3>1, <3>2, PollStep
  <2>3. CASE Checkpoint # None
    <3>1. EndInput(FALSE)
      BY <1>5, <2>3 DEF PollCheck
    <3> QED
      BY <1>1, <2>1, <3>1, InputEnds
  <2> QED
    BY <2>2, <2>3
<1>6. CASE HostAnswers
  <2>1. /\ AtPhase("input") /\ InputUnchanged
        /\ UNCHANGED <<stopReason, maxima, inputActive, frames>>
    BY <1>6 DEF HostAnswers, AtPoll
  <2>2. PICK answer \in Answers, bytes \in Payloads :
           poll' = [step |-> "answered", answer |-> answer, bytes |-> bytes,
                    late |-> Cancelled]
    BY <1>6 DEF HostAnswers
  <2>3. Cancelled \in BOOLEAN
    BY DEF Cancelled
  <2>4. /\ poll' \in [step : PollSteps, answer : Answers, bytes : Payloads,
                      late : BOOLEAN]
        /\ poll'.step = "answered" /\ poll'.late = Cancelled
    BY <2>2, <2>3 DEF PollSteps
  <2> QED
    BY <1>1, <2>1, <2>4, PollStep
<1>7. CASE PollAnswer
  <2>1. AtPhase("input") /\ InputUnchanged /\ AnswerCheck = Checkpoint
    BY <1>7 DEF PollAnswer, AtPoll, AnswerCheck
  <2>2. poll.bytes \in Nat /\ ObserveBytes(poll.bytes) \in
           [depth : Nat, bytes : Nat, diags : Nat]
    BY <1>1, <1>2, ConstantsOK DEF ObserveBytes, Larger
  <2>3. ObserveBytes(poll.bytes).depth = maxima.depth
    BY <1>1 DEF ObserveBytes
  <2>4. /\ maxima' \in [depth : Nat, bytes : Nat, diags : Nat]
        /\ maxima'.depth = maxima.depth
    BY <1>1, <1>7, <2>2, <2>3 DEF PollAnswer
  <2>5. stopReason' \in StopReasons \cup {None}
    BY <1>1, <1>7, <2>1 DEF PollAnswer, StopReasons
  <2>6. CASE EndInput(FALSE)
    BY <2>1, <2>4, <2>5, <2>6, InputEnds
  <2>7. CASE /\ Checkpoint = None /\ BeginPoll /\ UNCHANGED frames
             /\ poll.answer = "pending"
    <3>1. stopReason' = stopReason
      BY <1>1, <1>7, <2>1, <2>7 DEF PollAnswer
    <3> QED
      BY <1>4, <2>1, <2>4, <2>7, <3>1
  <2>8. CASE /\ Checkpoint = None /\ ~TooManyBytes(poll.bytes)
             /\ poll.answer = "line"
             /\ poll' = [poll EXCEPT !.step = "delivered"]
             /\ inputActive' = FALSE /\ UNCHANGED frames
    <3>1. stopReason' = stopReason
      BY <1>1, <1>7, <2>1, <2>8 DEF PollAnswer
    <3>2. /\ poll' \in [step : PollSteps, answer : Answers, bytes : Payloads,
                        late : BOOLEAN]
          /\ poll'.late = poll.late
      BY <1>2, <2>8 DEF PollSteps
    <3> QED
      BY <1>1, <1>2, <2>1, <2>4, <2>8, <3>1, <3>2, PollStep
  <2> QED
    BY <1>7, <2>1, <2>6, <2>7, <2>8 DEF PollAnswer
<1>8. CASE Resume
  BY <1>1, <1>8, InputEnds DEF Resume, AtPoll
<1>9. CASE BlankCommand
  BY <1>1, <1>4, <1>9 DEF BlankCommand, AtPoll
<1>10. CASE Quit
  <2>1. Stop("Cancelled") \in StopReasons \cup {None}
    BY <1>1 DEF Stop, StopReasons
  <2> QED
    BY <1>1, <1>10, <2>1, InputEnds DEF Quit, AtPoll
<1> QED
  BY <1>5, <1>6, <1>7, <1>8, <1>9, <1>10

\* A line is evaluated in a context of its own.
LEMMA EvaluateStep == IInv /\ EvaluateLine => IInv'
<1> SUFFICES ASSUME IInv, EvaluateLine PROVE IInv'
  OBVIOUS
<1>1. /\ frames # <<>> /\ Top.phase = "input" /\ Len(frames) < DepthBound
      /\ poll' = NoPoll /\ Push("command", FALSE, FreshRun, EntryStop)
      /\ UNCHANGED <<limits, requested, now, executed, inputActive, state,
                     result, live>>
  BY DEF EvaluateLine, AtPoll, AtPhase
<1>2. /\ Core' /\ stopReason' \in StopReasons \cup {None}
      /\ depth' \in 0..SizeMax
      /\ maxima' \in [depth : Nat, bytes : Nat, diags : Nat]
  BY <1>1, NestedPush
<1>3. poll' \in [step : PollSteps, answer : Answers, bytes : Payloads,
                 late : BOOLEAN]
  BY <1>1, PollTypes
<1>4. TypeOK'
  BY <1>1, <1>2, <1>3 DEF IInv, TypeOK, Core
<1>5. Polling' /\ LateLineDropped'
  BY <1>1 DEF Polling, LateLineDropped, NoPoll
<1>6. UncatchableStop'
  BY <1>1, AtTop DEF UncatchableStop
<1> QED
  BY <1>2, <1>4, <1>5, <1>6 DEF IInv

-----------------------------------------------------------------------------
\* The invariant is inductive.
LEMMA Induction ==
  /\ Init => IInv
  /\ IInv /\ [Next]_vars => IInv'
<1>1. Init => IInv
  <2> SUFFICES ASSUME Init PROVE IInv
    OBVIOUS
  <2>1. /\ frames = <<>> /\ frames \in Seq(Frames) /\ Len(frames) = 0
        /\ state = "idle" /\ depth = 0 /\ executed = 0 /\ stopReason = None
        /\ maxima = [depth |-> 0, bytes |-> 0, diags |-> 0]
        /\ poll = NoPoll /\ result = FreshRun
        /\ limits \in LimitChoices /\ limits \in Limits
    BY ConstantsOK DEF Init
  <2>2. TypeOK
    <3>1. poll \in [step : PollSteps, answer : Answers, bytes : Payloads,
                    late : BOOLEAN]
      BY <2>1, PollTypes
    <3>2. result \in Runs
      BY <2>1 DEF FreshRun, Runs
    <3>3. /\ 0 \in 0..ClockBound /\ 0 \in 0..SizeMax
          /\ [depth |-> 0, bytes |-> 0, diags |-> 0] \in
                [depth : Nat, bytes : Nat, diags : Nat]
      BY ConstantsOK
    <3> QED
      BY <2>1, <3>1, <3>2, <3>3 DEF Init, TypeOK
  <2>3. Stack
    BY <2>1, ConstantsOK DEF Stack
  <2>4. CallsBalance /\ Depths
    BY <2>1 DEF CallsBalance, Depths, Limits
  <2>5. Budget
    BY <2>1 DEF Budget, Limits
  <2>6. Polling /\ LateLineDropped /\ UncatchableStop
    BY <2>1 DEF Polling, LateLineDropped, UncatchableStop, NoPoll
  <2> QED
    BY <2>1, <2>2, <2>3, <2>4, <2>5, <2>6 DEF IInv, Core
<1>2. IInv /\ [Next]_vars => IInv'
  <2> SUFFICES ASSUME IInv, [Next]_vars PROVE IInv'
    OBVIOUS
  <2>1. ASSUME UNCHANGED <<limits, stopReason, executed, depth, maxima,
                           inputActive, state, frames, result, live, poll>>,
               now' \in 0..ClockBound, requested' \in BOOLEAN,
               requested => requested'
        PROVE  IInv'
    <3>1. Core'
      BY <2>1, CoreKept DEF IInv
    <3>2. TypeOK'
      BY <2>1 DEF IInv, TypeOK
    <3>3. Polling' /\ LateLineDropped' /\ UncatchableStop'
      BY <2>1 DEF IInv, Polling, LateLineDropped, UncatchableStop, Cancelled,
         AtPhase, Top, Active
    <3> QED
      BY <3>1, <3>2, <3>3 DEF IInv
  <2>2. CASE RequestCancellation
    BY <2>1, <2>2 DEF RequestCancellation, vmVars, IInv, TypeOK
  <2>3. CASE Tick
    <3>1. now' \in 0..ClockBound
      BY <2>3, ConstantsOK DEF Tick, IInv, TypeOK
    <3> QED
      BY <2>1, <2>3, <3>1 DEF Tick, vmVars, IInv, TypeOK
  <2>4. CASE Terminated \/ UNCHANGED vars
    BY <2>1, <2>4 DEF Terminated, vars, IInv, TypeOK
  <2>5. CASE VmStep
    BY <2>5, StartStep, DispatchStep, ComputeStep, RaiseStep, TryStep,
       DebugStep, CallStep, EvalStep, RejectedStep, AfterStep, LeaveEntryStep,
       LeaveCallStep, LeaveEvalStep, LeaveCommandStep DEF VmStep
  <2>6. CASE InputStep
    BY <2>6, InteractStep, AskStep, EvaluateStep DEF InputStep
  <2> QED
    BY <2>2, <2>3, <2>4, <2>5, <2>6 DEF Next
<1> QED
  BY <1>1, <1>2

\* The inductive invariant holds in every state of every invocation.
THEOREM Invariance == Spec => []IInv
BY Induction, PTL DEF Spec

\* TypeOK: the counters stay within the width of size_t.
THEOREM TypeCorrect == Spec => []TypeOK
<1>1. IInv => TypeOK
  BY DEF IInv
<1> QED
  BY <1>1, Invariance, PTL

\* CallsBalance: every call entered is left, on every path out of it.
THEOREM Balance == Spec => []CallsBalance
<1>1. IInv => CallsBalance
  BY DEF IInv, Core
<1> QED
  BY <1>1, Invariance, PTL

\* BudgetOverrun: the count passes the limit at most by the nesting reached.
THEOREM Overrun == Spec => []BudgetOverrun
<1>1. IInv => BudgetOverrun
  <2> SUFFICES ASSUME IInv, limits.instructions # 0
               PROVE  executed <= limits.instructions
                                      + Larger(maxima.depth, 1) - 1
    BY DEF BudgetOverrun
  <2>1. /\ executed \in Nat /\ maxima.depth \in Nat
        /\ limits.instructions \in Nat
    BY StopTypes DEF IInv, TypeOK, Limits
  <2>2. executed <= limits.instructions - 1 + maxima.depth
    <3>1. CASE frames = <<>>
      BY <2>1, <3>1 DEF IInv, Core, Budget
    <3>2. CASE frames # <<>>
      <4>1. Uncounted(Top.phase, Len(frames)) \in Nat
        BY <3>2, AtTop DEF Uncounted
      <4> QED
        BY <2>1, <3>2, <4>1, AtTop
    <3> QED
      BY <3>1, <3>2
  <2> QED
    BY <2>1, <2>2 DEF Larger
<1> QED
  BY <1>1, Invariance, PTL

\* DispatchWithinBudgets: no instruction is dispatched over a budget.
THEOREM Dispatching == Spec => []DispatchWithinBudgets
<1>1. IInv => DispatchWithinBudgets
  BY AtTop DEF DispatchWithinBudgets, StoppedRunsNothing, AtPhase, Promise
<1> QED
  BY <1>1, Invariance, PTL

\* UncatchableStop: no script hides that it was stopped.
THEOREM Uncatchable == Spec => []UncatchableStop
<1>1. IInv => UncatchableStop
  BY DEF IInv
<1> QED
  BY <1>1, Invariance, PTL

\* LateLineDropped: a line that loses the race with cancellation is not used.
THEOREM Late == Spec => []LateLineDropped
<1>1. IInv => LateLineDropped
  BY DEF IInv
<1> QED
  BY <1>1, Invariance, PTL

\* FirstReasonWins for every invocation: each operation of the control that
\* finds a stop reason returns that reason, and stop() keeps the first.
THEOREM FirstReason == Spec => FirstReasonWins
<1>1. ASSUME Next, stopReason # None
      PROVE  stopReason' = stopReason
  <2> USE <1>1
  <2>1. /\ Checkpoint = stopReason
        /\ EnterCall = stopReason
        /\ BeforeInstruction = stopReason
        /\ AnswerCheck = stopReason
        /\ Stop("Cancelled") = stopReason
        /\ Record(EntryStop) = stopReason
        /\ Record(CallStop) = stopReason
        /\ Record(AfterStop) = stopReason
        /\ Record(IF Active THEN BeforeInstruction ELSE None) = stopReason
    BY DEF Checkpoint, EnterCall, BeforeInstruction, AnswerCheck, Stop,
       Record, EntryStop, CallStop, AfterStop
  <2>2. CASE VmStep
    BY <2>1, <2>2 DEF VmStep, Start, Dispatch, Compute, Raise, TryBegin,
       TryEnd, DebugStatement, CallFunction, EvalSource, EvalRejected,
       EvalCatch, AfterInstruction, LeaveEntry, LeaveCall, LeaveEval,
       LeaveCommand, Push, controlVars
  <2>3. CASE InputStep
    BY <2>1, <2>3 DEF InputStep, Interact, PollCheck, HostAnswers, PollAnswer,
       Resume, BlankCommand, Quit, EvaluateLine, Push
  <2>4. CASE RequestCancellation \/ Tick \/ Terminated
    BY <2>4 DEF RequestCancellation, Tick, Terminated, vars
  <2> QED
    BY <2>2, <2>3, <2>4 DEF Next
<1>2. [Next]_vars => [stopReason # None => stopReason' = stopReason]_vars
  BY <1>1
<1> QED
  BY <1>2, PTL DEF Spec, FirstReasonWins
=============================================================================
