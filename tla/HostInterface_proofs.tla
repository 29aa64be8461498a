------------------------ MODULE HostInterface_proofs ------------------------
(***************************************************************************)
(* Proofs about the two modules the host talks to, Debugger and            *)
(* EmbeddingApi, for every set of threads, sources, lines, conditions,     *)
(* objects and debuggers and every bound.                                  *)
(***************************************************************************)
EXTENDS Debugger, EmbeddingApi, FiniteSetTheorems, SequenceTheorems, TLAPS

-----------------------------------------------------------------------------
(***************************************************************************)
(* Debugger.  The inductive invariant describes the one thread that        *)
(* executes: the others are idle and own no scope.  What statement() keeps *)
(* in its event while it has released the lock stays true of the scopes    *)
(* below it.                                                               *)
(***************************************************************************)

\* The scopes, and the frames of the outermost n of them.
ScopeStacks == Seq(BOOLEAN)
Frames(stk, n) == {i \in 1..n : stk[i]}

EventOK(ev) ==
    /\ DOMAIN ev = DOMAIN NoEvent
    /\ ev.sequence \in Nat /\ ev.frames \in Nat /\ ev.base \in Nat

Registers ==
    /\ pauseRequested \in BOOLEAN
    /\ inCallback \in BOOLEAN /\ evaluating \in BOOLEAN /\ hostCallbackActive \in BOOLEAN
    /\ sequence \in Nat /\ pausedSequence \in Nat
    /\ selectedFrame \in Nat /\ pausedEvaluators \in Nat /\ pausedFrames \in Nat
DebuggerTypes ==
    /\ Registers
    /\ executionThread \in Threads \cup {NoThread}
    /\ scopes \in ScopeStacks
    /\ pc \in [Threads -> Places]
    /\ own \in [Threads -> Nat]
    /\ DOMAIN event = Threads
    /\ \A t \in Threads : EventOK(event[t])

\* What statement() relies on when it takes the lock again.
Suspended(t) ==
    /\ event[t].base \in 1..own[t]
    /\ pc[t] \notin Nested => own[t] = event[t].base
    /\ event[t].base \in Frames(scopes, event[t].base)
    /\ event[t].frames = Cardinality(Frames(scopes, event[t].base))
    /\ event[t].sequence = pausedSequence
    /\ pausedEvaluators = event[t].frames
    /\ action # "Stop"

\* What the host relies on.
Presented(t) ==
    /\ pausedFrames = event[t].frames
    /\ selectedFrame < pausedFrames
    /\ pc[t] = "evaluation" => event[t].asked = event[t].sequence

ThreadOK(t) ==
    /\ pc[t] = "idle" <=> own[t] = 0
    /\ pc[t] \in {"idle", "running"} => event[t].base = 0
    /\ pc[t] \in InStatement => Suspended(t)
    /\ pc[t] \in {"callback", "evaluation"} => Presented(t)

\* All that the proofs need of DebuggerAssumption.
ExecutorNamed == NoThread \notin Threads

\* The execution thread has scopes.
ExecutorOwns ==
    executionThread # NoThread => own[executionThread] # 0

DebuggerInv ==
    /\ DebuggerTypes
    /\ OneExecutionThread
    /\ ExecutorOwns
    /\ FlagsTellWhere
    /\ \A t \in Threads : ThreadOK(t)
-----------------------------------------------------------------------------
LEMMA AnySeq ==
  ASSUME NEW S, NEW s \in Seq(S)
  PROVE  (s = <<>> <=> Len(s) = 0) /\ Len(s) \in Nat /\ DOMAIN s = 1..Len(s)
  OBVIOUS

LEMMA ExtendedSeq ==
  ASSUME NEW S, NEW s \in Seq(S), NEW x \in S
  PROVE  /\ Append(s, x) \in Seq(S)
         /\ Len(Append(s, x)) = Len(s) + 1
         /\ \A i \in 1..Len(s) : Append(s, x)[i] = s[i]
  OBVIOUS

LEMMA ShortenedSeq ==
  ASSUME NEW S, NEW s \in Seq(S), Len(s) # 0
  PROVE  /\ SubSeq(s, 1, Len(s) - 1) \in Seq(S)
         /\ Len(SubSeq(s, 1, Len(s) - 1)) = Len(s) - 1
         /\ \A i \in 1..(Len(s) - 1) : SubSeq(s, 1, Len(s) - 1)[i] = s[i]
<1>1. Len(s) \in Nat \ {0} /\ \A i \in 1..Len(s) : s[i] \in S
  OBVIOUS
<1>2. /\ SubSeq(s, 1, Len(s) - 1) \in Seq(S)
      /\ Len(SubSeq(s, 1, Len(s) - 1)) = IF 1 <= Len(s) - 1 THEN Len(s) - 1 - 1 + 1 ELSE 0
      /\ \A i \in 1..(Len(s) - 1 - 1 + 1) : SubSeq(s, 1, Len(s) - 1)[i] = s[1 + i - 1]
  BY <1>1, SubSeqProperties
<1>3. \A n \in Nat \ {0} : (IF 1 <= n - 1 THEN n - 1 - 1 + 1 ELSE 0) = n - 1
  OBVIOUS
<1>4. Len(SubSeq(s, 1, Len(s) - 1)) = Len(s) - 1
  BY <1>1, <1>2, <1>3, Zenon
<1>5. \A i \in 1..(Len(s) - 1) : i \in 1..(Len(s) - 1 - 1 + 1) /\ 1 + i - 1 = i
  BY <1>1
<1> QED
  BY <1>2, <1>4, <1>5

LEMMA ChangedSeq ==
  ASSUME NEW S, NEW s \in Seq(S), Len(s) # 0, NEW x \in S
  PROVE  /\ [s EXCEPT ![Len(s)] = x] \in Seq(S)
         /\ Len([s EXCEPT ![Len(s)] = x]) = Len(s)
         /\ [s EXCEPT ![Len(s)] = x][Len(s)] = x
         /\ \A i \in 1..(Len(s) - 1) : [s EXCEPT ![Len(s)] = x][i] = s[i]
  OBVIOUS

\* The three changes of the scopes.
Entered(stk) == Append(stk, FALSE)
Left(stk) == SubSeq(stk, 1, Len(stk) - 1)
WithLocation(stk) == [stk EXCEPT ![Len(stk)] = TRUE]

LEMMA ScopesAre ==
  ASSUME NEW s \in ScopeStacks
  PROVE  (s = <<>> <=> Len(s) = 0) /\ Len(s) \in Nat /\ DOMAIN s = 1..Len(s)
  BY AnySeq DEF ScopeStacks

LEMMA ScopesEntered ==
  ASSUME NEW s \in ScopeStacks
  PROVE  /\ Entered(s) \in ScopeStacks
         /\ Len(Entered(s)) = Len(s) + 1
         /\ \A i \in 1..Len(s) : Entered(s)[i] = s[i]
  BY ExtendedSeq DEF ScopeStacks, Entered

LEMMA ScopesLeft ==
  ASSUME NEW s \in ScopeStacks, Len(s) # 0
  PROVE  /\ Left(s) \in ScopeStacks
         /\ Len(Left(s)) = Len(s) - 1
         /\ \A i \in 1..(Len(s) - 1) : Left(s)[i] = s[i]
  BY ShortenedSeq DEF ScopeStacks, Left

LEMMA ScopesLocated ==
  ASSUME NEW s \in ScopeStacks, Len(s) # 0
  PROVE  /\ WithLocation(s) \in ScopeStacks
         /\ Len(WithLocation(s)) = Len(s)
         /\ Len(s) \in Frames(WithLocation(s), Len(s))
         /\ \A i \in 1..(Len(s) - 1) : WithLocation(s)[i] = s[i]
<1>1. Len(s) \in 1..Len(s)
  BY ScopesAre
<1>2. /\ WithLocation(s) \in ScopeStacks
      /\ Len(WithLocation(s)) = Len(s)
      /\ WithLocation(s)[Len(s)] = TRUE
      /\ \A i \in 1..(Len(s) - 1) : WithLocation(s)[i] = s[i]
  <2> DEFINE yes == TRUE
  <2>1. yes \in BOOLEAN
    OBVIOUS
  <2> HIDE DEF yes
  <2>2. /\ [s EXCEPT ![Len(s)] = yes] \in ScopeStacks
        /\ Len([s EXCEPT ![Len(s)] = yes]) = Len(s)
        /\ [s EXCEPT ![Len(s)] = yes][Len(s)] = yes
        /\ \A i \in 1..(Len(s) - 1) : [s EXCEPT ![Len(s)] = yes][i] = s[i]
    BY <2>1, ChangedSeq DEF ScopeStacks
  <2> QED
    BY <2>2 DEF WithLocation, yes
<1>3. Len(s) \in Frames(WithLocation(s), Len(s))
  BY <1>1, <1>2 DEF Frames
<1> QED
  BY <1>2, <1>3

LEMMA FramesCounted ==
  ASSUME NEW n \in Nat, NEW s
  PROVE  /\ Cardinality(Frames(s, n)) \in Nat
         /\ n \in Frames(s, n) => Cardinality(Frames(s, n)) # 0
<1>1. IsFiniteSet(1..n) /\ Frames(s, n) \subseteq 1..n
  BY FS_Interval DEF Frames
<1>2. IsFiniteSet(Frames(s, n))
  BY <1>1, FS_Subset
<1> QED
  BY <1>2, FS_CardinalityType, FS_EmptySet

LEMMA FramesKept ==
  ASSUME NEW n, NEW s, NEW r, \A i \in 1..n : r[i] = s[i]
  PROVE  Frames(r, n) = Frames(s, n)
  BY DEF Frames

LEMMA DepthCounts ==
  ASSUME NEW s \in ScopeStacks
  PROVE  Depth(s) = Cardinality(Frames(s, Len(s)))
  BY ScopesAre DEF Depth, Frames

\* Nested code changes only scopes above those of the statement.
LEMMA SuspendedKept ==
  ASSUME NEW t \in Threads, Suspended(t), pc[t] \in Nested, pc'[t] = pc[t],
         event'[t] = event[t], event[t].base \in 1..own'[t],
         \A i \in 1..event[t].base : scopes'[i] = scopes[i],
         UNCHANGED <<pausedSequence, pausedEvaluators, action>>
  PROVE  Suspended(t)'
<1>1. Frames(scopes', event[t].base) = Frames(scopes, event[t].base)
  BY FramesKept
<1> QED
  BY <1>1 DEF Suspended
-----------------------------------------------------------------------------
\* All of this is about one thread: the others are idle.
Settled(t) ==
    /\ ThreadOK(t)
    /\ IF own[t] = 0 THEN executionThread = NoThread /\ scopes = <<>>
       ELSE executionThread = t /\ own[t] = Len(scopes)
    /\ inCallback <=> pc[t] \in InStatement
    /\ evaluating <=> pc[t] \in Nested
    /\ hostCallbackActive => pc[t] \in {"callback", "evaluation", "unwinding"}
    /\ pc[t] \in {"callback", "evaluation"} => hostCallbackActive
OthersIdle(t) == \A u \in Threads \ {t} : pc[u] = "idle" /\ own[u] = 0

LEMMA Alone ==
  ASSUME DebuggerInv, ExecutorNamed, NEW t \in Threads, own[t] # 0
  PROVE  Settled(t) /\ OthersIdle(t) /\ scopes # <<>>
<1>1. executionThread = t /\ own[t] = Len(scopes) /\ scopes # <<>>
  BY DEF DebuggerInv, OneExecutionThread, ExecutorNamed
<1>2. OthersIdle(t)
  BY <1>1 DEF DebuggerInv, OneExecutionThread, ThreadOK, OthersIdle
<1>3. Settled(t)
  BY <1>1, <1>2 DEF DebuggerInv, FlagsTellWhere, Settled, OthersIdle, InStatement, Nested
<1> QED
  BY <1>1, <1>2, <1>3

LEMMA AllIdle ==
  ASSUME DebuggerInv, scopes = <<>>, NEW t \in Threads
  PROVE  Settled(t) /\ OthersIdle(t) /\ own[t] = 0
<1>1. \A u \in Threads : own[u] = 0 /\ pc[u] = "idle"
  BY DEF DebuggerInv, OneExecutionThread, ThreadOK
<1>2. executionThread = NoThread
  BY DEF DebuggerInv, OneExecutionThread
<1> QED
  BY <1>1, <1>2 DEF DebuggerInv, FlagsTellWhere, Settled, OthersIdle, InStatement, Nested

\* What a step of thread t has to establish.
LEMMA SettledIsEnough ==
  ASSUME ExecutorNamed, DebuggerInv, NEW t \in Threads, OthersIdle(t),
         DebuggerTypes', Settled(t)',
         \A u \in Threads \ {t} :
            pc'[u] = pc[u] /\ own'[u] = own[u] /\ event'[u] = event[u]
  PROVE  DebuggerInv'
<1>1. \A u \in Threads \ {t} : pc'[u] = "idle" /\ own'[u] = 0
  BY DEF OthersIdle
<1>2. ASSUME NEW u \in Threads
      PROVE  ThreadOK(u)'
  <2>1. CASE u = t
    BY <2>1 DEF Settled
  <2>2. CASE u # t
    <3>1. event[u].base = 0
      BY <2>2 DEF DebuggerInv, ThreadOK, OthersIdle
    <3>2. pc'[u] = "idle" /\ own'[u] = 0 /\ event'[u].base = 0
      BY <1>1, <2>2, <3>1
    <3>3. "idle" \notin InStatement /\ "idle" \notin {"callback", "evaluation"}
      BY DEF InStatement
    <3> QED
      BY <3>2, <3>3 DEF ThreadOK
  <2> QED
    BY <2>1, <2>2
<1>3. OneExecutionThread'
  <2>1. own'[t] \in Nat /\ scopes' \in ScopeStacks
    BY DEF DebuggerTypes
  <2>2. scopes' = <<>> <=> Len(scopes') = 0
    BY <2>1, ScopesAre
  <2> QED
    BY <1>1, <2>1, <2>2 DEF OneExecutionThread, Settled, ExecutorNamed
<1>4. ExecutorOwns'
  BY DEF ExecutorOwns, Settled
<1>5. FlagsTellWhere'
  BY <1>1 DEF FlagsTellWhere, Settled, InStatement, Nested
<1> QED
  BY <1>2, <1>3, <1>4, <1>5 DEF DebuggerInv
-----------------------------------------------------------------------------
LEMMA ConfigureInv ==
  ASSUME DebuggerInv, Configure
  PROVE  DebuggerInv'
<1>1. /\ UNCHANGED <<stack, stepping, sequence, flags, sourceAction, paused, pc, event>>
      /\ pauseRequested' \in BOOLEAN
  BY DEF Configure, setBreakpoints, setSourceBreakpoint, clearSourceBreakpoints, requestPause,
         DebuggerInv, DebuggerTypes, Registers
<1>2. DebuggerTypes'
  BY <1>1 DEF DebuggerInv, DebuggerTypes, Registers, stack, stepping, flags, paused
<1>3. OneExecutionThread' /\ ExecutorOwns' /\ FlagsTellWhere'
  BY <1>1 DEF DebuggerInv, OneExecutionThread, ExecutorOwns, FlagsTellWhere,
              stack, stepping, flags, paused
<1>4. \A t \in Threads : ThreadOK(t)'
  BY <1>1 DEF DebuggerInv, ThreadOK, Suspended, Presented, Frames,
              stack, stepping, flags, paused
<1> QED
  BY <1>2, <1>3, <1>4 DEF DebuggerInv

LEMMA enterScopeInv ==
  ASSUME DebuggerInv, ExecutorNamed, NEW t \in Threads, enterScope(t)
  PROVE  DebuggerInv'
<1> DEFINE p == IF pc[t] = "idle" THEN "running" ELSE pc[t]
<1>1. /\ pc[t] \in {"idle", "running", "callback"} \cup Nested
      /\ scopes = <<>> \/ executionThread = t
      /\ ~inCallback \/ evaluating
      /\ scopes' = Entered(scopes)
      /\ executionThread' = t
      /\ own' = [own EXCEPT ![t] = @ + 1]
      /\ pc' = [pc EXCEPT ![t] = p]
      /\ UNCHANGED <<config, stepping, sequence, flags, sourceAction, paused, event>>
  BY DEF enterScope, EnterAccepted, Goto, Entered
<1>2. Settled(t) /\ OthersIdle(t)
  <2>1. CASE scopes = <<>>
    BY <2>1, AllIdle
  <2>2. CASE scopes # <<>>
    <3>1. own[t] # 0
      BY <1>1, <2>2 DEF DebuggerInv, ExecutorOwns, ExecutorNamed
    <3> QED
      BY <3>1, Alone
  <2> QED
    BY <2>1, <2>2
<1>3. /\ own \in [Threads -> Nat] /\ pc \in [Threads -> Places] /\ own[t] \in Nat
      /\ scopes \in ScopeStacks /\ Len(scopes) \in Nat
  BY ScopesAre DEF DebuggerInv, DebuggerTypes
<1>4. own[t] = Len(scopes)
  BY <1>2, <1>3, ScopesAre DEF Settled
<1>5. p \in Places /\ pc[t] # "callback"
  BY <1>1, <1>2, <1>3 DEF Places, Settled, InStatement, Nested
<1>6. /\ scopes' \in ScopeStacks /\ Len(scopes') = Len(scopes) + 1
      /\ \A i \in 1..Len(scopes) : scopes'[i] = scopes[i]
  BY <1>1, <1>3, ScopesEntered
<1>7. own' \in [Threads -> Nat] /\ own'[t] = own[t] + 1 /\ pc' \in [Threads -> Places] /\ pc'[t] = p
  <2>1. own' \in [Threads -> Nat] /\ own'[t] = own[t] + 1
    BY <1>1, <1>3
  <2> HIDE DEF p
  <2> QED
    BY <1>1, <1>3, <1>5, <2>1
<1>8. DebuggerTypes'
  BY <1>1, <1>6, <1>7 DEF DebuggerInv, DebuggerTypes, Registers, config, stepping, flags, paused
<1>9. UNCHANGED <<event, action, pausedSequence, pausedEvaluators, pausedFrames, selectedFrame,
                  inCallback, evaluating, hostCallbackActive>>
  BY <1>1 DEF stepping, paused, flags
<1>10. ThreadOK(t) /\ EventOK(event[t])
  BY DEF DebuggerInv, DebuggerTypes
<1>11. ThreadOK(t)'
  <2>1. pc'[t] # "idle" /\ own'[t] # 0 /\ (pc'[t] \in {"idle", "running"} => event[t].base = 0)
    BY <1>3, <1>7, <1>10 DEF ThreadOK, Nested
  <2>2. ASSUME p \in InStatement
        PROVE  Suspended(t)'
    <3>1. pc[t] \in Nested /\ pc[t] \in InStatement /\ p = pc[t]
      BY <1>1, <1>5, <2>2 DEF InStatement, Nested, Places
    <3>2. Suspended(t)
      BY <1>10, <3>1 DEF ThreadOK
    <3>3. event[t].base \in 1..Len(scopes) /\ event[t].base \in Nat
      BY <1>4, <1>10, <3>2 DEF Suspended, EventOK
    <3>4. event[t].base \in 1..own'[t] /\ \A i \in 1..event[t].base : i \in 1..Len(scopes)
      BY <1>3, <1>4, <1>7, <3>3
    <3> HIDE DEF p
    <3> QED
      BY <1>6, <1>7, <1>9, <3>1, <3>2, <3>4, SuspendedKept
  <2>3. p \in {"callback", "evaluation"} => Presented(t)'
    BY <1>5, <1>7, <1>9, <1>10 DEF ThreadOK, Presented
  <2> HIDE DEF p
  <2> QED
    BY <1>7, <1>9, <2>1, <2>2, <2>3 DEF ThreadOK
<1>12. Settled(t)'
  <2>1. p \in InStatement <=> pc[t] \in InStatement
    BY DEF InStatement, Places
  <2>2. p \in Nested <=> pc[t] \in Nested
    BY DEF Nested
  <2>3. own'[t] # 0 /\ own'[t] = Len(scopes')
    BY <1>3, <1>4, <1>6, <1>7
  <2>4. p \in {"callback", "evaluation", "unwinding"} <=> pc[t] \in {"callback", "evaluation", "unwinding"}
    OBVIOUS
  <2>5. p \in {"callback", "evaluation"} <=> pc[t] \in {"callback", "evaluation"}
    OBVIOUS
  <2> HIDE DEF p
  <2> QED
    BY <1>1, <1>2, <1>7, <1>9, <1>11, <2>1, <2>2, <2>3, <2>4, <2>5 DEF Settled
<1>13. \A u \in Threads \ {t} : pc'[u] = pc[u] /\ own'[u] = own[u] /\ event'[u] = event[u]
  BY <1>1, <1>3, <1>9
<1> QED
  BY <1>2, <1>8, <1>12, <1>13, SettledIsEnough

\* A step in which no scope comes or goes.
LEMMA Proceeds ==
  ASSUME ExecutorNamed, DebuggerInv, NEW t \in Threads, own[t] # 0,
         NEW p \in Places \ {"idle"}, pc' = [pc EXCEPT ![t] = p],
         own' = own, executionThread' = executionThread,
         scopes' \in ScopeStacks, Len(scopes') = Len(scopes),
         DOMAIN event' = Threads, EventOK(event'[t]),
         \A u \in Threads \ {t} : event'[u] = event[u],
         Registers',
         p = "running" => event'[t].base = 0,
         p \in InStatement => Suspended(t)',
         p \in {"callback", "evaluation"} => Presented(t)',
         inCallback' <=> p \in InStatement,
         evaluating' <=> p \in Nested,
         hostCallbackActive' => p \in {"callback", "evaluation", "unwinding"},
         p \in {"callback", "evaluation"} => hostCallbackActive'
  PROVE  DebuggerInv'
<1>1. Settled(t) /\ OthersIdle(t) /\ scopes # <<>>
  BY Alone
<1>2. /\ own \in [Threads -> Nat] /\ pc \in [Threads -> Places]
      /\ \A u \in Threads : EventOK(event[u])
      /\ executionThread \in Threads \cup {NoThread}
  BY DEF DebuggerInv, DebuggerTypes
<1>3. pc' \in [Threads -> Places] /\ pc'[t] = p /\ \A u \in Threads \ {t} : pc'[u] = pc[u]
  BY <1>2
<1>4. DebuggerTypes'
  BY <1>2, <1>3 DEF DebuggerTypes
<1>5. ThreadOK(t)'
  BY <1>3 DEF ThreadOK
<1>6. Settled(t)'
  <2>1. executionThread = t /\ own[t] = Len(scopes)
    BY <1>1 DEF Settled
  <2> QED
    BY <1>3, <1>5, <2>1 DEF Settled
<1> QED
  BY <1>1, <1>3, <1>4, <1>6, SettledIsEnough

\* What every step of an executing thread starts from.
LEMMA AtWork ==
  ASSUME ExecutorNamed, DebuggerInv, NEW t \in Threads, pc[t] # "idle"
  PROVE  /\ own[t] # 0 /\ own[t] \in Nat /\ own[t] = Len(scopes)
         /\ scopes \in ScopeStacks /\ scopes # <<>>
         /\ executionThread = t
         /\ DOMAIN event = Threads /\ EventOK(event[t])
         /\ Registers
         /\ pc[t] \in {"idle", "running"} => event[t].base = 0
         /\ pc[t] \in InStatement => Suspended(t)
         /\ pc[t] \in {"callback", "evaluation"} => Presented(t)
         /\ inCallback <=> pc[t] \in InStatement
         /\ evaluating <=> pc[t] \in Nested
         /\ hostCallbackActive => pc[t] \in {"callback", "evaluation", "unwinding"}
         /\ pc[t] \in {"callback", "evaluation"} => hostCallbackActive
<1>1. own[t] # 0
  BY DEF DebuggerInv, ThreadOK
<1>2. Settled(t) /\ scopes # <<>>
  BY <1>1, Alone
<1>3. own[t] \in Nat /\ scopes \in ScopeStacks /\ DOMAIN event = Threads
      /\ EventOK(event[t]) /\ Registers
  BY DEF DebuggerInv, DebuggerTypes
<1> QED
  BY <1>1, <1>2, <1>3 DEF Settled, ThreadOK

LEMMA leaveScopeInv ==
  ASSUME DebuggerInv, ExecutorNamed, NEW t \in Threads, leaveScope(t)
  PROVE  DebuggerInv'
<1> DEFINE p == IF own[t] = 1 THEN "idle" ELSE pc[t]
<1>1. /\ pc[t] \in {"running"} \cup Nested /\ pc[t] # "idle"
      /\ own[t] > event[t].base
      /\ scopes' = Left(scopes)
      /\ own' = [own EXCEPT ![t] = @ - 1]
      /\ pc' = [pc EXCEPT ![t] = p]
      /\ IF Len(scopes) = 1 THEN executionThread' = NoThread
                            ELSE UNCHANGED <<executionThread, stepping>>
      /\ UNCHANGED <<config, sequence, flags, sourceAction, paused, event>>
  BY DEF leaveScope, Goto, Left, Nested
<1>2. Settled(t) /\ OthersIdle(t)
  BY <1>1, AtWork, Alone
<1>3. /\ own[t] # 0 /\ own[t] \in Nat /\ own[t] = Len(scopes) /\ scopes \in ScopeStacks
      /\ executionThread = t
      /\ pc[t] \in {"idle", "running"} => event[t].base = 0
      /\ pc[t] \in InStatement => Suspended(t)
      /\ pc[t] \in {"callback", "evaluation"} => Presented(t)
      /\ EventOK(event[t])
  BY <1>1, AtWork
<1>4. own \in [Threads -> Nat] /\ pc \in [Threads -> Places] /\ pc[t] \in Places
  BY DEF DebuggerInv, DebuggerTypes
<1>5. /\ scopes' \in ScopeStacks /\ Len(scopes') = Len(scopes) - 1
      /\ \A i \in 1..(Len(scopes) - 1) : scopes'[i] = scopes[i]
  BY <1>1, <1>3, ScopesLeft
<1>6. own'[t] = own[t] - 1 /\ own' \in [Threads -> Nat]
  BY <1>1, <1>3, <1>4
<1>7. p \in Places /\ pc' \in [Threads -> Places] /\ pc'[t] = p
  <2>1. p \in Places
    BY <1>4 DEF Places
  <2> HIDE DEF p
  <2> QED
    BY <1>1, <1>4, <2>1
<1>8. UNCHANGED <<event, pausedSequence, pausedEvaluators, pausedFrames, selectedFrame,
                  inCallback, evaluating, hostCallbackActive, pauseRequested, sequence>>
  BY <1>1 DEF paused, flags, config
<1>9. ASSUME pc[t] \in Nested
      PROVE  /\ event[t].base \in 1..own'[t] /\ event[t].base \in Nat
             /\ own[t] # 1 /\ Suspended(t)
  <2>1. Suspended(t)
    BY <1>3, <1>9 DEF InStatement, Nested, Places
  <2> QED
    BY <1>1, <1>3, <1>6, <2>1 DEF Suspended, EventOK
<1>10. executionThread' \in Threads \cup {NoThread}
  BY <1>1, <1>3
<1>11. DebuggerTypes'
  BY <1>5, <1>6, <1>7, <1>8, <1>10 DEF DebuggerInv, DebuggerTypes, Registers
<1>12. /\ p = "idle" <=> own[t] = 1
       /\ p # "idle" => p = pc[t]
       /\ own[t] = 1 => pc[t] = "running"
  BY <1>1, <1>9
<1> HIDE DEF p
<1>13. ThreadOK(t)'
  <2>1. ASSUME p \in InStatement
        PROVE  Suspended(t)'
    <3>1. pc[t] \in Nested /\ p = pc[t]
      BY <1>1, <1>12, <2>1 DEF InStatement
    <3>2. /\ \A i \in 1..event[t].base : scopes'[i] = scopes[i]
          /\ event[t].base \in 1..own'[t]
      BY <1>3, <1>5, <1>6, <1>9, <3>1
    <3>3. action' = action
      BY <1>1, <1>3, <1>9, <3>1 DEF stepping
    <3> QED
      BY <1>7, <1>8, <1>9, <3>1, <3>2, <3>3, SuspendedKept
  <2>2. p \in {"callback", "evaluation"} => Presented(t)'
    BY <1>3, <1>7, <1>8, <1>12 DEF Presented
  <2>3. p \in {"idle", "running"} => event[t].base = 0
    BY <1>3, <1>12
  <2>4. p = "idle" <=> own'[t] = 0
    BY <1>3, <1>6, <1>12
  <2> QED
    BY <1>7, <1>8, <2>1, <2>2, <2>3, <2>4 DEF ThreadOK
<1>14. Settled(t)'
  <2>1. CASE own[t] = 1
    <3>1. p = "idle" /\ pc[t] = "running" /\ own'[t] = 0 /\ executionThread' = NoThread
          /\ scopes' = <<>>
      BY <1>1, <1>3, <1>5, <1>6, <1>12, <2>1, ScopesAre
    <3> QED
      BY <1>2, <1>7, <1>8, <1>13, <3>1 DEF Settled, InStatement, Nested
  <2>2. CASE own[t] # 1
    <3>1. p = pc[t] /\ own'[t] # 0 /\ executionThread' = t /\ own'[t] = Len(scopes')
      BY <1>1, <1>3, <1>5, <1>6, <1>12, <2>2
    <3> QED
      BY <1>2, <1>7, <1>8, <1>13, <3>1 DEF Settled
  <2> QED
    BY <2>1, <2>2
<1>15. \A u \in Threads \ {t} : pc'[u] = pc[u] /\ own'[u] = own[u] /\ event'[u] = event[u]
  BY <1>1, <1>4, <1>8
<1> QED
  BY <1>2, <1>11, <1>14, <1>15, SettledIsEnough
-----------------------------------------------------------------------------
LEMMA StatementProceedsInv ==
  ASSUME DebuggerInv, ExecutorNamed, NEW t \in Threads, NEW source, NEW line,
         StatementProceeds(t, source, line)
  PROVE  DebuggerInv'
<1>1. /\ pc[t] \in {"running"} \cup Nested /\ own[t] > event[t].base
      /\ scopes' = WithLocation(scopes)
      /\ UNCHANGED <<config, executionThread, own, stepping, sequence, flags,
                     sourceAction, paused, pc, event>>
  BY DEF StatementProceeds, Executing, Located, WithLocation
<1>2. pc[t] # "idle" /\ pc \in [Threads -> Places] /\ pc[t] \in Places \ {"idle"}
  BY <1>1 DEF DebuggerInv, DebuggerTypes, Nested
<1>3. /\ own[t] # 0 /\ own[t] \in Nat /\ own[t] = Len(scopes)
      /\ scopes \in ScopeStacks
      /\ DOMAIN event = Threads /\ EventOK(event[t])
      /\ Registers
      /\ pc[t] \in {"idle", "running"} => event[t].base = 0
      /\ pc[t] \in InStatement => Suspended(t)
      /\ pc[t] \in {"callback", "evaluation"} => Presented(t)
      /\ inCallback <=> pc[t] \in InStatement
      /\ evaluating <=> pc[t] \in Nested
      /\ hostCallbackActive => pc[t] \in {"callback", "evaluation", "unwinding"}
      /\ pc[t] \in {"callback", "evaluation"} => hostCallbackActive
  BY <1>2, AtWork
<1>4. /\ scopes' \in ScopeStacks /\ Len(scopes') = Len(scopes)
      /\ \A i \in 1..(Len(scopes) - 1) : scopes'[i] = scopes[i]
  BY <1>1, <1>3, ScopesLocated
<1>5. pc' = [pc EXCEPT ![t] = pc[t]]
  BY <1>1, <1>2
<1>6. UNCHANGED <<event, pausedSequence, pausedEvaluators, pausedFrames, selectedFrame, action,
                  inCallback, evaluating, hostCallbackActive, pauseRequested, sequence>>
  BY <1>1 DEF paused, flags, config, stepping
<1>7. Registers'
  BY <1>3, <1>6 DEF Registers
<1>8. ASSUME pc[t] \in InStatement
      PROVE  Suspended(t)'
  <2>1. pc[t] \in Nested
    BY <1>1, <1>8 DEF InStatement
  <2>2. event[t].base \in 1..own'[t] /\ \A i \in 1..event[t].base : i \in 1..(Len(scopes) - 1)
    BY <1>1, <1>3, <1>8 DEF Suspended, EventOK
  <2> QED
    BY <1>1, <1>3, <1>4, <1>6, <1>8, <2>1, <2>2, SuspendedKept
<1>9. pc[t] \in {"callback", "evaluation"} => Presented(t)'
  BY <1>1, <1>3, <1>6 DEF Presented
<1> QED
  BY <1>1, <1>2, <1>3, <1>4, <1>5, <1>6, <1>7, <1>8, <1>9, Proceeds

LEMMA StatementSuspendsInv ==
  ASSUME DebuggerInv, ExecutorNamed, NEW t \in Threads, NEW source, NEW line,
         StatementSuspends(t, source, line)
  PROVE  DebuggerInv'
<1>1. /\ pc[t] \in {"running"} \cup Nested /\ own[t] > event[t].base
      /\ ~evaluating /\ action # "Stop"
      /\ scopes' = WithLocation(scopes)
      /\ pauseRequested' = FALSE
      /\ sequence' = sequence + 1
      /\ pausedSequence' = sequence
      /\ pausedEvaluators' = Depth(WithLocation(scopes))
      /\ inCallback' = TRUE
      /\ pc' = [pc EXCEPT ![t] = "conditions"]
      /\ UNCHANGED <<executionThread, own, stepping, evaluating, hostCallbackActive,
                     selectedFrame, pausedFrames>>
  BY DEF StatementSuspends, Executing, Located, WithLocation, Goto
<1>2. PICK conditions, recollect, step :
         event' = [event EXCEPT ![t] =
               [NoEvent EXCEPT !.sequence = sequence, !.frames = Depth(WithLocation(scopes)),
                               !.base = own[t], !.conditions = conditions,
                               !.recollect = recollect,
                               !.pause = pauseRequested,
                               !.step = step]]
  BY DEF StatementSuspends, Located, WithLocation
<1>3. pc[t] # "idle"
  BY <1>1 DEF Nested
<1>4. /\ own[t] # 0 /\ own[t] \in Nat /\ own[t] = Len(scopes)
      /\ scopes \in ScopeStacks
      /\ DOMAIN event = Threads /\ EventOK(event[t])
      /\ Registers
      /\ evaluating <=> pc[t] \in Nested
      /\ hostCallbackActive => pc[t] \in {"callback", "evaluation", "unwinding"}
  BY <1>3, AtWork
<1>5. pc[t] = "running" /\ ~hostCallbackActive
  BY <1>1, <1>4
<1>6. /\ scopes' \in ScopeStacks /\ Len(scopes') = Len(scopes)
      /\ own[t] \in Frames(scopes', own[t])
      /\ Depth(scopes') = Cardinality(Frames(scopes', own[t]))
  BY <1>1, <1>4, ScopesLocated, DepthCounts
<1>7. Depth(scopes') \in Nat
  BY <1>4, <1>6, FramesCounted
<1>8. /\ DOMAIN event' = Threads /\ EventOK(event'[t])
      /\ event'[t].sequence = sequence /\ event'[t].frames = Depth(scopes')
      /\ event'[t].base = own[t] /\ event'[t].pause = pauseRequested
      /\ \A u \in Threads \ {t} : event'[u] = event[u]
  <2> DEFINE e == [NoEvent EXCEPT !.sequence = sequence, !.frames = Depth(WithLocation(scopes)),
                               !.base = own[t], !.conditions = conditions,
                               !.recollect = recollect,
                               !.pause = pauseRequested,
                               !.step = step]
             d == Depth(WithLocation(scopes))
  <2>1. d \in Nat /\ sequence \in Nat
    BY <1>1, <1>4, <1>7 DEF Registers
  <2> HIDE DEF d
  <2>2. /\ DOMAIN e = DOMAIN NoEvent
        /\ e.sequence = sequence /\ e.frames = d /\ e.base = own[t] /\ e.pause = pauseRequested
    BY DEF NoEvent, d
  <2>3. EventOK(e)
    BY <1>4, <2>1, <2>2 DEF EventOK
  <2> HIDE DEF e
  <2>4. event' = [event EXCEPT ![t] = e]
    BY <1>2 DEF e
  <2> QED
    BY <1>1, <1>4, <2>2, <2>3, <2>4 DEF d
<1>9. Registers'
  <2>1. pausedEvaluators' \in Nat
    BY <1>1, <1>7
  <2>2. /\ pauseRequested' \in BOOLEAN /\ inCallback' \in BOOLEAN
        /\ UNCHANGED <<evaluating, hostCallbackActive, selectedFrame, pausedFrames>>
    BY <1>1
  <2>3. sequence' \in Nat /\ pausedSequence' \in Nat
    BY <1>1, <1>4 DEF Registers
  <2> QED
    BY <1>4, <2>1, <2>2, <2>3 DEF Registers
<1>10. Suspended(t)'
  <2>1. pc'[t] = "conditions" /\ "conditions" \notin Nested
    BY <1>1 DEF DebuggerInv, DebuggerTypes, Nested
  <2> QED
    BY <1>1, <1>4, <1>6, <1>8, <2>1 DEF Suspended, stepping
<1>11. "conditions" \in InStatement /\ "conditions" \notin Nested /\ "conditions" \in Places \ {"idle"}
  BY DEF InStatement, Places, Nested
<1> QED
  BY <1>1, <1>4, <1>5, <1>6, <1>8, <1>9, <1>10, <1>11, Proceeds

\* A change of the locals that leaves alone what the invariant is about.
SameStack(ev, old) ==
    /\ EventOK(ev)
    /\ ev.base = old.base /\ ev.frames = old.frames /\ ev.sequence = old.sequence
    /\ ev.pause = old.pause

LEMMA TryConditionFacts ==
  ASSUME DebuggerInv, NEW t \in Threads, TryCondition(t)
  PROVE  \E holds \in BOOLEAN :
            /\ pc[t] = "conditions"
            /\ evaluating' = (evaluating \/ ~holds)
            /\ pc' = [pc EXCEPT ![t] = IF holds THEN "presenting" ELSE "condition"]
            /\ \E x, y, z :
                  event' = [event EXCEPT ![t].breakpoint = x, ![t].diagnostic = y,
                                         ![t].conditions = z]
            /\ UNCHANGED <<config, stack, stepping, sequence, inCallback,
                           hostCallbackActive, sourceAction, paused>>
<1> DEFINE ev == event[t]
           frame == IF ev.frames = 0 THEN 0 ELSE ev.frames - 1
           ok == Admitted(t, ev.sequence, frame)
           empty == Head(ev.conditions) = ""
           holds == empty \/ ~ok
<1>1. /\ pc[t] = "conditions"
      /\ evaluating' = (evaluating \/ (~empty /\ ok))
      /\ event' = [event EXCEPT ![t].breakpoint = empty \/ ~ok,
                                ![t].diagnostic = ~empty /\ ~ok,
                                ![t].conditions = Tail(@)]
      /\ pc' = [pc EXCEPT ![t] = IF empty \/ ~ok THEN "presenting" ELSE "condition"]
      /\ UNCHANGED <<config, stack, stepping, sequence, inCallback,
                     hostCallbackActive, sourceAction, paused>>
  BY Zenon DEF TryCondition, Goto
<1>2. holds \in BOOLEAN
  BY Zenon
<1>3. (~empty /\ ok) = ~holds
  BY Zenon
<1>4. evaluating' = (evaluating \/ ~holds)
  BY <1>1, <1>3, Zenon
<1>5. pc' = [pc EXCEPT ![t] = IF holds THEN "presenting" ELSE "condition"]
  BY <1>1, Zenon
<1>6. \E x, y, z : event' = [event EXCEPT ![t].breakpoint = x, ![t].diagnostic = y,
                                          ![t].conditions = z]
  BY <1>1, Zenon
<1> HIDE DEF holds, empty, ok
<1> QED
  BY <1>1, <1>2, <1>4, <1>5, <1>6, Zenon

LEMMA SuspendedStill ==
  ASSUME NEW t \in Threads, Suspended(t), SameStack(event'[t], event[t]),
         UNCHANGED <<scopes, own, pausedSequence, pausedEvaluators, action>>,
         pc'[t] \notin Nested => own[t] = event[t].base
  PROVE  Suspended(t)'
  BY DEF Suspended, SameStack

\* The locals of t change only in fields the invariant says nothing of.
LEMMA LocalsChange ==
  ASSUME DebuggerInv, NEW t \in Threads,
         \/ event' = event
         \/ \E x, y, z : event' = [event EXCEPT ![t].breakpoint = x, ![t].diagnostic = y,
                                                ![t].conditions = z]
         \/ \E x, y : event' = [event EXCEPT ![t].breakpoint = x, ![t].diagnostic = y]
         \/ \E a : event' = [event EXCEPT ![t].asked = a]
  PROVE  /\ DOMAIN event' = Threads
         /\ \A u \in Threads \ {t} : event'[u] = event[u]
         /\ SameStack(event'[t], event[t])
         /\ (\E a : event' = [event EXCEPT ![t].asked = a]) \/ event'[t].asked = event[t].asked
<1>1. DOMAIN event = Threads /\ EventOK(event[t])
  BY DEF DebuggerInv, DebuggerTypes
<1>2. ASSUME NEW e, SameStack(e, event[t]), event' = [event EXCEPT ![t] = e]
      PROVE  /\ DOMAIN event' = Threads
             /\ \A u \in Threads \ {t} : event'[u] = event[u]
             /\ SameStack(event'[t], event[t])
             /\ event'[t] = e
  BY <1>1, <1>2
<1>3. CASE event' = event
  BY <1>1, <1>3 DEF SameStack
<1>4. CASE \E x, y, z : event' = [event EXCEPT ![t].breakpoint = x, ![t].diagnostic = y,
                                               ![t].conditions = z]
  <2> PICK x, y, z : event' = [event EXCEPT ![t].breakpoint = x, ![t].diagnostic = y,
                                            ![t].conditions = z]
    BY <1>4
  <2> DEFINE e == [event[t] EXCEPT !.breakpoint = x, !.diagnostic = y, !.conditions = z]
  <2>1. SameStack(e, event[t]) /\ e.asked = event[t].asked
    BY <1>1 DEF SameStack, EventOK, NoEvent
  <2>2. event' = [event EXCEPT ![t] = e]
    BY <1>1
  <2> HIDE DEF e
  <2> QED
    BY <1>2, <2>1, <2>2
<1>5. CASE \E x, y : event' = [event EXCEPT ![t].breakpoint = x, ![t].diagnostic = y]
  <2> PICK x, y : event' = [event EXCEPT ![t].breakpoint = x, ![t].diagnostic = y]
    BY <1>5
  <2> DEFINE e == [event[t] EXCEPT !.breakpoint = x, !.diagnostic = y]
  <2>1. SameStack(e, event[t]) /\ e.asked = event[t].asked
    BY <1>1 DEF SameStack, EventOK, NoEvent
  <2>2. event' = [event EXCEPT ![t] = e]
    BY <1>1
  <2> HIDE DEF e
  <2> QED
    BY <1>2, <2>1, <2>2
<1>6. CASE \E a : event' = [event EXCEPT ![t].asked = a]
  <2> PICK a : event' = [event EXCEPT ![t].asked = a]
    BY <1>6
  <2> DEFINE e == [event[t] EXCEPT !.asked = a]
  <2>1. SameStack(e, event[t])
    BY <1>1 DEF SameStack, EventOK, NoEvent
  <2>2. event' = [event EXCEPT ![t] = e]
    BY <1>1
  <2> HIDE DEF e
  <2> QED
    BY <1>2, <1>6, <2>1, <2>2
<1> QED
  BY <1>3, <1>4, <1>5, <1>6

LEMMA TryConditionInv ==
  ASSUME DebuggerInv, ExecutorNamed, NEW t \in Threads, TryCondition(t)
  PROVE  DebuggerInv'
<1>1. PICK holds \in BOOLEAN :
         /\ pc[t] = "conditions"
         /\ evaluating' = (evaluating \/ ~holds)
         /\ pc' = [pc EXCEPT ![t] = IF holds THEN "presenting" ELSE "condition"]
         /\ \E x, y, z :
               event' = [event EXCEPT ![t].breakpoint = x, ![t].diagnostic = y,
                                      ![t].conditions = z]
         /\ UNCHANGED <<config, stack, stepping, sequence, inCallback,
                        hostCallbackActive, sourceAction, paused>>
  BY TryConditionFacts
<1> DEFINE p == IF holds THEN "presenting" ELSE "condition"
<1>2. /\ own[t] # 0 /\ scopes \in ScopeStacks /\ Registers /\ Suspended(t)
      /\ inCallback /\ ~evaluating /\ ~hostCallbackActive
  BY <1>1, AtWork DEF InStatement, Places, Nested
<1>3. /\ DOMAIN event' = Threads
      /\ \A u \in Threads \ {t} : event'[u] = event[u]
      /\ SameStack(event'[t], event[t])
  BY <1>1, LocalsChange
<1>4. UNCHANGED <<scopes, own, executionThread, pausedSequence, pausedEvaluators, pausedFrames,
                  selectedFrame, action, pauseRequested, sequence, inCallback, hostCallbackActive>>
  BY <1>1 DEF stack, paused, stepping, config
<1>5. /\ p \in Places \ {"idle"} /\ p \in InStatement /\ (p \in Nested <=> ~holds)
      /\ p \notin {"running", "callback", "evaluation"}
  BY DEF Places, InStatement, Nested
<1>6. pc' = [pc EXCEPT ![t] = p] /\ pc[t] \notin Nested
  BY <1>1 DEF Nested
<1> HIDE DEF p
<1>7. Suspended(t)'
  BY <1>2, <1>3, <1>4, <1>6, SuspendedStill DEF Suspended
<1>8. evaluating' \in BOOLEAN /\ (evaluating' <=> p \in Nested)
  BY <1>1, <1>2, <1>5
<1>9. Registers'
  BY <1>2, <1>4, <1>8 DEF Registers
<1> QED
  BY <1>2, <1>3, <1>4, <1>5, <1>6, <1>7, <1>8, <1>9, Proceeds DEF SameStack

LEMMA ConditionEndsInv ==
  ASSUME DebuggerInv, ExecutorNamed, NEW t \in Threads, ConditionEnds(t)
  PROVE  DebuggerInv'
<1>1. /\ pc[t] = "condition" /\ own[t] = event[t].base
      /\ evaluating' = FALSE
      /\ UNCHANGED <<config, stack, stepping, sequence, inCallback,
                     hostCallbackActive, sourceAction, paused>>
  BY DEF ConditionEnds
<1>2. PICK p \in {"conditions", "presenting", "unwinding"} :
         /\ pc' = [pc EXCEPT ![t] = p]
         /\ \/ event' = event
            \/ \E x, y : event' = [event EXCEPT ![t].breakpoint = x, ![t].diagnostic = y]
  BY DEF ConditionEnds, Goto
<1>3. /\ own[t] # 0 /\ scopes \in ScopeStacks /\ Registers /\ Suspended(t)
      /\ inCallback /\ ~hostCallbackActive
  BY <1>1, AtWork DEF InStatement, Places, Nested
<1>4. /\ DOMAIN event' = Threads
      /\ \A u \in Threads \ {t} : event'[u] = event[u]
      /\ SameStack(event'[t], event[t])
  BY <1>2, LocalsChange
<1>5. UNCHANGED <<scopes, own, executionThread, pausedSequence, pausedEvaluators, pausedFrames,
                  selectedFrame, action, pauseRequested, sequence, inCallback, hostCallbackActive>>
  BY <1>1 DEF stack, paused, stepping, config
<1>6. /\ p \in Places \ {"idle"} /\ p \in InStatement /\ p \notin Nested
      /\ p \notin {"running", "callback", "evaluation"}
  BY <1>2 DEF Places, InStatement, Nested
<1>7. Suspended(t)'
  BY <1>1, <1>3, <1>4, <1>5, SuspendedStill
<1>8. Registers'
  BY <1>1, <1>3, <1>5 DEF Registers
<1>9. /\ inCallback' <=> p \in InStatement
      /\ evaluating' <=> p \in Nested
      /\ ~hostCallbackActive'
  BY <1>1, <1>3, <1>5, <1>6
<1> QED
  BY <1>2, <1>3, <1>4, <1>5, <1>6, <1>7, <1>8, <1>9, Proceeds DEF SameStack

\* NoEvent is what a thread keeps outside statement().
LEMMA EventForgotten ==
  ASSUME DebuggerInv, NEW t \in Threads, event' = [event EXCEPT ![t] = NoEvent]
  PROVE  /\ DOMAIN event' = Threads
         /\ \A u \in Threads \ {t} : event'[u] = event[u]
         /\ event'[t].base = 0 /\ EventOK(event'[t])
<1>1. EventOK(NoEvent) /\ NoEvent.base = 0
  BY DEF EventOK, NoEvent
<1> QED
  BY <1>1 DEF DebuggerInv, DebuggerTypes

\* Both ways out of statement().
LEMMA ClearPauseInv ==
  ASSUME DebuggerInv, ExecutorNamed, NEW t \in Threads,
         pc[t] \in {"callback", "unwinding"}, ClearPause(t)
  PROVE  DebuggerInv'
<1>1. /\ pc[t] # "idle" /\ pc[t] \notin Nested
      /\ inCallback' = FALSE /\ hostCallbackActive' = FALSE
      /\ pausedFrames' = 0 /\ pausedEvaluators' = 0
      /\ event' = [event EXCEPT ![t] = NoEvent]
      /\ pc' = [pc EXCEPT ![t] = "running"]
      /\ UNCHANGED <<config, stack, sequence, evaluating, pausedSequence, selectedFrame>>
  BY DEF ClearPause, Goto, Nested
<1>2. own[t] # 0 /\ scopes \in ScopeStacks /\ Registers /\ ~evaluating
  BY <1>1, AtWork
<1>3. /\ DOMAIN event' = Threads
      /\ \A u \in Threads \ {t} : event'[u] = event[u]
      /\ event'[t].base = 0 /\ EventOK(event'[t])
  BY <1>1, EventForgotten
<1>4. UNCHANGED <<scopes, own, executionThread, pauseRequested, sequence, evaluating,
                  pausedSequence, selectedFrame>>
  BY <1>1 DEF stack, config
<1>5. Registers'
  BY <1>1, <1>2, <1>4 DEF Registers
<1>6. "running" \in Places \ {"idle"} /\ "running" \notin InStatement /\ "running" \notin Nested
  BY DEF Places, InStatement, Nested
<1>7. ~inCallback' /\ ~evaluating' /\ ~hostCallbackActive'
  BY <1>1, <1>2, <1>4
<1> QED
  BY <1>1, <1>2, <1>3, <1>4, <1>5, <1>6, <1>7, Proceeds

LEMMA HostRepliesInv ==
  ASSUME DebuggerInv, ExecutorNamed, NEW t \in Threads, HostReplies(t)
  PROVE  DebuggerInv'
  BY ClearPauseInv DEF HostReplies

LEMMA StatementThrowsInv ==
  ASSUME DebuggerInv, ExecutorNamed, NEW t \in Threads, StatementThrows(t)
  PROVE  DebuggerInv'
  BY ClearPauseInv DEF StatementThrows

LEMMA HostThrowsInv ==
  ASSUME DebuggerInv, ExecutorNamed, NEW t \in Threads, HostThrows(t)
  PROVE  DebuggerInv'
<1>1. /\ pc[t] = "callback" /\ pc' = [pc EXCEPT ![t] = "unwinding"]
      /\ UNCHANGED <<config, stack, stepping, sequence, flags, sourceAction, paused, event>>
  BY DEF HostThrows, Goto
<1>2. /\ own[t] # 0 /\ scopes \in ScopeStacks /\ Registers /\ Suspended(t)
      /\ inCallback /\ ~evaluating
  BY <1>1, AtWork DEF InStatement, Places, Nested
<1>3. /\ DOMAIN event' = Threads
      /\ \A u \in Threads \ {t} : event'[u] = event[u]
      /\ SameStack(event'[t], event[t])
  BY <1>1, LocalsChange
<1>4. UNCHANGED <<scopes, own, executionThread, pausedSequence, pausedEvaluators, pausedFrames,
                  selectedFrame, action, pauseRequested, sequence, inCallback, evaluating,
                  hostCallbackActive>>
  BY <1>1 DEF stack, paused, stepping, config, flags
<1>5. /\ "unwinding" \in Places \ {"idle"} /\ "unwinding" \in InStatement
      /\ "unwinding" \notin Nested /\ pc[t] \notin Nested
  BY <1>1 DEF Places, InStatement, Nested
<1>6. Suspended(t)'
  BY <1>2, <1>3, <1>4, <1>5, SuspendedStill DEF Suspended
<1>7. Registers' /\ inCallback' /\ ~evaluating'
  BY <1>2, <1>4 DEF Registers
<1> QED
  BY <1>1, <1>2, <1>3, <1>4, <1>5, <1>6, <1>7, Proceeds DEF SameStack

LEMMA ConditionsExhaustedInv ==
  ASSUME DebuggerInv, ExecutorNamed, NEW t \in Threads, ConditionsExhausted(t)
  PROVE  DebuggerInv'
<1>1. /\ pc[t] = "conditions"
      /\ UNCHANGED <<config, stack, stepping, sequence, evaluating,
                     hostCallbackActive, sourceAction, pausedSequence,
                     selectedFrame, pausedFrames>>
      /\ \/ /\ pc' = [pc EXCEPT ![t] = "presenting"]
            /\ UNCHANGED <<inCallback, pausedEvaluators, event>>
         \/ /\ inCallback' = FALSE
            /\ pausedEvaluators' = 0
            /\ event' = [event EXCEPT ![t] = NoEvent]
            /\ pc' = [pc EXCEPT ![t] = "running"]
  BY DEF ConditionsExhausted, Goto
<1>2. /\ own[t] # 0 /\ scopes \in ScopeStacks /\ Registers /\ Suspended(t)
      /\ inCallback /\ ~evaluating /\ ~hostCallbackActive
  BY <1>1, AtWork DEF InStatement, Places, Nested
<1>3. UNCHANGED <<scopes, own, executionThread, pausedSequence, pausedFrames,
                  selectedFrame, action, pauseRequested, sequence, evaluating, hostCallbackActive>>
  BY <1>1 DEF stack, stepping, config
<1>4. CASE /\ pc' = [pc EXCEPT ![t] = "presenting"]
           /\ UNCHANGED <<inCallback, pausedEvaluators, event>>
  <2>1. /\ DOMAIN event' = Threads
        /\ \A u \in Threads \ {t} : event'[u] = event[u]
        /\ SameStack(event'[t], event[t])
    BY <1>4, LocalsChange
  <2>2. /\ "presenting" \in Places \ {"idle"} /\ "presenting" \in InStatement
        /\ "presenting" \notin Nested /\ pc[t] \notin Nested
    BY <1>1 DEF Places, InStatement, Nested
  <2>3. Suspended(t)'
    BY <1>2, <1>3, <1>4, <2>1, <2>2, SuspendedStill DEF Suspended
  <2>4. Registers' /\ inCallback' /\ ~evaluating' /\ ~hostCallbackActive'
    BY <1>2, <1>3, <1>4 DEF Registers
  <2> QED
    BY <1>2, <1>3, <1>4, <2>1, <2>2, <2>3, <2>4, Proceeds DEF SameStack
<1>5. CASE /\ inCallback' = FALSE
           /\ pausedEvaluators' = 0
           /\ event' = [event EXCEPT ![t] = NoEvent]
           /\ pc' = [pc EXCEPT ![t] = "running"]
  <2>1. /\ DOMAIN event' = Threads
        /\ \A u \in Threads \ {t} : event'[u] = event[u]
        /\ event'[t].base = 0 /\ EventOK(event'[t])
    BY <1>5, EventForgotten
  <2>2. "running" \in Places \ {"idle"} /\ "running" \notin InStatement /\ "running" \notin Nested
    BY DEF Places, InStatement, Nested
  <2>3. Registers' /\ ~inCallback' /\ ~evaluating' /\ ~hostCallbackActive'
    BY <1>2, <1>3, <1>5 DEF Registers
  <2> QED
    BY <1>2, <1>3, <1>5, <2>1, <2>2, <2>3, Proceeds
<1> QED
  BY <1>1, <1>4, <1>5

LEMMA CallHostInv ==
  ASSUME DebuggerInv, ExecutorNamed, NEW t \in Threads, CallHost(t)
  PROVE  DebuggerInv'
<1> DEFINE frames == IF event[t].recollect THEN Depth(scopes) ELSE event[t].frames
           ev == event[t]
<1>1. /\ pc[t] = "presenting" /\ pc' = [pc EXCEPT ![t] = "callback"]
      /\ event' = [event EXCEPT ![t].frames = frames]
      /\ pausedEvaluators' = frames /\ pausedFrames' = frames
      /\ selectedFrame' = IF frames = 0 THEN 0 ELSE frames - 1
      /\ hostCallbackActive' = TRUE
      /\ UNCHANGED <<config, stack, stepping, sequence, inCallback,
                     evaluating, sourceAction, pausedSequence>>
  BY DEF CallHost, Goto
<1>2. /\ own[t] # 0 /\ own[t] \in Nat /\ own[t] = Len(scopes) /\ scopes \in ScopeStacks
      /\ Registers /\ Suspended(t) /\ inCallback /\ ~evaluating
      /\ DOMAIN event = Threads /\ EventOK(ev)
  BY <1>1, AtWork DEF InStatement, Places, Nested
<1>3. own[t] = ev.base /\ ev.frames = Cardinality(Frames(scopes, own[t]))
      /\ own[t] \in Frames(scopes, own[t])
  BY <1>1, <1>2 DEF Suspended, Nested
<1>4. frames = ev.frames /\ frames \in Nat \ {0}
  <2>1. Depth(scopes) = ev.frames
    BY <1>2, <1>3, DepthCounts
  <2>2. ev.frames \in Nat /\ ev.frames # 0
    BY <1>2, <1>3, FramesCounted
  <2> QED
    BY <2>1, <2>2
<1> HIDE DEF frames
<1>5. /\ DOMAIN event' = Threads
      /\ \A u \in Threads \ {t} : event'[u] = event[u]
      /\ SameStack(event'[t], ev)
  <2> DEFINE e == [ev EXCEPT !.frames = frames]
  <2>1. event'[t] = e /\ DOMAIN event' = Threads
        /\ \A u \in Threads \ {t} : event'[u] = event[u]
    BY <1>1, <1>2
  <2> HIDE DEF ev
  <2>2. SameStack(e, ev)
    BY <1>2, <1>4 DEF SameStack, EventOK, NoEvent
  <2> QED
    BY <2>1, <2>2
<1>6. UNCHANGED <<scopes, own, executionThread, pausedSequence, action, pauseRequested,
                  sequence, inCallback, evaluating>>
  BY <1>1 DEF stack, stepping, config
<1>7. pausedEvaluators' = pausedEvaluators
  BY <1>1, <1>2, <1>4 DEF Suspended
<1>8. /\ "callback" \in Places \ {"idle"} /\ "callback" \in InStatement
      /\ "callback" \notin Nested
  BY DEF Places, InStatement, Nested
<1>9. Suspended(t)'
  BY <1>2, <1>3, <1>5, <1>6, <1>7, SuspendedStill
<1>10. selectedFrame' = frames - 1 /\ selectedFrame' \in Nat
  BY <1>1, <1>4
<1>11. Registers' /\ inCallback' /\ ~evaluating' /\ hostCallbackActive'
  BY <1>1, <1>2, <1>4, <1>6, <1>10 DEF Registers
<1>12. Presented(t)'
  <2>1. pc'[t] = "callback"
    BY <1>1 DEF DebuggerInv, DebuggerTypes
  <2> QED
    BY <1>1, <1>4, <1>5, <1>10, <2>1 DEF Presented, SameStack
<1> QED
  BY <1>1, <1>2, <1>5, <1>6, <1>8, <1>9, <1>11, <1>12, Proceeds DEF SameStack

LEMMA evaluateInv ==
  ASSUME DebuggerInv, ExecutorNamed, NEW t \in Threads, NEW seq, NEW frame,
         evaluate(t, seq, frame)
  PROVE  DebuggerInv'
<1>1. /\ pc[t] \in {"idle", "callback", "evaluation"}
      /\ seq = pausedSequence /\ executionThread = t /\ ~evaluating
      /\ evaluating' = TRUE
      /\ event' = [event EXCEPT ![t].asked = seq]
      /\ pc' = [pc EXCEPT ![t] = "evaluation"]
      /\ UNCHANGED <<config, stack, stepping, sequence, inCallback,
                     hostCallbackActive, sourceAction, paused>>
  BY DEF evaluate, Admitted, Goto
<1>2. pc[t] # "idle"
  BY <1>1 DEF DebuggerInv, ExecutorOwns, ThreadOK, ExecutorNamed
<1>3. /\ own[t] # 0 /\ scopes \in ScopeStacks /\ Registers
      /\ evaluating <=> pc[t] \in Nested
      /\ pc[t] \in InStatement => Suspended(t) /\ inCallback
      /\ pc[t] = "callback" => Presented(t) /\ hostCallbackActive
      /\ DOMAIN event = Threads /\ EventOK(event[t])
  BY <1>2, AtWork
<1>4. pc[t] = "callback" /\ Suspended(t) /\ Presented(t) /\ inCallback /\ hostCallbackActive
  BY <1>1, <1>2, <1>3 DEF InStatement, Places, Nested
<1>5. /\ DOMAIN event' = Threads
      /\ \A u \in Threads \ {t} : event'[u] = event[u]
      /\ SameStack(event'[t], event[t])
  BY <1>1, LocalsChange
<1>6. UNCHANGED <<scopes, own, executionThread, pausedSequence, pausedEvaluators, pausedFrames,
                  selectedFrame, action, pauseRequested, sequence, inCallback, hostCallbackActive>>
  BY <1>1 DEF stack, paused, stepping, config
<1>7. /\ "evaluation" \in Places \ {"idle"} /\ "evaluation" \in InStatement
      /\ "evaluation" \in Nested /\ "callback" \notin Nested
  BY DEF Places, InStatement, Nested
<1>8. Suspended(t)'
  BY <1>3, <1>4, <1>5, <1>6, <1>7, SuspendedStill DEF Suspended
<1>9. event'[t].asked = seq
  <2> DEFINE e == event[t]
  <2>1. event'[t] = [e EXCEPT !.asked = seq]
    BY <1>1, <1>3
  <2> HIDE DEF e
  <2>2. [e EXCEPT !.asked = seq].asked = seq
    BY <1>3 DEF EventOK, NoEvent, e
  <2> QED
    BY <2>1, <2>2
<1>10. Presented(t)'
  BY <1>1, <1>4, <1>5, <1>6, <1>9 DEF Presented, SameStack, Suspended
<1>11. Registers' /\ inCallback' /\ evaluating' /\ hostCallbackActive'
  BY <1>1, <1>3, <1>4, <1>6 DEF Registers
<1> QED
  BY <1>1, <1>3, <1>5, <1>6, <1>7, <1>8, <1>10, <1>11, Proceeds DEF SameStack

LEMMA EvaluationEndsInv ==
  ASSUME DebuggerInv, ExecutorNamed, NEW t \in Threads, EvaluationEnds(t)
  PROVE  DebuggerInv'
<1>1. /\ pc[t] = "evaluation" /\ own[t] = event[t].base
      /\ evaluating' = FALSE
      /\ pc' = [pc EXCEPT ![t] = "callback"]
      /\ UNCHANGED <<config, stack, stepping, sequence, inCallback,
                     hostCallbackActive, sourceAction, paused, event>>
  BY DEF EvaluationEnds, Goto
<1>2. /\ own[t] # 0 /\ scopes \in ScopeStacks /\ Registers /\ Suspended(t) /\ Presented(t)
      /\ inCallback /\ hostCallbackActive
  BY <1>1, AtWork DEF InStatement, Places, Nested
<1>3. /\ DOMAIN event' = Threads
      /\ \A u \in Threads \ {t} : event'[u] = event[u]
      /\ SameStack(event'[t], event[t])
  BY <1>1, LocalsChange
<1>4. UNCHANGED <<scopes, own, executionThread, pausedSequence, pausedEvaluators, pausedFrames,
                  selectedFrame, action, pauseRequested, sequence, inCallback, hostCallbackActive>>
  BY <1>1 DEF stack, paused, stepping, config
<1>5. /\ "callback" \in Places \ {"idle"} /\ "callback" \in InStatement
      /\ "callback" \notin Nested
  BY DEF Places, InStatement, Nested
<1>6. Suspended(t)'
  BY <1>1, <1>2, <1>3, <1>4, SuspendedStill
<1>7. Presented(t)'
  <2>1. pc'[t] = "callback"
    BY <1>1 DEF DebuggerInv, DebuggerTypes
  <2> QED
    BY <1>2, <1>3, <1>4, <2>1 DEF Presented, SameStack
<1>8. inCallback' /\ ~evaluating' /\ hostCallbackActive' /\ evaluating' \in BOOLEAN
  <2>1. inCallback' /\ hostCallbackActive'
    BY <1>2, <1>4
  <2>2. ~evaluating' /\ evaluating' \in BOOLEAN
    BY <1>1
  <2> QED
    BY <2>1, <2>2
<1>9. Registers'
  BY <1>2, <1>4, <1>8 DEF Registers
<1> QED
  BY <1>1, <1>2, <1>3, <1>4, <1>5, <1>6, <1>7, <1>8, <1>9, Proceeds DEF SameStack

\* The commands of evaluated source: dbcont, dbquit, dbstep, dbup, dbdown.
LEMMA SourceCommandInv ==
  ASSUME DebuggerInv,
         UNCHANGED <<config, stack, stepping, sequence, flags,
                     pausedSequence, pausedEvaluators, pausedFrames, pc, event>>,
         selectedFrame' = selectedFrame
            \/ (pausedFrames > 0 /\ selectedFrame' \in {FrameAbove, FrameBelow})
  PROVE  DebuggerInv'
<1>1. UNCHANGED <<scopes, own, executionThread, pausedSequence, pausedEvaluators, pausedFrames,
                  action, pauseRequested, sequence, inCallback, evaluating, hostCallbackActive,
                  pc, event>>
  BY DEF stack, stepping, config, flags
<1>2. Registers
  BY DEF DebuggerInv, DebuggerTypes
<1>3. /\ selectedFrame' \in Nat
      /\ selectedFrame < pausedFrames => selectedFrame' < pausedFrames
  BY <1>2 DEF Registers, FrameAbove, FrameBelow
<1>4. DebuggerTypes'
  BY <1>1, <1>2, <1>3 DEF DebuggerInv, DebuggerTypes, Registers
<1>5. OneExecutionThread' /\ ExecutorOwns' /\ FlagsTellWhere'
  BY <1>1 DEF DebuggerInv, OneExecutionThread, ExecutorOwns, FlagsTellWhere
<1>6. \A u \in Threads : ThreadOK(u)'
  BY <1>1, <1>3 DEF DebuggerInv, ThreadOK, Suspended, Presented
<1> QED
  BY <1>4, <1>5, <1>6 DEF DebuggerInv
-----------------------------------------------------------------------------
LEMMA DebuggerInitInv ==
  ASSUME DebuggerInit, ExecutorNamed
  PROVE  DebuggerInv
<1>1. <<>> \in ScopeStacks /\ Len(<<>>) = 0
  BY DEF ScopeStacks
<1>2. EventOK(NoEvent) /\ NoEvent.base = 0
  BY DEF EventOK, NoEvent
<1>3. "idle" \in Places /\ "idle" \notin InStatement /\ "idle" \notin Nested
  BY DEF Places, InStatement, Nested
<1>4. DebuggerTypes
  BY <1>1, <1>2, <1>3 DEF DebuggerInit, DebuggerTypes, Registers
<1>5. OneExecutionThread /\ ExecutorOwns /\ FlagsTellWhere
  BY <1>1, <1>3 DEF DebuggerInit, OneExecutionThread, ExecutorOwns, FlagsTellWhere
<1>6. \A t \in Threads : ThreadOK(t)
  BY <1>2, <1>3 DEF DebuggerInit, ThreadOK
<1> QED
  BY <1>4, <1>5, <1>6 DEF DebuggerInv

LEMMA DebuggerStutters ==
  ASSUME DebuggerInv, UNCHANGED debuggerVars
  PROVE  DebuggerInv'
<1>1. UNCHANGED <<config, stack, stepping, sequence, flags, sourceAction, paused, pc, event>>
  BY DEF debuggerVars, config, stack, stepping, flags, paused
<1>2. DebuggerTypes'
  BY <1>1 DEF DebuggerInv, DebuggerTypes, Registers, config, stack, stepping, flags, paused
<1>3. OneExecutionThread' /\ ExecutorOwns' /\ FlagsTellWhere'
  BY <1>1 DEF DebuggerInv, OneExecutionThread, ExecutorOwns, FlagsTellWhere,
              stack, stepping, flags, paused
<1>4. \A t \in Threads : ThreadOK(t)'
  BY <1>1 DEF DebuggerInv, ThreadOK, Suspended, Presented, stack, stepping, flags, paused
<1> QED
  BY <1>2, <1>3, <1>4 DEF DebuggerInv

LEMMA requestSourceActionInv ==
  ASSUME DebuggerInv, ExecutorNamed, NEW t \in Threads, NEW act, requestSourceAction(t, act)
  PROVE  DebuggerInv'
<1>1. /\ UNCHANGED <<config, stack, stepping, sequence, flags, paused, pc, event>>
      /\ UNCHANGED <<pausedSequence, selectedFrame, pausedEvaluators, pausedFrames>>
  BY DEF requestSourceAction, paused
<1> QED
  BY <1>1, SourceCommandInv

LEMMA moveSourceFrameInv ==
  ASSUME DebuggerInv, ExecutorNamed, NEW t \in Threads, moveSourceFrame(t)
  PROVE  DebuggerInv'
  BY SourceCommandInv DEF moveSourceFrame

LEMMA DebuggerStep ==
  ASSUME DebuggerInv, ExecutorNamed, [DebuggerNext]_debuggerVars
  PROVE  DebuggerInv'
<1>1. CASE UNCHANGED debuggerVars
  BY <1>1, DebuggerStutters
<1>2. CASE Configure
  BY <1>2, ConfigureInv
<1>3. ASSUME NEW t \in Threads, Execute(t)
      PROVE  DebuggerInv'
  BY <1>3, enterScopeInv, leaveScopeInv, StatementProceedsInv, StatementSuspendsInv,
     TryConditionInv, ConditionEndsInv, ConditionsExhaustedInv, CallHostInv, HostRepliesInv,
     HostThrowsInv, StatementThrowsInv, evaluateInv, EvaluationEndsInv,
     requestSourceActionInv, moveSourceFrameInv DEF Execute
<1> QED
  BY <1>1, <1>2, <1>3 DEF DebuggerNext

\* In every reachable state at most one thread executes, the flags say where
\* it is, and while statement() has released the lock its event describes the
\* scopes below it.
THEOREM DebuggerInvariance == DebuggerSpec => []DebuggerInv
<1>1. ExecutorNamed
  BY DebuggerAssumption DEF ExecutorNamed
<1>2. DebuggerInit => DebuggerInv
  BY <1>1, DebuggerInitInv
<1>3. DebuggerInv /\ [DebuggerNext]_debuggerVars => DebuggerInv'
  BY <1>1, DebuggerStep
<1> QED
  BY <1>2, <1>3, PTL DEF DebuggerSpec

\* A debugger serves one thread at a time and leaves no flag behind, whichever
\* way a condition, an evaluation or the host callback ends (enterScope,
\* leaveScope and the ways out of statement()).
THEOREM ExecutionTold == DebuggerSpec => []ExecutionIsTold
<1>1. DebuggerInv => ExecutionIsTold
  BY DEF DebuggerInv, ExecutionIsTold
<1> QED
  BY <1>1, DebuggerInvariance, PTL

\* While the host holds a paused event its frames are the program's and the
\* selected one exists, whatever was evaluated; and only the current event
\* evaluates (CallHost, evaluate, moveSourceFrame).
THEOREM PausedEventStaysCurrent == DebuggerSpec => []PausedEventIsCurrent
<1>1. ExecutorNamed
  BY DebuggerAssumption DEF ExecutorNamed
<1>2. ASSUME DebuggerInv
      PROVE  PausedEventIsCurrent
  <2> SUFFICES ASSUME NEW t \in Threads
               PROVE  /\ pc[t] = "callback" => PausedStackIntact(t)
                      /\ pc[t] = "evaluation" => event[t].asked = event[t].sequence
    BY DEF PausedEventIsCurrent
  <2>1. ASSUME pc[t] = "callback"
        PROVE  PausedStackIntact(t)
    <3>1. /\ own[t] = Len(scopes) /\ scopes \in ScopeStacks
          /\ Registers /\ Suspended(t) /\ Presented(t)
      BY <1>1, <1>2, <2>1, AtWork DEF InStatement, Places
    <3>2. own[t] = event[t].base /\ event[t].frames = Depth(scopes)
      BY <2>1, <3>1, DepthCounts DEF Suspended, Nested
    <3>3. selectedFrame \in 0..(pausedFrames - 1)
      BY <3>1 DEF Registers, Presented
    <3> QED
      BY <3>1, <3>2, <3>3 DEF PausedStackIntact, Suspended, Presented
  <2>2. ASSUME pc[t] = "evaluation"
        PROVE  event[t].asked = event[t].sequence
    BY <1>2, <2>2 DEF DebuggerInv, ThreadOK, Presented
  <2> QED
    BY <2>1, <2>2
<1> QED
  BY <1>2, DebuggerInvariance, PTL
-----------------------------------------------------------------------------
\* What a step may do to a queued or obeyed Stop.
StopKept ==
    /\ hostCallbackActive /\ sourceAction = "Stop" =>
          sourceAction' = "Stop" \/ action' = "Stop"
    /\ action = "Stop" => /\ action' = "Stop" \/ scopes' = <<>>
                          /\ sequence' = sequence

LEMMA StopKeptByStep ==
  ASSUME DebuggerInv, ExecutorNamed, [DebuggerNext]_debuggerVars
  PROVE  StopKept
<1>1. CASE UNCHANGED <<sourceAction, action, sequence>>
  BY <1>1 DEF StopKept
<1>2. CASE UNCHANGED debuggerVars \/ Configure
  BY <1>1, <1>2 DEF debuggerVars, Configure, setBreakpoints, setSourceBreakpoint,
                    clearSourceBreakpoints, requestPause, stepping
<1>3. ASSUME NEW t \in Threads, Execute(t)
      PROVE  StopKept
  <2>1. CASE leaveScope(t)
    <3>1. UNCHANGED <<sourceAction, sequence>>
      BY <2>1 DEF leaveScope
    <3>2. CASE Len(scopes) = 1
      <4>1. scopes' = Left(scopes) /\ pc[t] # "idle"
        BY <2>1 DEF leaveScope, Left, Nested
      <4>2. scopes \in ScopeStacks
        BY <4>1, AtWork
      <4>3. Left(scopes) \in ScopeStacks /\ Len(Left(scopes)) = 0
        <5>1. Len(scopes) # 0 /\ Len(scopes) - 1 = 0
          BY <3>2
        <5> QED
          BY <4>2, <5>1, ScopesLeft
      <4>4. scopes' = <<>>
        BY <4>1, <4>3, ScopesAre
      <4> QED
        BY <3>1, <4>4 DEF StopKept
    <3>3. CASE Len(scopes) # 1
      BY <2>1, <3>1, <3>3, <1>1 DEF leaveScope, stepping
    <3> QED
      BY <3>2, <3>3
  <2>2. CASE \E source \in Sources, line \in Lines : StatementSuspends(t, source, line)
    <3>1. pc[t] \in {"running"} \cup Nested /\ ~evaluating /\ action # "Stop"
      BY <2>2 DEF StatementSuspends, Executing
    <3>2. pc[t] # "idle"
      BY <3>1 DEF Nested
    <3>3. /\ evaluating <=> pc[t] \in Nested
          /\ hostCallbackActive => pc[t] \in {"callback", "evaluation", "unwinding"}
      BY <3>2, AtWork
    <3> QED
      BY <3>1, <3>3 DEF StopKept, Nested
  <2>3. CASE HostReplies(t)
    <3>1. pc[t] = "callback" /\ sequence' = sequence
          /\ \E reply \in RuntimeDebugAction : action' = Resumed(reply)
      BY <2>3 DEF HostReplies, ClearPause
    <3>2. action # "Stop"
      BY <3>1, AtWork DEF InStatement, Places, Suspended
    <3>3. sourceAction = "Stop" => action' = "Stop"
      BY <3>1 DEF Resumed, None
    <3> QED
      BY <3>1, <3>2, <3>3 DEF StopKept
  <2>4. CASE StatementThrows(t)
    BY <2>4 DEF StatementThrows, ClearPause, StopKept
  <2>5. CASE \E act \in RuntimeDebugAction : requestSourceAction(t, act)
    BY <2>5 DEF requestSourceAction, Queued, StopKept, stepping
  <2>6. CASE enterScope(t) \/ TryCondition(t) \/ ConditionEnds(t) \/ ConditionsExhausted(t)
    <3>1. UNCHANGED <<sourceAction, action, sequence>>
      BY <2>6, Zenon DEF enterScope, TryCondition, ConditionEnds, ConditionsExhausted, stepping
    <3> QED
      BY <1>1, <3>1
  <2>7. CASE \/ CallHost(t) \/ HostThrows(t) \/ EvaluationEnds(t) \/ moveSourceFrame(t)
             \/ \E source \in Sources, line \in Lines : StatementProceeds(t, source, line)
             \/ \E seq \in 0..sequence, frame \in 0..Selected : evaluate(t, seq, frame)
    <3>1. UNCHANGED <<sourceAction, action, sequence>>
      BY <2>7 DEF CallHost, HostThrows, EvaluationEnds, moveSourceFrame, StatementProceeds,
                  evaluate, stepping
    <3> QED
      BY <1>1, <3>1
  <2> QED
    BY <1>3, <2>1, <2>2, <2>3, <2>4, <2>5, <2>6, <2>7 DEF Execute
<1> QED
  BY <1>2, <1>3 DEF DebuggerNext

\* A queued dbquit cannot be undone and is obeyed, and a stopped invocation
\* raises no event until its outermost scope is left (requestSourceAction,
\* HostReplies, leaveScope).
THEOREM StopIsObeyed == DebuggerSpec => StopPrevails
<1>1. ExecutorNamed
  BY DebuggerAssumption DEF ExecutorNamed
<1>2. DebuggerInv /\ [DebuggerNext]_debuggerVars => [StopKept]_debuggerVars
  BY <1>1, StopKeptByStep
<1>3. DebuggerSpec => [][StopKept]_debuggerVars
  BY <1>2, DebuggerInvariance, PTL DEF DebuggerSpec
<1> QED
  BY <1>3 DEF StopPrevails, StopKept

\* What a step may do to a pause request, taken or not.
PauseKept ==
    /\ pauseRequested /\ ~pauseRequested' =>
          \E t \in Threads : event'[t].pause /\ pc'[t] = "conditions"
    /\ \A t \in Threads :
          /\ pc[t] \in {"conditions", "condition", "presenting"}
          /\ event[t].pause
          => /\ event'[t].pause
             /\ pc'[t] \in InStatement

\* Only the executing thread's step can disturb a pause it is about.
OfPause(t) ==
    pc[t] \in {"conditions", "condition", "presenting"} /\ event[t].pause
       => event'[t].pause /\ pc'[t] \in InStatement
OthersStay(t) == \A u \in Threads \ {t} : pc'[u] = pc[u] /\ event'[u] = event[u]

LEMMA PauseOfOne ==
  ASSUME NEW t \in Threads, OfPause(t), OthersStay(t),
         pauseRequested /\ ~pauseRequested' => event'[t].pause /\ pc'[t] = "conditions"
  PROVE  PauseKept
<1> SUFFICES ASSUME NEW u \in Threads,
                    pc[u] \in {"conditions", "condition", "presenting"}, event[u].pause
             PROVE  event'[u].pause /\ pc'[u] \in InStatement
  BY DEF PauseKept
<1>1. CASE u = t
  BY <1>1 DEF OfPause
<1>2. CASE u # t
  BY <1>2 DEF OthersStay, InStatement, Places
<1> QED
  BY <1>1, <1>2

\* A step that leaves the locals, or changes them for good.
LEMMA OthersStayWhere ==
  ASSUME DebuggerInv, NEW t \in Threads, NEW p, NEW e,
         pc' = pc \/ pc' = [pc EXCEPT ![t] = p],
         event' = event \/ event' = [event EXCEPT ![t] = e]
  PROVE  OthersStay(t)
  BY DEF DebuggerInv, DebuggerTypes, OthersStay

LEMMA PauseKeptOutside ==
  ASSUME DebuggerInv, NEW t \in Threads, pauseRequested' = pauseRequested,
         pc[t] \notin {"conditions", "condition", "presenting"}, OthersStay(t)
  PROVE  PauseKept
  BY PauseOfOne DEF OfPause

LEMMA PauseKeptByStep ==
  ASSUME DebuggerInv, ExecutorNamed, [DebuggerNext]_debuggerVars
  PROVE  PauseKept
<1>0. /\ pc \in [Threads -> Places] /\ DOMAIN event = Threads
      /\ \A t \in Threads : EventOK(event[t])
  BY DEF DebuggerInv, DebuggerTypes
<1>1. CASE UNCHANGED debuggerVars \/ Configure
  <2>1. UNCHANGED <<pc, event>>
    BY <1>1 DEF debuggerVars, Configure, setBreakpoints, setSourceBreakpoint,
                clearSourceBreakpoints, requestPause
  <2>2. pauseRequested' = pauseRequested \/ pauseRequested' = TRUE
    BY <1>1 DEF debuggerVars, Configure, setBreakpoints, setSourceBreakpoint,
                clearSourceBreakpoints, requestPause
  <2> QED
    BY <2>1, <2>2 DEF PauseKept, InStatement, Places
<1>2. ASSUME NEW t \in Threads, Execute(t)
      PROVE  PauseKept
  <2>1. CASE enterScope(t)
    <3>1. /\ pc[t] \in {"idle", "running", "callback"} \cup Nested
          /\ pc' = [pc EXCEPT ![t] = IF pc[t] = "idle" THEN "running" ELSE pc[t]]
          /\ event' = event /\ pauseRequested' = pauseRequested
      BY <2>1 DEF enterScope, Goto, config
    <3>2. OthersStay(t) /\ pc'[t] = (IF pc[t] = "idle" THEN "running" ELSE pc[t])
      BY <1>0, <3>1 DEF OthersStay
    <3> QED
      BY <3>1, <3>2, PauseOfOne DEF OfPause, InStatement, Places
  <2>2. CASE leaveScope(t)
    <3>1. /\ pc[t] \in {"running"} \cup Nested /\ pc[t] # "idle" /\ own[t] > event[t].base
          /\ pc' = [pc EXCEPT ![t] = IF own[t] = 1 THEN "idle" ELSE pc[t]]
          /\ event' = event /\ pauseRequested' = pauseRequested
      BY <2>2 DEF leaveScope, Goto, config, Nested
    <3>2. OthersStay(t) /\ pc'[t] = (IF own[t] = 1 THEN "idle" ELSE pc[t])
      BY <1>0, <3>1 DEF OthersStay
    <3>3. /\ own[t] \in Nat /\ EventOK(event[t])
          /\ pc[t] \in InStatement => Suspended(t)
      BY <3>1, AtWork
    <3>4. pc[t] \in InStatement => event[t].base # 0 /\ event[t].base \in Nat
      BY <3>3 DEF Suspended, EventOK
    <3>5. pc[t] \in InStatement => own[t] # 1
      BY <3>1, <3>3, <3>4
    <3> QED
      BY <3>1, <3>2, <3>5, PauseOfOne DEF OfPause, InStatement, Places
  <2>3. CASE \E source \in Sources, line \in Lines : StatementSuspends(t, source, line)
    <3>1. /\ pc[t] \in {"running"} \cup Nested /\ pc[t] # "idle" /\ ~evaluating
          /\ pc' = [pc EXCEPT ![t] = "conditions"]
      BY <2>3 DEF StatementSuspends, Executing, Nested, Goto
    <3>0. PICK source \in Sources, line \in Lines : StatementSuspends(t, source, line)
      BY <2>3
    <3>2. PICK c, r, s :
             event' = [event EXCEPT ![t] =
               [NoEvent EXCEPT !.sequence = sequence, !.frames = Depth(Located),
                               !.base = own[t], !.conditions = c, !.recollect = r,
                               !.pause = pauseRequested, !.step = s]]
      BY <3>0 DEF StatementSuspends
    <3>3. evaluating <=> pc[t] \in Nested
      BY <3>1, AtWork
    <3>4. pc[t] = "running" /\ pc'[t] = "conditions"
      BY <1>0, <3>1, <3>3
    <3>5. event'[t].pause = pauseRequested
      BY <1>0, <3>2 DEF NoEvent
    <3>6. OthersStay(t)
      BY <3>1, <3>2, OthersStayWhere
    <3> QED
      BY <3>4, <3>5, <3>6, PauseOfOne DEF OfPause
  <2>4. CASE TryCondition(t)
    <3>1. PICK holds \in BOOLEAN :
             /\ pc[t] = "conditions"
             /\ pc' = [pc EXCEPT ![t] = IF holds THEN "presenting" ELSE "condition"]
             /\ \E x, y, z :
                   event' = [event EXCEPT ![t].breakpoint = x, ![t].diagnostic = y,
                                          ![t].conditions = z]
             /\ pauseRequested' = pauseRequested
      BY <2>4, TryConditionFacts DEF config
    <3>2. /\ \A u \in Threads \ {t} : event'[u] = event[u]
          /\ SameStack(event'[t], event[t])
      BY <3>1, LocalsChange
    <3>3. /\ pc'[t] \in {"presenting", "condition"}
          /\ \A u \in Threads \ {t} : pc'[u] = pc[u]
      BY <1>0, <3>1
    <3> QED
      BY <3>1, <3>2, <3>3, PauseOfOne DEF OfPause, OthersStay, SameStack, InStatement, Places
  <2>5. CASE ConditionEnds(t)
    <3>1. PICK p \in {"conditions", "presenting", "unwinding"} :
             /\ pc' = [pc EXCEPT ![t] = p]
             /\ \/ event' = event
                \/ \E x, y : event' = [event EXCEPT ![t].breakpoint = x, ![t].diagnostic = y]
             /\ pauseRequested' = pauseRequested
      BY <2>5 DEF ConditionEnds, Goto, config
    <3>2. /\ \A u \in Threads \ {t} : event'[u] = event[u]
          /\ SameStack(event'[t], event[t])
      BY <3>1, LocalsChange
    <3>3. pc'[t] = p /\ \A u \in Threads \ {t} : pc'[u] = pc[u]
      BY <1>0, <3>1
    <3> QED
      BY <3>1, <3>2, <3>3, PauseOfOne DEF OfPause, OthersStay, SameStack, InStatement, Places
  <2>6. CASE ConditionsExhausted(t)
    <3>1. /\ \/ pc' = [pc EXCEPT ![t] = "presenting"] /\ event' = event
             \/ /\ pc' = [pc EXCEPT ![t] = "running"] /\ event' = [event EXCEPT ![t] = NoEvent]
                /\ ~event[t].pause
          /\ pauseRequested' = pauseRequested
      BY <2>6 DEF ConditionsExhausted, Goto, PausesDespiteConditions, config
    <3>2. OthersStay(t)
      BY <3>1, OthersStayWhere
    <3>3. event[t].pause => pc'[t] = "presenting" /\ event' = event
      BY <1>0, <3>1
    <3> QED
      BY <3>1, <3>2, <3>3, PauseOfOne DEF OfPause, InStatement, Places
  <2>7. CASE CallHost(t)
    <3>1. PICK f : /\ pc' = [pc EXCEPT ![t] = "callback"]
                   /\ event' = [event EXCEPT ![t].frames = f]
                   /\ pauseRequested' = pauseRequested
      BY <2>7 DEF CallHost, Goto, config
    <3> DEFINE e == [event[t] EXCEPT !.frames = f]
    <3>2. event' = [event EXCEPT ![t] = e] /\ event'[t] = e /\ pc'[t] = "callback"
      BY <1>0, <3>1
    <3>3. e.pause = event[t].pause
      BY <1>0 DEF EventOK, NoEvent
    <3> HIDE DEF e
    <3>4. OthersStay(t)
      BY <3>1, <3>2, OthersStayWhere
    <3> QED
      BY <3>1, <3>2, <3>3, <3>4, PauseOfOne DEF OfPause, InStatement, Places
  <2>8. CASE HostReplies(t) \/ StatementThrows(t)
    <3>1. /\ pc[t] \in {"callback", "unwinding"}
          /\ pc' = [pc EXCEPT ![t] = "running"] /\ event' = [event EXCEPT ![t] = NoEvent]
          /\ pauseRequested' = pauseRequested
      BY <2>8 DEF HostReplies, StatementThrows, ClearPause, Goto, config
    <3>2. OthersStay(t)
      BY <3>1, OthersStayWhere
    <3> QED
      BY <3>1, <3>2, PauseKeptOutside
  <2>9. CASE HostThrows(t) \/ EvaluationEnds(t)
    <3>1. /\ pc[t] \in {"callback", "evaluation"} /\ event' = event
          /\ \E p : pc' = [pc EXCEPT ![t] = p]
          /\ pauseRequested' = pauseRequested
      BY <2>9 DEF HostThrows, EvaluationEnds, Goto, config
    <3>2. OthersStay(t)
      BY <3>1, OthersStayWhere
    <3> QED
      BY <3>1, <3>2, PauseKeptOutside
  <2>10. CASE \E seq \in 0..sequence, frame \in 0..Selected : evaluate(t, seq, frame)
    <3>1. /\ pc[t] \in {"idle", "callback", "evaluation"}
          /\ pc' = [pc EXCEPT ![t] = "evaluation"]
          /\ \E a : event' = [event EXCEPT ![t].asked = a]
          /\ pauseRequested' = pauseRequested
      BY <2>10 DEF evaluate, Goto, config
    <3>2. \A u \in Threads \ {t} : event'[u] = event[u]
      BY <3>1, LocalsChange
    <3>3. OthersStay(t)
      BY <1>0, <3>1, <3>2 DEF OthersStay
    <3> QED
      BY <3>1, <3>3, PauseKeptOutside
  <2>11. CASE \/ \E source \in Sources, line \in Lines : StatementProceeds(t, source, line)
              \/ \E act \in RuntimeDebugAction : requestSourceAction(t, act)
              \/ moveSourceFrame(t)
    <3>1. UNCHANGED <<pc, event, pauseRequested>>
      BY <2>11 DEF StatementProceeds, requestSourceAction, moveSourceFrame, config
    <3> QED
      BY <3>1 DEF PauseKept, InStatement, Places
  <2> QED
    BY <1>2, <2>1, <2>2, <2>3, <2>4, <2>5, <2>6, <2>7, <2>8, <2>9, <2>10, <2>11 DEF Execute
<1> QED
  BY <1>1, <1>2 DEF DebuggerNext

\* A pause request is kept until a statement takes it, and that statement
\* pauses whatever its breakpoint conditions say (StatementSuspends,
\* ConditionsExhausted).
THEOREM PauseIsHonoured == DebuggerSpec => PauseHonoured
<1>1. ExecutorNamed
  BY DebuggerAssumption DEF ExecutorNamed
<1>2. DebuggerInv /\ [DebuggerNext]_debuggerVars => [PauseKept]_debuggerVars
  BY <1>1, PauseKeptByStep
<1>3. DebuggerSpec => [][PauseKept]_debuggerVars
  BY <1>2, DebuggerInvariance, PTL DEF DebuggerSpec
<1> QED
  BY <1>3 DEF PauseHonoured, PauseKept
-----------------------------------------------------------------------------
(***************************************************************************)
(* EmbeddingApi.  The inductive invariant says which locks each call of a  *)
(* stack holds from its phase alone, and that a mutex is owned by the one  *)
(* thread with such calls, as often as there are of them.  A call begins,  *)
(* moves on or returns: the lemmas Pushed, Replaced and Popped say what    *)
(* each does to the levels of a stack that hold a lock.                    *)
(***************************************************************************)

\* The locks a call holds.
HoldsGraph(call) ==
    call.shared /\ call.phase \in {"lock", "running", "callback", "unlock", "ungraph"}
HoldsObject(call) ==
    /\ call.op # "evaluate" /\ call.obj \notin Modules
    /\ call.phase \in {"running", "callback", "unlock"}
Held(call) ==
    {l \in Locks : \/ call.debugging /\ l = call.debugger
                   \/ HoldsGraph(call) /\ l = Graph(call.obj)
                   \/ HoldsObject(call) /\ l = call.obj}

\* The calls of a stack that hold l.
Levels(nest, l) == {i \in 1..Len(nest) : l \in Held(nest[i])}

\* What the phase of a call promises.
WellFormed(call) ==
    /\ call \in ApiCalls
    /\ call.obj \in Runtimes => ~call.shared
    /\ call.obj \in Sessions /\ call.op # "evaluate" => call.shared
    /\ call.op = "evaluate" => /\ call.phase \in {"running", "callback", "return"}
                               /\ ~call.shared
    /\ call.phase \in {"graph", "ungraph"} => call.shared
    /\ call.phase = "lock" /\ call.shared => call.obj \in Sessions
    /\ call.phase = "debug" => call.debugger \in Debuggers /\ ~call.debugging
    /\ call.debugging => /\ call.op = "execute" /\ call.debugger \in Debuggers
                         /\ call.phase \notin {"request", "debug"}
    /\ call.debugger # NoDebugger => call.op = "execute"
    /\ call.callback # "none" => call.phase = "callback"

\* All calls but the innermost wait for a callback.
WellStacked(nest) ==
    /\ nest \in Seq(ApiCalls)
    /\ \A i \in 1..Len(nest) : /\ WellFormed(nest[i])
                               /\ i < Len(nest) => nest[i].phase = "callback"

GuardedCall(call) == call.phase = "callback" /\ call.callback \in Guarded

\* Above a guarded callback there is no other, and nothing is admitted.
UnderGuard(call) ==
    /\ ~GuardedCall(call)
    /\ call.op \in {"execute", "mutate"} => call.phase = "request"

Guard(nest, active) ==
    /\ active <=> \E i \in 1..Len(nest) : GuardedCall(nest[i])
    /\ \A i, j \in 1..Len(nest) :
          i < j /\ GuardedCall(nest[i]) => UnderGuard(nest[j])

\* One invocation per debugger in a stack, and executing tells of it.
Debugs(call, d) == call.debugging /\ call.debugger = d
OneInvocation(nest) ==
    \A d \in Debuggers : \A i, j \in 1..Len(nest) :
        Debugs(nest[i], d) /\ Debugs(nest[j], d) => i = j
Debugging(nest, d) == \E i \in 1..Len(nest) : Debugs(nest[i], d)
Told ==
    \A d \in Debuggers :
        executing[d] <=> \E t \in HostThreads : Debugging(callStack[t], d)

\* A mutex is owned as often as its owner's calls hold it, and held by no call
\* of another thread; a session mutex by one call only.
FreeLock(l) ==
    /\ owner[l] = Free /\ count[l] = 0
    /\ \A t \in HostThreads : Levels(callStack[t], l) = {}
OwnedLock(l) ==
    /\ owner[l] \in HostThreads
    /\ Levels(callStack[owner[l]], l) # {}
    /\ count[l] = Cardinality(Levels(callStack[owner[l]], l))
    /\ \A t \in HostThreads \ {owner[l]} : Levels(callStack[t], l) = {}
    /\ l \in Sessions => count[l] = 1
LocksTell == \A l \in Locks : FreeLock(l) \/ OwnedLock(l)

EmbeddingTypes ==
    /\ owner \in [Locks -> HostThreads \cup {Free}]
    /\ count \in [Locks -> Nat]
    /\ executing \in [Debuggers -> BOOLEAN]
    /\ callbackActive \in [HostThreads -> BOOLEAN]
    /\ DOMAIN callStack = HostThreads

\* What a stack promises, on its own.
StackOK(nest, active) ==
    WellStacked(nest) /\ Guard(nest, active) /\ OneInvocation(nest)
Stacks == \A t \in HostThreads : StackOK(callStack[t], callbackActive[t])

EmbeddingInv == EmbeddingTypes /\ Stacks /\ Told /\ LocksTell
-----------------------------------------------------------------------------
\* A stack with a call pushed, popped or replaced.
LEMMA Pushed ==
  ASSUME NEW S, NEW s \in Seq(S), NEW x \in S
  PROVE  /\ Append(s, x) \in Seq(S)
         /\ Len(Append(s, x)) = Len(s) + 1
         /\ Append(s, x)[Len(s) + 1] = x
         /\ \A i \in 1..Len(s) : Append(s, x)[i] = s[i]
  OBVIOUS

LEMMA Popped ==
  ASSUME NEW S, NEW s \in Seq(S), s # <<>>
  PROVE  /\ Len(s) \in Nat \ {0}
         /\ Last(s) = s[Len(s)] /\ Last(s) \in S
         /\ Front(s) \in Seq(S)
         /\ Len(Front(s)) = Len(s) - 1
         /\ \A i \in 1..(Len(s) - 1) : Front(s)[i] = s[i]
<1>1. Len(s) \in Nat \ {0} /\ \A i \in 1..Len(s) : s[i] \in S
  OBVIOUS
<1>2. Last(s) = s[Len(s)] /\ Last(s) \in S
  BY <1>1 DEF Last
<1>3. /\ Front(s) \in Seq(S)
      /\ Len(Front(s)) = IF 1 <= Len(s) - 1 THEN Len(s) - 1 - 1 + 1 ELSE 0
      /\ \A i \in 1..(Len(s) - 1 - 1 + 1) : Front(s)[i] = s[1 + i - 1]
  BY <1>1, SubSeqProperties DEF Front
<1>4. Len(Front(s)) = Len(s) - 1
  <2>1. \A n \in Nat \ {0} : (IF 1 <= n - 1 THEN n - 1 - 1 + 1 ELSE 0) = n - 1
    OBVIOUS
  <2> QED
    BY <1>1, <1>3, <2>1, Zenon
<1>5. ASSUME NEW i \in 1..(Len(s) - 1)
      PROVE  Front(s)[i] = s[i]
  <2>1. i \in 1..(Len(s) - 1 - 1 + 1) /\ 1 + i - 1 = i
    BY <1>1
  <2> QED
    BY <1>3, <2>1
<1> QED
  BY <1>1, <1>2, <1>3, <1>4, <1>5

LEMMA Replaced ==
  ASSUME NEW S, NEW s \in Seq(S), s # <<>>, NEW x \in S
  PROVE  /\ Append(Front(s), x) \in Seq(S)
         /\ Len(Append(Front(s), x)) = Len(s)
         /\ Append(Front(s), x)[Len(s)] = x
         /\ \A i \in 1..(Len(s) - 1) : Append(Front(s), x)[i] = s[i]
<1>1. /\ Len(s) \in Nat \ {0} /\ Front(s) \in Seq(S) /\ Len(Front(s)) = Len(s) - 1
      /\ \A i \in 1..(Len(s) - 1) : Front(s)[i] = s[i]
  BY Popped
<1> DEFINE f == Front(s)
<1> HIDE DEF f
<1>2. /\ Append(f, x) \in Seq(S) /\ Len(Append(f, x)) = Len(f) + 1
      /\ Append(f, x)[Len(f) + 1] = x
      /\ \A i \in 1..Len(f) : Append(f, x)[i] = f[i]
  BY <1>1, Pushed DEF f
<1> QED
  BY <1>1, <1>2 DEF f

LEMMA FiniteLevels ==
  ASSUME NEW S, NEW s \in Seq(S), NEW l
  PROVE  IsFiniteSet(Levels(s, l)) /\ Levels(s, l) \subseteq 1..Len(s)
<1>1. Levels(s, l) \in SUBSET (1..Len(s)) /\ Len(s) \in Int
  BY DEF Levels
<1>2. IsFiniteSet(1..Len(s))
  BY <1>1, FS_Interval
<1> QED
  BY <1>1, <1>2, FS_Subset

\* What the three changes do to the levels that hold l.
LEMMA PushedLevels ==
  ASSUME NEW S, NEW s \in Seq(S), NEW x \in S, NEW l
  PROVE  Levels(Append(s, x), l)
            = Levels(s, l) \cup (IF l \in Held(x) THEN {Len(s) + 1} ELSE {})
<1> DEFINE t == Append(s, x)
<1>1. Len(t) = Len(s) + 1 /\ t[Len(s) + 1] = x /\ \A i \in 1..Len(s) : t[i] = s[i]
  BY Pushed
<1> HIDE DEF t
<1>2. Len(s) \in Nat
  OBVIOUS
<1>3. Levels(t, l) = Levels(s, l) \cup (IF l \in Held(x) THEN {Len(s) + 1} ELSE {})
  BY <1>1, <1>2 DEF Levels
<1> QED
  BY <1>3 DEF t

LEMMA PoppedLevels ==
  ASSUME NEW S, NEW s \in Seq(S), s # <<>>, NEW l
  PROVE  Levels(Front(s), l) = Levels(s, l) \ {Len(s)}
<1> DEFINE t == Front(s)
<1>1. Len(t) = Len(s) - 1 /\ Len(s) \in Nat \ {0} /\ \A i \in 1..(Len(s) - 1) : t[i] = s[i]
  BY Popped
<1> HIDE DEF t
<1>2. Levels(t, l) = Levels(s, l) \ {Len(s)}
  BY <1>1 DEF Levels
<1> QED
  BY <1>2 DEF t

LEMMA ReplacedLevels ==
  ASSUME NEW S, NEW s \in Seq(S), s # <<>>, NEW x \in S, NEW l
  PROVE  Levels(Append(Front(s), x), l)
            = (Levels(s, l) \ {Len(s)}) \cup (IF l \in Held(x) THEN {Len(s)} ELSE {})
<1> DEFINE t == Append(Front(s), x)
<1>1. /\ Len(t) = Len(s) /\ t[Len(s)] = x
      /\ \A i \in 1..(Len(s) - 1) : t[i] = s[i]
  BY Replaced
<1>2. Len(s) \in Nat \ {0}
  BY Popped
<1> HIDE DEF t
<1>3. Levels(t, l) = (Levels(s, l) \ {Len(s)}) \cup (IF l \in Held(x) THEN {Len(s)} ELSE {})
  BY <1>1, <1>2 DEF Levels
<1> QED
  BY <1>3 DEF t
-----------------------------------------------------------------------------
LEMMA PushOK ==
  ASSUME NEW s, NEW active \in BOOLEAN, StackOK(s, active),
         s # <<>> => Last(s).phase = "callback",
         NEW x, WellFormed(x), ~x.debugging, ~GuardedCall(x),
         active => UnderGuard(x)
  PROVE  StackOK(Append(s, x), active)
<1> DEFINE t == Append(s, x)
<1>1. s \in Seq(ApiCalls) /\ x \in ApiCalls
  BY DEF StackOK, WellStacked, WellFormed
<1>2. /\ t \in Seq(ApiCalls) /\ Len(t) = Len(s) + 1 /\ t[Len(s) + 1] = x
      /\ \A i \in 1..Len(s) : t[i] = s[i]
  BY <1>1, Pushed
<1>3. Len(s) \in Nat /\ (s # <<>> => Len(s) # 0 /\ s[Len(s)].phase = "callback")
  BY <1>1 DEF Last
<1>4. \A i \in 1..Len(s) : s[i].phase = "callback"
  BY <1>1, <1>3 DEF StackOK, WellStacked
<1> HIDE DEF t
<1>5. WellStacked(t)
  BY <1>2, <1>3, <1>4 DEF StackOK, WellStacked
<1>6. Guard(t, active)
  <2>1. \A i \in 1..Len(t) : i \in 1..Len(s) \/ i = Len(s) + 1
    BY <1>2, <1>3
  <2>2. active <=> \E i \in 1..Len(t) : GuardedCall(t[i])
    BY <1>2, <1>3, <2>1 DEF StackOK, Guard
  <2>3. ASSUME NEW i \in 1..Len(t), NEW j \in 1..Len(t), i < j, GuardedCall(t[i])
        PROVE  UnderGuard(t[j])
    BY <1>2, <1>3, <2>1, <2>2, <2>3 DEF StackOK, Guard
  <2> QED
    BY <2>2, <2>3 DEF Guard
<1>7. OneInvocation(t)
  BY <1>2, <1>3 DEF StackOK, OneInvocation, Debugs
<1> QED
  BY <1>5, <1>6, <1>7 DEF StackOK, t

LEMMA PopOK ==
  ASSUME NEW s, NEW active \in BOOLEAN, StackOK(s, active),
         s # <<>>, ~GuardedCall(Last(s))
  PROVE  StackOK(Front(s), active)
<1> DEFINE t == Front(s)
<1>1. s \in Seq(ApiCalls)
  BY DEF StackOK, WellStacked
<1>2. /\ Len(s) \in Nat \ {0} /\ Last(s) = s[Len(s)]
      /\ t \in Seq(ApiCalls) /\ Len(t) = Len(s) - 1
      /\ \A i \in 1..(Len(s) - 1) : t[i] = s[i]
  BY <1>1, Popped
<1> HIDE DEF t
<1>3. WellStacked(t)
  BY <1>2 DEF StackOK, WellStacked
<1>4. Guard(t, active)
  <2>1. \A i \in 1..Len(s) : i \in 1..Len(t) \/ i = Len(s)
    BY <1>2
  <2>2. active <=> \E i \in 1..Len(t) : GuardedCall(t[i])
    BY <1>2, <2>1 DEF StackOK, Guard
  <2>3. \A i, j \in 1..Len(t) : i < j /\ GuardedCall(t[i]) => UnderGuard(t[j])
    BY <1>2 DEF StackOK, Guard
  <2> QED
    BY <2>2, <2>3 DEF Guard
<1>5. OneInvocation(t)
  BY <1>2 DEF StackOK, OneInvocation
<1> QED
  BY <1>3, <1>4, <1>5 DEF StackOK, t

\* Is there a guarded callback below the innermost call?
GuardedBelow(s) == \E i \in 1..(Len(s) - 1) : GuardedCall(s[i])

LEMMA BelowTop ==
  ASSUME NEW s, NEW active \in BOOLEAN, StackOK(s, active), s # <<>>
  PROVE  /\ active <=> GuardedBelow(s) \/ GuardedCall(Last(s))
         /\ GuardedBelow(s) => UnderGuard(Last(s))
         /\ WellFormed(Last(s))
<1>1. s \in Seq(ApiCalls)
  BY DEF StackOK, WellStacked
<1>2. Len(s) \in Nat \ {0} /\ Last(s) = s[Len(s)]
  BY <1>1, Popped
<1>3. \A i \in 1..Len(s) : i \in 1..(Len(s) - 1) \/ i = Len(s)
  BY <1>2
<1> QED
  BY <1>2, <1>3 DEF StackOK, WellStacked, Guard, GuardedBelow

LEMMA ReplaceOK ==
  ASSUME NEW s, NEW active \in BOOLEAN, StackOK(s, active), s # <<>>,
         NEW x, WellFormed(x), NEW after \in BOOLEAN,
         after <=> GuardedBelow(s) \/ GuardedCall(x),
         GuardedBelow(s) => UnderGuard(x),
         \A d \in Debuggers : Debugs(x, d) =>
            \/ Debugs(Last(s), d)
            \/ \A i \in 1..Len(s) : ~Debugs(s[i], d)
  PROVE  StackOK(Append(Front(s), x), after)
<1> DEFINE t == Append(Front(s), x)
<1>1. s \in Seq(ApiCalls) /\ x \in ApiCalls
  BY DEF StackOK, WellStacked, WellFormed
<1>2. Len(s) \in Nat \ {0} /\ Last(s) = s[Len(s)]
  BY <1>1, Popped
<1>3. /\ t \in Seq(ApiCalls) /\ Len(t) = Len(s) /\ t[Len(s)] = x
      /\ \A i \in 1..(Len(s) - 1) : t[i] = s[i]
  BY <1>1, Replaced
<1> HIDE DEF t
<1>4. \A i \in 1..Len(s) : i \in 1..(Len(s) - 1) \/ i = Len(s)
  BY <1>2
<1>5. WellStacked(t)
  BY <1>2, <1>3, <1>4 DEF StackOK, WellStacked
<1>6. Guard(t, after)
  <2>1. after <=> \E i \in 1..Len(t) : GuardedCall(t[i])
    BY <1>2, <1>3, <1>4 DEF GuardedBelow
  <2>2. ASSUME NEW i \in 1..Len(t), NEW j \in 1..Len(t), i < j, GuardedCall(t[i])
        PROVE  UnderGuard(t[j])
    <3>1. i \in 1..(Len(s) - 1) /\ t[i] = s[i]
      BY <1>2, <1>3, <2>2
    <3>2. CASE j = Len(s)
      BY <1>3, <2>2, <3>1, <3>2 DEF GuardedBelow
    <3>3. CASE j # Len(s)
      BY <1>2, <1>3, <1>4, <2>2, <3>1, <3>3 DEF StackOK, Guard
    <3> QED
      BY <3>2, <3>3
  <2> QED
    BY <2>1, <2>2 DEF Guard
<1>7. OneInvocation(t)
  <2> SUFFICES ASSUME NEW d \in Debuggers, NEW i \in 1..Len(t), NEW j \in 1..Len(t),
                      Debugs(t[i], d), Debugs(t[j], d)
               PROVE  i = j
    BY DEF OneInvocation
  <2>1. /\ i = Len(s) \/ (i \in 1..(Len(s) - 1) /\ Debugs(s[i], d))
        /\ j = Len(s) \/ (j \in 1..(Len(s) - 1) /\ Debugs(s[j], d))
    BY <1>3, <1>4
  <2>2. i = Len(s) \/ j = Len(s) => Debugs(x, d)
    BY <1>3
  <2> QED
    BY <1>2, <1>4, <2>1, <2>2 DEF StackOK, OneInvocation
<1> QED
  BY <1>5, <1>6, <1>7 DEF StackOK, t
-----------------------------------------------------------------------------
\* What one step may do to the locks: none, take one, give one back.
LEMMA SetChanges ==
  ASSUME NEW A, NEW B, NEW n, NEW b \in BOOLEAN,
         B = (A \ {n}) \cup (IF b THEN {n} ELSE {})
  PROVE  /\ (n \in A <=> b) => B = A
         /\ b => B = A \cup {n}
         /\ ~b => B = A \ {n}
<1>1. CASE b
  BY <1>1
<1>2. CASE ~b
  BY <1>2
<1> QED
  BY <1>1, <1>2

LEMMA LocksStay ==
  ASSUME LocksTell, EmbeddingTypes, UNCHANGED <<owner, count>>,
         \A t \in HostThreads, l \in Locks :
            Levels(callStack'[t], l) = Levels(callStack[t], l)
  PROVE  LocksTell'
<1> SUFFICES ASSUME NEW l \in Locks
             PROVE  (FreeLock(l) \/ OwnedLock(l))'
  BY DEF LocksTell
<1>1. CASE FreeLock(l)
  BY <1>1 DEF FreeLock
<1>2. CASE OwnedLock(l)
  BY <1>2 DEF OwnedLock
<1> QED
  BY <1>1, <1>2 DEF LocksTell

\* A lock the step does not touch.
LEMMA OtherLock ==
  ASSUME NEW l \in Locks, FreeLock(l) \/ OwnedLock(l),
         owner'[l] = owner[l], count'[l] = count[l],
         \A t \in HostThreads : Levels(callStack'[t], l) = Levels(callStack[t], l)
  PROVE  (FreeLock(l) \/ OwnedLock(l))'
<1>1. CASE FreeLock(l)
  BY <1>1 DEF FreeLock
<1>2. CASE OwnedLock(l)
  BY <1>2 DEF OwnedLock
<1> QED
  BY <1>1, <1>2

LEMMA LockTaken ==
  ASSUME EmbeddingAssumption, LocksTell, EmbeddingTypes,
         \A u \in HostThreads : callStack[u] \in Seq(ApiCalls),
         NEW t \in HostThreads, NEW k \in Locks, Lock(t, k),
         NEW n, n \notin Levels(callStack[t], k),
         Levels(callStack'[t], k) = Levels(callStack[t], k) \cup {n},
         \A u \in HostThreads, l \in Locks :
            u # t \/ l # k => Levels(callStack'[u], l) = Levels(callStack[u], l)
  PROVE  LocksTell'
<1> SUFFICES ASSUME NEW l \in Locks
             PROVE  (FreeLock(l) \/ OwnedLock(l))'
  BY DEF LocksTell
<1>1. CASE l # k
  BY <1>1, OtherLock DEF LocksTell, EmbeddingTypes, Lock
<1>2. CASE l = k
  <2> DEFINE before == Levels(callStack[t], k)
             after == Levels(callStack'[t], k)
  <2>1. IsFiniteSet(before)
    BY FiniteLevels
  <2>2. owner'[k] = t /\ count'[k] = count[k] + 1
    BY DEF EmbeddingTypes, Lock
  <2>3. \A u \in HostThreads \ {t} : Levels(callStack'[u], k) = Levels(callStack[u], k)
    OBVIOUS
  <2>4. Cardinality(after) = Cardinality(before) + 1 /\ after # {}
    <3>1. after = before \cup {n} /\ n \notin before
      OBVIOUS
    <3> HIDE DEF before, after
    <3> QED
      BY <2>1, <3>1, FS_AddElement
  <2>5. t # Free
    BY DEF EmbeddingAssumption
  <2> HIDE DEF before, after
  <2>6. CASE FreeLock(k)
    <3>1. Cardinality(before) = 0 /\ count[k] = 0
      BY <2>6, FS_EmptySet DEF FreeLock, before
    <3>2. \A u \in HostThreads \ {t} : Levels(callStack'[u], k) = {}
      BY <2>3, <2>6 DEF FreeLock
    <3>3. owner'[k] \in HostThreads /\ count'[k] = 1
      BY <2>2, <3>1
    <3>4. Levels(callStack'[owner'[k]], k) = after /\ count'[k] = Cardinality(after)
      BY <2>2, <2>4, <3>1 DEF after
    <3>5. OwnedLock(k)'
      BY <2>2, <2>4, <3>2, <3>3, <3>4 DEF OwnedLock
    <3> QED
      BY <1>2, <3>5
  <2>7. CASE OwnedLock(k)
    <3>1. owner[k] = t /\ k \in Recursive
      BY <2>7 DEF Lock, CanLock, OwnedLock, EmbeddingAssumption
    <3>2. count[k] = Cardinality(before)
      BY <2>7, <3>1 DEF OwnedLock, before
    <3>3. \A u \in HostThreads \ {t} : Levels(callStack'[u], k) = {}
      BY <2>3, <2>7, <3>1 DEF OwnedLock
    <3>4. owner'[k] \in HostThreads /\ k \notin Sessions
      BY <2>2, <3>1 DEF Recursive
    <3>5. Levels(callStack'[owner'[k]], k) = after /\ count'[k] = Cardinality(after)
      BY <2>2, <2>4, <3>2 DEF after
    <3>6. OwnedLock(k)'
      BY <2>2, <2>4, <3>3, <3>4, <3>5 DEF OwnedLock
    <3> QED
      BY <1>2, <3>6
  <2> QED
    BY <2>6, <2>7 DEF LocksTell
<1> QED
  BY <1>1, <1>2

LEMMA LockGiven ==
  ASSUME EmbeddingAssumption, LocksTell, EmbeddingTypes,
         \A u \in HostThreads : callStack[u] \in Seq(ApiCalls),
         NEW t \in HostThreads, NEW k \in Locks, Unlock(k),
         NEW n, n \in Levels(callStack[t], k),
         Levels(callStack'[t], k) = Levels(callStack[t], k) \ {n},
         \A u \in HostThreads, l \in Locks :
            u # t \/ l # k => Levels(callStack'[u], l) = Levels(callStack[u], l)
  PROVE  LocksTell' /\ owner[k] = t /\ count[k] # 0
<1> DEFINE before == Levels(callStack[t], k)
           after == Levels(callStack'[t], k)
<1>1. /\ OwnedLock(k) /\ owner[k] = t /\ count[k] = Cardinality(before)
      /\ \A u \in HostThreads \ {t} : Levels(callStack'[u], k) = {}
  <2>1. OwnedLock(k)
    BY DEF LocksTell, FreeLock
  <2>2. owner[k] = t
    BY <2>1 DEF OwnedLock
  <2>3. \A u \in HostThreads \ {t} : Levels(callStack'[u], k) = Levels(callStack[u], k)
    OBVIOUS
  <2> QED
    BY <2>1, <2>2, <2>3 DEF OwnedLock
<1>2. IsFiniteSet(before)
  BY FiniteLevels
<1>3. IsFiniteSet(after) /\ Cardinality(after) = Cardinality(before) - 1
  BY <1>2, FS_RemoveElement
<1>4. Cardinality(before) \in Nat
  BY <1>2, FS_CardinalityType
<1>5. /\ owner'[k] = IF count[k] = 1 THEN Free ELSE t
      /\ count'[k] = count[k] - 1
  BY <1>1 DEF EmbeddingTypes, Unlock
<1> HIDE DEF before, after
<1>6. after = {} <=> count[k] = 1
  BY <1>1, <1>3, <1>4, FS_EmptySet
<1>7. (FreeLock(k) \/ OwnedLock(k))'
  <2>1. CASE count[k] = 1
    <3>1. owner'[k] = Free /\ count'[k] = 0 /\ after = {}
      BY <1>5, <1>6, <2>1
    <3>2. FreeLock(k)'
      BY <1>1, <3>1 DEF FreeLock, after
    <3> QED
      BY <3>2
  <2>2. CASE count[k] # 1
    <3>1. owner'[k] = t /\ count'[k] = Cardinality(after) /\ after # {}
      BY <1>1, <1>3, <1>5, <1>6, <2>2
    <3>2. k \notin Sessions
      BY <1>1, <2>2 DEF OwnedLock
    <3>3. OwnedLock(k)'
      BY <1>1, <3>1, <3>2 DEF OwnedLock, after
    <3> QED
      BY <3>3
  <2> QED
    BY <2>1, <2>2
<1>8. ASSUME NEW l \in Locks, l # k
      PROVE  (FreeLock(l) \/ OwnedLock(l))'
  BY <1>8, OtherLock DEF LocksTell, EmbeddingTypes, Unlock
<1>9. LocksTell'
  BY <1>7, <1>8 DEF LocksTell
<1>10. before # {} => Cardinality(before) # 0
  BY <1>2, FS_EmptySet
<1> QED
  BY <1>1, <1>9, <1>10 DEF before
-----------------------------------------------------------------------------
LEMMA PushedDebugs ==
  ASSUME NEW S, NEW s \in Seq(S), NEW x \in S, NEW d
  PROVE  Debugging(Append(s, x), d) <=> Debugging(s, d) \/ Debugs(x, d)
<1> DEFINE t == Append(s, x)
<1>1. Len(t) = Len(s) + 1 /\ t[Len(s) + 1] = x /\ \A i \in 1..Len(s) : t[i] = s[i]
  BY Pushed
<1>2. Len(s) \in Nat
  OBVIOUS
<1> HIDE DEF t
<1>3. Debugging(t, d) <=> Debugging(s, d) \/ Debugs(x, d)
  BY <1>1, <1>2 DEF Debugging
<1> QED
  BY <1>3 DEF t

LEMMA TopDebugs ==
  ASSUME NEW S, NEW s \in Seq(S), s # <<>>, NEW d
  PROVE  Debugging(s, d) <=> Debugging(Front(s), d) \/ Debugs(Last(s), d)
<1> DEFINE t == Front(s)
<1>1. /\ Len(t) = Len(s) - 1 /\ Len(s) \in Nat \ {0} /\ Last(s) = s[Len(s)]
      /\ \A i \in 1..(Len(s) - 1) : t[i] = s[i]
  BY Popped
<1> HIDE DEF t
<1>2. Debugging(s, d) <=> Debugging(t, d) \/ Debugs(Last(s), d)
  <2>1. \A i \in 1..Len(s) : i \in 1..Len(t) \/ i = Len(s)
    BY <1>1
  <2>2. Len(s) \in 1..Len(s) /\ \A i \in 1..Len(t) : i \in 1..Len(s) /\ t[i] = s[i]
    BY <1>1
  <2>3. Debugging(s, d) => Debugging(t, d) \/ Debugs(Last(s), d)
    BY <1>1, <2>1, <2>2 DEF Debugging
  <2>4. Debugging(t, d) \/ Debugs(Last(s), d) => Debugging(s, d)
    BY <1>1, <2>2 DEF Debugging
  <2> QED
    BY <2>3, <2>4
<1> QED
  BY <1>2 DEF t

LEMMA ToldStays ==
  ASSUME Told, executing' = executing,
         \A u \in HostThreads, d \in Debuggers :
            Debugging(callStack'[u], d) <=> Debugging(callStack[u], d)
  PROVE  Told'
  BY DEF Told

\* A thread's innermost call becomes x, and its flag after.
LEMMA TopBecomes ==
  ASSUME EmbeddingTypes, Stacks, NEW t \in HostThreads, callStack[t] # <<>>,
         NEW x, WellFormed(x), ReplaceTop(t, x), NEW after \in BOOLEAN,
         callbackActive' = [callbackActive EXCEPT ![t] = after],
         after <=> GuardedBelow(callStack[t]) \/ GuardedCall(x),
         GuardedBelow(callStack[t]) => UnderGuard(x),
         \A d \in Debuggers : Debugs(x, d) =>
            \/ Debugs(Top(t), d)
            \/ ~Debugging(callStack[t], d)
  PROVE  /\ Stacks'
         /\ DOMAIN callStack' = HostThreads
         /\ callbackActive' \in [HostThreads -> BOOLEAN]
         /\ \A u \in HostThreads \ {t} : callStack'[u] = callStack[u]
         /\ \A l : Levels(callStack'[t], l)
                     = (Levels(callStack[t], l) \ {Len(callStack[t])})
                         \cup (IF l \in Held(x) THEN {Len(callStack[t])} ELSE {})
         /\ \A d : Debugging(callStack'[t], d)
                      <=> Debugging(Front(callStack[t]), d) \/ Debugs(x, d)
<1> DEFINE s == callStack[t]
<1>1. /\ callStack' = [callStack EXCEPT ![t] = Append(Front(s), x)]
      /\ DOMAIN callStack = HostThreads
  BY DEF ReplaceTop, EmbeddingTypes
<1>2. /\ callStack'[t] = Append(Front(s), x) /\ DOMAIN callStack' = HostThreads
      /\ \A u \in HostThreads \ {t} : callStack'[u] = callStack[u]
  BY <1>1
<1>3. /\ callbackActive' \in [HostThreads -> BOOLEAN] /\ callbackActive'[t] = after
      /\ \A u \in HostThreads \ {t} : callbackActive'[u] = callbackActive[u]
  BY DEF EmbeddingTypes
<1>4. StackOK(s, callbackActive[t]) /\ callbackActive[t] \in BOOLEAN
  BY DEF Stacks, EmbeddingTypes
<1>5. s \in Seq(ApiCalls) /\ x \in ApiCalls
  BY <1>4 DEF StackOK, WellStacked, WellFormed
<1>6. StackOK(Append(Front(s), x), after)
  <2>1. \A d \in Debuggers : Debugs(x, d) =>
            \/ Debugs(Last(s), d)
            \/ \A i \in 1..Len(s) : ~Debugs(s[i], d)
    BY DEF Debugging, Top
  <2> QED
    BY <1>4, <2>1, ReplaceOK
<1>7. Stacks'
  <2> SUFFICES ASSUME NEW u \in HostThreads
               PROVE  StackOK(callStack'[u], callbackActive'[u])
    BY DEF Stacks
  <2>1. CASE u = t
    BY <1>2, <1>3, <1>6, <2>1
  <2>2. CASE u # t
    BY <1>2, <1>3, <2>2 DEF Stacks
  <2> QED
    BY <2>1, <2>2
<1>8. \A l : Levels(callStack'[t], l)
               = (Levels(s, l) \ {Len(s)}) \cup (IF l \in Held(x) THEN {Len(s)} ELSE {})
  BY <1>2, <1>5, ReplacedLevels
<1>9. \A d : Debugging(callStack'[t], d) <=> Debugging(Front(s), d) \/ Debugs(x, d)
  BY <1>2, <1>5, Popped, PushedDebugs, SMTT(30)
<1> QED
  BY <1>2, <1>3, <1>7, <1>8, <1>9

\* A call begins.
LEMMA Begins ==
  ASSUME EmbeddingInv, NEW t \in HostThreads, NEW x, Begin(t, x),
         WellFormed(x), ~x.debugging, ~GuardedCall(x), UnderGuard(x), Held(x) = {}
  PROVE  EmbeddingInv'
<1> DEFINE s == callStack[t]
<1>1. /\ callStack' = [callStack EXCEPT ![t] = Append(s, x)]
      /\ DOMAIN callStack = HostThreads
      /\ UNCHANGED <<owner, count, executing, callbackActive>>
  BY DEF Begin, EmbeddingInv, EmbeddingTypes
<1>2. /\ callStack'[t] = Append(s, x) /\ DOMAIN callStack' = HostThreads
      /\ \A u \in HostThreads \ {t} : callStack'[u] = callStack[u]
  BY <1>1
<1>3. StackOK(s, callbackActive[t]) /\ callbackActive[t] \in BOOLEAN
  BY DEF EmbeddingInv, Stacks, EmbeddingTypes
<1>4. s \in Seq(ApiCalls) /\ x \in ApiCalls
  BY <1>3 DEF StackOK, WellStacked, WellFormed
<1>5. StackOK(Append(s, x), callbackActive[t])
  <2>1. s # <<>> => Last(s).phase = "callback"
    BY DEF Begin, HostRuns, In, Top
  <2> QED
    BY <1>3, <2>1, PushOK
<1>6. Stacks'
  <2> SUFFICES ASSUME NEW u \in HostThreads
               PROVE  StackOK(callStack'[u], callbackActive'[u])
    BY DEF Stacks
  <2>1. CASE u = t
    BY <1>1, <1>2, <1>5, <2>1
  <2>2. CASE u # t
    BY <1>1, <1>2, <2>2 DEF Stacks, EmbeddingInv
  <2> QED
    BY <2>1, <2>2
<1>7. \A l : \A u \in HostThreads : Levels(callStack'[u], l) = Levels(callStack[u], l)
  <2> SUFFICES ASSUME NEW u \in HostThreads, NEW l
               PROVE  Levels(callStack'[u], l) = Levels(callStack[u], l)
    OBVIOUS
  <2>1. CASE u = t
    <3>1. l \notin Held(x)
      OBVIOUS
    <3>2. Levels(Append(s, x), l)
             = Levels(s, l) \cup (IF l \in Held(x) THEN {Len(s) + 1} ELSE {})
      BY <1>4, PushedLevels
    <3> QED
      BY <1>2, <2>1, <3>1, <3>2
  <2>2. CASE u # t
    BY <1>2, <2>2
  <2> QED
    BY <2>1, <2>2
<1>8. \A d : \A u \in HostThreads : Debugging(callStack'[u], d) <=> Debugging(callStack[u], d)
  <2> SUFFICES ASSUME NEW u \in HostThreads, NEW d
               PROVE  Debugging(callStack'[u], d) <=> Debugging(callStack[u], d)
    OBVIOUS
  <2>1. CASE u = t
    <3>1. Debugging(Append(s, x), d) <=> Debugging(s, d)
      BY <1>4, PushedDebugs DEF Debugs
    <3> QED
      BY <1>2, <2>1, <3>1
  <2>2. CASE u # t
    BY <1>2, <2>2
  <2> QED
    BY <2>1, <2>2
<1>9. Told' /\ LocksTell'
  BY <1>1, <1>7, <1>8, ToldStays, LocksStay DEF EmbeddingInv
<1> QED
  BY <1>1, <1>2, <1>6, <1>9 DEF EmbeddingInv, EmbeddingTypes

\* What the innermost call keeps when the step leaves executing alone.
SameDebugger(x, y) == x.debugging = y.debugging /\ x.debugger = y.debugger

LEMMA ToldByReplaced ==
  ASSUME EmbeddingInv, NEW t \in HostThreads, callStack[t] # <<>>,
         executing' = executing, NEW x, SameDebugger(x, Top(t)),
         \A u \in HostThreads \ {t} : callStack'[u] = callStack[u],
         \A d : Debugging(callStack'[t], d)
                  <=> Debugging(Front(callStack[t]), d) \/ Debugs(x, d)
  PROVE  Told'
<1>1. callStack[t] \in Seq(ApiCalls)
  BY DEF EmbeddingInv, Stacks, StackOK, WellStacked
<1>2. \A d : Debugs(x, d) <=> Debugs(Last(callStack[t]), d)
  BY DEF SameDebugger, Debugs, Top
<1>3. \A d : Debugging(callStack'[t], d) <=> Debugging(callStack[t], d)
  BY <1>1, <1>2, TopDebugs
<1>4. \A u \in HostThreads, d \in Debuggers :
         Debugging(callStack'[u], d) <=> Debugging(callStack[u], d)
  BY <1>3
<1> QED
  BY <1>4, ToldStays DEF EmbeddingInv

\* The facts about the innermost call every step starts from.
LEMMA AtTop ==
  ASSUME EmbeddingInv, NEW t \in HostThreads, callStack[t] # <<>>
  PROVE  /\ callStack[t] \in Seq(ApiCalls)
         /\ WellFormed(Top(t))
         /\ callbackActive[t] \in BOOLEAN
         /\ callbackActive[t] <=> GuardedBelow(callStack[t]) \/ GuardedCall(Top(t))
         /\ GuardedBelow(callStack[t]) => UnderGuard(Top(t))
         /\ \A l : Len(callStack[t]) \in Levels(callStack[t], l) <=> l \in Held(Top(t))
<1>1. StackOK(callStack[t], callbackActive[t]) /\ callbackActive[t] \in BOOLEAN
  BY DEF EmbeddingInv, Stacks, EmbeddingTypes
<1>2. callStack[t] \in Seq(ApiCalls)
  BY <1>1 DEF StackOK, WellStacked
<1>3. /\ callbackActive[t] <=> GuardedBelow(callStack[t]) \/ GuardedCall(Top(t))
      /\ GuardedBelow(callStack[t]) => UnderGuard(Top(t))
      /\ WellFormed(Top(t))
  BY <1>1, BelowTop DEF Top
<1>4. Len(callStack[t]) \in Nat \ {0} /\ Top(t) = callStack[t][Len(callStack[t])]
  BY <1>2, Popped DEF Top
<1>5. \A l : Len(callStack[t]) \in Levels(callStack[t], l) <=> l \in Held(Top(t))
  BY <1>4 DEF Levels
<1> QED
  BY <1>1, <1>2, <1>3, <1>5

\* A call moves on and holds the same locks.
LEMMA Moves ==
  ASSUME EmbeddingInv, NEW t \in HostThreads, callStack[t] # <<>>,
         NEW x, WellFormed(x), ReplaceTop(t, x), SameDebugger(x, Top(t)),
         Held(x) = Held(Top(t)), LocksKept, executing' = executing,
         NEW after \in BOOLEAN,
         callbackActive' = [callbackActive EXCEPT ![t] = after],
         after <=> GuardedBelow(callStack[t]) \/ GuardedCall(x),
         GuardedBelow(callStack[t]) => UnderGuard(x)
  PROVE  EmbeddingInv'
<1>1. /\ Stacks'
      /\ DOMAIN callStack' = HostThreads
      /\ callbackActive' \in [HostThreads -> BOOLEAN]
      /\ \A u \in HostThreads \ {t} : callStack'[u] = callStack[u]
      /\ \A l : Levels(callStack'[t], l)
                  = (Levels(callStack[t], l) \ {Len(callStack[t])})
                      \cup (IF l \in Held(x) THEN {Len(callStack[t])} ELSE {})
      /\ \A d : Debugging(callStack'[t], d)
                   <=> Debugging(Front(callStack[t]), d) \/ Debugs(x, d)
  <2>1. \A d \in Debuggers : Debugs(x, d) => Debugs(Top(t), d)
    BY DEF SameDebugger, Debugs
  <2> QED
    BY <2>1, TopBecomes DEF EmbeddingInv
<1>2. Told'
  BY <1>1, ToldByReplaced
<1>3. \A l : Levels(callStack'[t], l) = Levels(callStack[t], l)
  BY <1>1, AtTop, SetChanges
<1>4. LocksTell'
  BY <1>1, <1>3, LocksStay DEF EmbeddingInv, LocksKept
<1> QED
  BY <1>1, <1>2, <1>4 DEF EmbeddingInv, EmbeddingTypes, LocksKept

\* It moves on and takes, or gives back, one lock.
LEMMA MovesLocking ==
  ASSUME EmbeddingInv, EmbeddingAssumption, NEW t \in HostThreads, callStack[t] # <<>>,
         NEW x, WellFormed(x), ReplaceTop(t, x), SameDebugger(x, Top(t)),
         ~GuardedCall(Top(t)), ~GuardedCall(x),
         GuardedBelow(callStack[t]) => UnderGuard(x),
         UNCHANGED <<executing, callbackActive>>,
         NEW k \in Locks,
         \/ Lock(t, k) /\ k \notin Held(Top(t)) /\ Held(x) = Held(Top(t)) \cup {k}
         \/ Unlock(k) /\ k \in Held(Top(t)) /\ Held(x) = Held(Top(t)) \ {k}
  PROVE  EmbeddingInv'
<1>1. /\ Stacks'
      /\ DOMAIN callStack' = HostThreads
      /\ callbackActive' \in [HostThreads -> BOOLEAN]
      /\ \A u \in HostThreads \ {t} : callStack'[u] = callStack[u]
      /\ \A l : Levels(callStack'[t], l)
                  = (Levels(callStack[t], l) \ {Len(callStack[t])})
                      \cup (IF l \in Held(x) THEN {Len(callStack[t])} ELSE {})
      /\ \A d : Debugging(callStack'[t], d)
                   <=> Debugging(Front(callStack[t]), d) \/ Debugs(x, d)
  <2>1. \A d \in Debuggers : Debugs(x, d) => Debugs(Top(t), d)
    BY DEF SameDebugger, Debugs
  <2>2. callbackActive' = [callbackActive EXCEPT ![t] = callbackActive[t]]
    BY DEF EmbeddingInv, EmbeddingTypes
  <2>3. /\ callbackActive[t] \in BOOLEAN
        /\ callbackActive[t] <=> GuardedBelow(callStack[t]) \/ GuardedCall(x)
    BY AtTop
  <2> QED
    BY <2>1, <2>2, <2>3, TopBecomes DEF EmbeddingInv
<1>2. Told'
  BY <1>1, ToldByReplaced
<1>3. \A u \in HostThreads : callStack[u] \in Seq(ApiCalls)
  BY DEF EmbeddingInv, Stacks, StackOK, WellStacked
<1> DEFINE n == Len(callStack[t])
<1>4. \A l : n \in Levels(callStack[t], l) <=> l \in Held(Top(t))
  BY AtTop
<1>5. /\ \A l : l # k => Levels(callStack'[t], l) = Levels(callStack[t], l)
      /\ k \in Held(x) => Levels(callStack'[t], k) = Levels(callStack[t], k) \cup {n}
      /\ k \notin Held(x) => Levels(callStack'[t], k) = Levels(callStack[t], k) \ {n}
  <2>1. \A l : l # k => (l \in Held(x) <=> l \in Held(Top(t)))
    OBVIOUS
  <2>2. \A l : (l \in Held(x)) \in BOOLEAN
    OBVIOUS
  <2>3. \A l : Levels(callStack'[t], l)
                = (Levels(callStack[t], l) \ {n}) \cup (IF l \in Held(x) THEN {n} ELSE {})
    BY <1>1
  <2> HIDE DEF n
  <2>4. ASSUME NEW l, l # k
        PROVE  Levels(callStack'[t], l) = Levels(callStack[t], l)
    <3>1. n \in Levels(callStack[t], l) <=> l \in Held(x)
      BY <1>4, <2>1, <2>4
    <3> DEFINE A == Levels(callStack[t], l)
               B == Levels(callStack'[t], l)
               b == l \in Held(x)
    <3>2. B = (A \ {n}) \cup (IF b THEN {n} ELSE {}) /\ (n \in A <=> b)
      BY <2>3, <3>1
    <3> HIDE DEF A, B, b
    <3>3. B = A
      <4>1. CASE b
        BY <3>2, <4>1
      <4>2. CASE ~b
        BY <3>2, <4>2
      <4> QED
        BY <4>1, <4>2
    <3> QED
      BY <3>3 DEF A, B
  <2>5. /\ k \in Held(x) => Levels(callStack'[t], k) = Levels(callStack[t], k) \cup {n}
        /\ k \notin Held(x) => Levels(callStack'[t], k) = Levels(callStack[t], k) \ {n}
    BY <2>2, <2>3, SetChanges
  <2> QED
    BY <2>4, <2>5
<1>6. /\ LocksTell'
      /\ owner' \in [Locks -> HostThreads \cup {Free}] /\ count' \in [Locks -> Nat]
  <2>0. ASSUME NEW u \in HostThreads, NEW l \in Locks, u # t \/ l # k
        PROVE  Levels(callStack'[u], l) = Levels(callStack[u], l)
    <3>1. CASE u # t
      BY <1>1, <3>1
    <3>2. CASE u = t
      BY <1>5, <2>0, <3>2
    <3> QED
      BY <3>1, <3>2
  <2>1. CASE Lock(t, k) /\ k \notin Held(Top(t)) /\ Held(x) = Held(Top(t)) \cup {k}
    <3>1. /\ n \notin Levels(callStack[t], k)
          /\ Levels(callStack'[t], k) = Levels(callStack[t], k) \cup {n}
      BY <1>4, <1>5, <2>1
    <3>2. EmbeddingTypes /\ LocksTell
      BY DEF EmbeddingInv
    <3>3. Lock(t, k)
      BY <2>1
    <3> HIDE DEF n
    <3>4. LocksTell'
      BY <1>3, <2>0, <3>1, <3>2, <3>3, LockTaken, ZenonT(60)
    <3> QED
      BY <2>1, <3>4 DEF EmbeddingInv, EmbeddingTypes, Lock
  <2>2. CASE Unlock(k) /\ k \in Held(Top(t)) /\ Held(x) = Held(Top(t)) \ {k}
    <3>1. /\ n \in Levels(callStack[t], k)
          /\ Levels(callStack'[t], k) = Levels(callStack[t], k) \ {n}
      BY <1>4, <1>5, <2>2
    <3>2. EmbeddingTypes /\ LocksTell
      BY DEF EmbeddingInv
    <3>3. Unlock(k)
      BY <2>2
    <3> HIDE DEF n
    <3>4. LocksTell' /\ count[k] # 0
      BY <1>3, <2>0, <3>1, <3>2, <3>3, LockGiven
    <3> QED
      BY <2>2, <3>4 DEF EmbeddingInv, EmbeddingTypes, Unlock
  <2> QED
    BY <2>1, <2>2
<1> QED
  BY <1>1, <1>2, <1>6 DEF EmbeddingInv, EmbeddingTypes

\* A thread's innermost call returns.
LEMMA TopReturns ==
  ASSUME EmbeddingInv, NEW t \in HostThreads, callStack[t] # <<>>, Return(t),
         callbackActive' = callbackActive, ~GuardedCall(Top(t))
  PROVE  /\ Stacks'
         /\ DOMAIN callStack' = HostThreads
         /\ \A u \in HostThreads \ {t} : callStack'[u] = callStack[u]
         /\ \A l : Levels(callStack'[t], l) = Levels(callStack[t], l) \ {Len(callStack[t])}
         /\ \A d : Debugging(callStack[t], d)
                      <=> Debugging(callStack'[t], d) \/ Debugs(Top(t), d)
<1> DEFINE s == callStack[t]
<1>1. /\ callStack' = [callStack EXCEPT ![t] = Front(s)]
      /\ DOMAIN callStack = HostThreads
  BY DEF Return, EmbeddingInv, EmbeddingTypes
<1>2. /\ callStack'[t] = Front(s) /\ DOMAIN callStack' = HostThreads
      /\ \A u \in HostThreads \ {t} : callStack'[u] = callStack[u]
  BY <1>1
<1>3. StackOK(s, callbackActive[t]) /\ callbackActive[t] \in BOOLEAN /\ s \in Seq(ApiCalls)
  BY AtTop DEF EmbeddingInv, Stacks
<1>4. StackOK(Front(s), callbackActive[t])
  BY <1>3, PopOK DEF Top
<1>5. Stacks'
  <2> SUFFICES ASSUME NEW u \in HostThreads
               PROVE  StackOK(callStack'[u], callbackActive'[u])
    BY DEF Stacks
  <2>1. CASE u = t
    BY <1>2, <1>4, <2>1
  <2>2. CASE u # t
    BY <1>2, <2>2 DEF Stacks, EmbeddingInv
  <2> QED
    BY <2>1, <2>2
<1>6. \A l : Levels(callStack'[t], l) = Levels(s, l) \ {Len(s)}
  BY <1>2, <1>3, PoppedLevels
<1>7. \A d : Debugging(s, d) <=> Debugging(callStack'[t], d) \/ Debugs(Top(t), d)
  BY <1>2, <1>3, TopDebugs DEF Top
<1> QED
  BY <1>2, <1>5, <1>6, <1>7

LEMMA Leaves ==
  ASSUME EmbeddingInv, NEW t \in HostThreads, callStack[t] # <<>>, Return(t), LocksKept,
         UNCHANGED <<executing, callbackActive>>,
         ~GuardedCall(Top(t)), ~Top(t).debugging, Held(Top(t)) = {}
  PROVE  EmbeddingInv'
<1>1. /\ Stacks'
      /\ DOMAIN callStack' = HostThreads
      /\ \A u \in HostThreads \ {t} : callStack'[u] = callStack[u]
      /\ \A l : Levels(callStack'[t], l) = Levels(callStack[t], l) \ {Len(callStack[t])}
      /\ \A d : Debugging(callStack[t], d)
                   <=> Debugging(callStack'[t], d) \/ Debugs(Top(t), d)
  BY TopReturns
<1>2. ASSUME NEW l
      PROVE  Levels(callStack'[t], l) = Levels(callStack[t], l)
  <2>1. Len(callStack[t]) \notin Levels(callStack[t], l)
    BY AtTop
  <2> QED
    BY <1>1, <2>1
<1>3. LocksTell'
  BY <1>1, <1>2, LocksStay DEF EmbeddingInv, LocksKept
<1>4. \A d : Debugging(callStack[t], d) <=> Debugging(callStack'[t], d)
  BY <1>1 DEF Debugs
<1>5. Told'
  <2>1. \A u \in HostThreads, d \in Debuggers :
            Debugging(callStack'[u], d) <=> Debugging(callStack[u], d)
    BY <1>1, <1>4
  <2> QED
    BY <2>1, ToldStays DEF EmbeddingInv
<1> QED
  BY <1>1, <1>3, <1>5 DEF EmbeddingInv, EmbeddingTypes, LocksKept
-----------------------------------------------------------------------------
LEMMA ExecuteRequestInv ==
  ASSUME EmbeddingInv, EmbeddingAssumption, NEW t \in HostThreads, ExecuteRequest(t)
  PROVE  EmbeddingInv'
<1>1. PICK obj \in Objects, debugger \in Debuggers \cup {NoDebugger}, bound \in BOOLEAN :
         /\ obj \notin Modules => bound = (obj \in Sessions)
         /\ Begin(t, Call("execute", obj, debugger, bound))
  BY DEF ExecuteRequest
<1> DEFINE x == Call("execute", obj, debugger, bound)
<1>2. WellFormed(x)
  BY <1>1 DEF WellFormed, Call, ApiCalls, Operations, Phases, Callbacks,
              EmbeddingAssumption, Objects
<1>3. ~x.debugging /\ ~GuardedCall(x) /\ UnderGuard(x) /\ Held(x) = {}
  BY DEF Call, GuardedCall, UnderGuard, Held, HoldsGraph, HoldsObject
<1> HIDE DEF x
<1> QED
  BY <1>1, <1>2, <1>3, Begins DEF x

LEMMA MutateInv ==
  ASSUME EmbeddingInv, EmbeddingAssumption, NEW t \in HostThreads, Mutate(t)
  PROVE  EmbeddingInv'
<1>1. PICK obj \in Sessions \cup Runtimes :
         Begin(t, Call("mutate", obj, NoDebugger, obj \in Sessions))
  BY DEF Mutate
<1> DEFINE bound == obj \in Sessions
           x == Call("mutate", obj, NoDebugger, bound)
<1>2. Begin(t, x) /\ bound \in BOOLEAN /\ (bound <=> obj \in Sessions)
  BY <1>1
<1> HIDE DEF bound
<1>3. WellFormed(x)
  BY <1>2 DEF WellFormed, Call, ApiCalls, Operations, Phases, Callbacks,
              EmbeddingAssumption, Objects
<1>4. ~x.debugging /\ ~GuardedCall(x) /\ UnderGuard(x) /\ Held(x) = {}
  BY DEF Call, GuardedCall, UnderGuard, Held, HoldsGraph, HoldsObject
<1> HIDE DEF x
<1> QED
  BY <1>2, <1>3, <1>4, Begins

LEMMA PublishValueInv ==
  ASSUME EmbeddingInv, EmbeddingAssumption, NEW t \in HostThreads, PublishValue(t)
  PROVE  EmbeddingInv'
<1>1. PICK obj \in Modules \cup Runtimes :
         Begin(t, Call("value", obj, NoDebugger, obj \in Modules))
  BY DEF PublishValue
<1> DEFINE bound == obj \in Modules
           x == Call("value", obj, NoDebugger, bound)
<1>2. Begin(t, x) /\ bound \in BOOLEAN /\ (bound <=> obj \in Modules)
  BY <1>1
<1> HIDE DEF bound
<1>3. WellFormed(x)
  BY <1>2 DEF WellFormed, Call, ApiCalls, Operations, Phases, Callbacks,
              EmbeddingAssumption, Objects
<1>4. ~x.debugging /\ ~GuardedCall(x) /\ UnderGuard(x) /\ Held(x) = {}
  BY DEF Call, GuardedCall, UnderGuard, Held, HoldsGraph, HoldsObject
<1> HIDE DEF x
<1> QED
  BY <1>2, <1>3, <1>4, Begins

LEMMA EvaluateFrameInv ==
  ASSUME EmbeddingInv, EmbeddingAssumption, NEW t \in HostThreads, EvaluateFrame(t)
  PROVE  EmbeddingInv'
<1> DEFINE call == Call("evaluate", Top(t).obj, NoDebugger, FALSE)
           x == [call EXCEPT !.phase = "running"]
<1>1. Begin(t, x) /\ callStack[t] # <<>>
  BY DEF EvaluateFrame, In
<1>2. Top(t).obj \in Objects
  BY <1>1, AtTop DEF WellFormed, ApiCalls
<1>3. /\ call \in ApiCalls /\ call.op = "evaluate" /\ ~call.shared /\ ~call.debugging
      /\ call.debugger = NoDebugger /\ call.callback = "none"
  BY <1>2 DEF Call, ApiCalls, Operations, Phases, Callbacks
<1> HIDE DEF call
<1>4. /\ x \in ApiCalls /\ x.op = "evaluate" /\ ~x.shared /\ ~x.debugging
      /\ x.debugger = NoDebugger /\ x.callback = "none" /\ x.phase = "running"
  BY <1>3 DEF ApiCalls, Phases
<1> HIDE DEF x
<1>5. WellFormed(x)
  BY <1>4 DEF WellFormed
<1>6. ~GuardedCall(x) /\ UnderGuard(x) /\ Held(x) = {}
  BY <1>4 DEF GuardedCall, UnderGuard, Held, HoldsGraph, HoldsObject
<1> QED
  BY <1>1, <1>4, <1>5, <1>6, Begins
-----------------------------------------------------------------------------
\* A call at another phase.
At(call, phase) == [call EXCEPT !.phase = phase]

LEMMA PhaseChanged ==
  ASSUME NEW c \in ApiCalls, NEW p \in Phases
  PROVE  /\ At(c, p) \in ApiCalls
         /\ At(c, p).phase = p
         /\ At(c, p).op = c.op /\ At(c, p).obj = c.obj
         /\ At(c, p).shared = c.shared /\ At(c, p).callback = c.callback
         /\ At(c, p).debugging = c.debugging /\ At(c, p).debugger = c.debugger
  BY DEF At, ApiCalls

\* The step of a call that is in no callback to another phase, without locks.
LEMMA Advances ==
  ASSUME EmbeddingInv, NEW t \in HostThreads, callStack[t] # <<>>,
         Top(t).phase # "callback", NEW p \in Phases \ {"callback"},
         MoveOn(t, p), WellFormed(At(Top(t), p)), Held(At(Top(t), p)) = Held(Top(t)),
         GuardedBelow(callStack[t]) => UnderGuard(At(Top(t), p)),
         LocksKept, UNCHANGED <<executing, callbackActive>>
  PROVE  EmbeddingInv'
<1> DEFINE x == At(Top(t), p)
<1>1. /\ WellFormed(Top(t)) /\ callbackActive[t] \in BOOLEAN
      /\ callbackActive[t] <=> GuardedBelow(callStack[t]) \/ GuardedCall(Top(t))
  BY AtTop
<1>2. Top(t) \in ApiCalls
  BY <1>1 DEF WellFormed
<1>3. SameDebugger(x, Top(t)) /\ ~GuardedCall(x)
  BY <1>2, PhaseChanged DEF SameDebugger, GuardedCall
<1>4. callbackActive[t] <=> GuardedBelow(callStack[t]) \/ GuardedCall(x)
  BY <1>1, <1>3 DEF GuardedCall
<1>5. callbackActive' = [callbackActive EXCEPT ![t] = callbackActive[t]]
  BY DEF EmbeddingInv, EmbeddingTypes
<1>6. ReplaceTop(t, x)
  BY DEF MoveOn, At
<1> HIDE DEF x
<1>7. WellFormed(x) /\ Held(x) = Held(Top(t)) /\ (GuardedBelow(callStack[t]) => UnderGuard(x))
  BY DEF x
<1> QED
  BY <1>1, <1>3, <1>4, <1>5, <1>6, <1>7, Moves

\* The same step when a lock is taken or given back.
LEMMA AdvancesLocking ==
  ASSUME EmbeddingInv, EmbeddingAssumption, NEW t \in HostThreads, callStack[t] # <<>>,
         Top(t).phase \notin {"request", "callback"}, NEW p \in Phases \ {"callback"},
         MoveOn(t, p), WellFormed(At(Top(t), p)),
         UNCHANGED <<executing, callbackActive>>,
         NEW k \in Locks,
         \/ Lock(t, k) /\ k \notin Held(Top(t)) /\ Held(At(Top(t), p)) = Held(Top(t)) \cup {k}
         \/ Unlock(k) /\ k \in Held(Top(t)) /\ Held(At(Top(t), p)) = Held(Top(t)) \ {k}
  PROVE  EmbeddingInv'
<1> DEFINE x == At(Top(t), p)
<1>1. /\ WellFormed(Top(t)) /\ (GuardedBelow(callStack[t]) => UnderGuard(Top(t)))
  BY AtTop
<1>2. Top(t) \in ApiCalls
  BY <1>1 DEF WellFormed
<1>3. /\ SameDebugger(x, Top(t)) /\ ~GuardedCall(x) /\ ~GuardedCall(Top(t))
      /\ UnderGuard(Top(t)) => UnderGuard(x)
  BY <1>2, PhaseChanged DEF SameDebugger, GuardedCall, UnderGuard
<1>4. ReplaceTop(t, x)
  BY DEF MoveOn, At
<1> HIDE DEF x
<1>5. /\ WellFormed(x)
      /\ \/ Lock(t, k) /\ k \notin Held(Top(t)) /\ Held(x) = Held(Top(t)) \cup {k}
         \/ Unlock(k) /\ k \in Held(Top(t)) /\ Held(x) = Held(Top(t)) \ {k}
  BY DEF x
<1> QED
  BY <1>1, <1>3, <1>4, <1>5, MovesLocking

LEMMA AdmitInv ==
  ASSUME EmbeddingInv, EmbeddingAssumption, NEW t \in HostThreads, Admit(t)
  PROVE  EmbeddingInv'
<1> DEFINE c == Top(t)
           p == IF c.debugger # NoDebugger THEN "debug"
                ELSE IF c.shared THEN "graph" ELSE "lock"
<1>1. /\ callStack[t] # <<>> /\ c.phase = "request" /\ LocksKept
      /\ UNCHANGED <<executing, callbackActive>>
      /\ IF Rejects(t) THEN Return(t) ELSE MoveOn(t, p)
  BY DEF Admit, In
<1>2. /\ WellFormed(c) /\ (callbackActive[t] <=> GuardedBelow(callStack[t]) \/ GuardedCall(c))
  BY <1>1, AtTop
<1>3. ~c.debugging /\ ~GuardedCall(c) /\ Held(c) = {}
  BY <1>1, <1>2 DEF WellFormed, GuardedCall, Held, HoldsGraph, HoldsObject
<1>4. CASE Rejects(t)
  BY <1>1, <1>3, <1>4, Leaves
<1>5. CASE ~Rejects(t)
  <2>1. p \in {"debug", "graph", "lock"} /\ p \in Phases \ {"callback"}
    BY DEF Phases
  <2>2. c \in ApiCalls
    BY <1>2 DEF WellFormed
  <2>3. /\ p = "debug" => c.debugger # NoDebugger
        /\ p = "graph" => c.shared
        /\ p = "lock" => ~c.shared
    OBVIOUS
  <2>4. /\ At(c, p) \in ApiCalls /\ At(c, p).phase = p
        /\ At(c, p).op = c.op /\ At(c, p).obj = c.obj
        /\ At(c, p).shared = c.shared /\ At(c, p).callback = c.callback
        /\ At(c, p).debugging = c.debugging /\ At(c, p).debugger = c.debugger
    BY <2>1, <2>2, PhaseChanged
  <2>5. c.debugger \in Debuggers \cup {NoDebugger} /\ c.op # "evaluate" /\ c.callback = "none"
    BY <1>1, <1>2, <2>2 DEF ApiCalls, WellFormed
  <2> HIDE DEF p
  <2>6. WellFormed(At(c, p))
    BY <1>2, <1>3, <2>1, <2>3, <2>4, <2>5 DEF WellFormed
  <2>7. Held(At(c, p)) = {}
    BY <1>3, <2>1, <2>3, <2>4 DEF Held, HoldsGraph, HoldsObject
  <2>8. GuardedBelow(callStack[t]) => UnderGuard(At(c, p))
    BY <1>2, <1>5, <2>1, <2>4 DEF Rejects, UnderGuard, GuardedCall
  <2> QED
    BY <1>1, <1>3, <1>5, <2>1, <2>6, <2>7, <2>8, Advances
<1> QED
  BY <1>4, <1>5

LEMMA FinishInv ==
  ASSUME EmbeddingInv, EmbeddingAssumption, NEW t \in HostThreads, Finish(t)
  PROVE  EmbeddingInv'
<1> DEFINE c == Top(t)
           p == IF c.op = "evaluate" THEN "return" ELSE "unlock"
<1>1. /\ callStack[t] # <<>> /\ c.phase = "running" /\ LocksKept
      /\ UNCHANGED <<executing, callbackActive>> /\ MoveOn(t, p)
  BY DEF Finish, In
<1>2. WellFormed(c) /\ (GuardedBelow(callStack[t]) => UnderGuard(c))
  BY <1>1, AtTop
<1>3. c \in ApiCalls /\ p \in Phases \ {"callback"}
  BY <1>2 DEF WellFormed, Phases
<1>4. /\ At(c, p) \in ApiCalls /\ At(c, p).phase = p
      /\ At(c, p).op = c.op /\ At(c, p).obj = c.obj
      /\ At(c, p).shared = c.shared /\ At(c, p).callback = c.callback
      /\ At(c, p).debugging = c.debugging /\ At(c, p).debugger = c.debugger
  BY <1>3, PhaseChanged
<1>5. WellFormed(At(c, p))
  BY <1>1, <1>2, <1>4 DEF WellFormed
<1>6. Held(At(c, p)) = Held(c)
  BY <1>1, <1>2, <1>4 DEF Held, HoldsGraph, HoldsObject, WellFormed
<1>7. GuardedBelow(callStack[t]) => UnderGuard(At(c, p))
  BY <1>1, <1>2, <1>4 DEF UnderGuard, GuardedCall
<1> QED
  BY <1>1, <1>3, <1>5, <1>6, <1>7, Advances

\* A step inside the locks: its call advances and is no longer held back.
LEMMA NotUnderGuard ==
  ASSUME EmbeddingInv, NEW t \in HostThreads, callStack[t] # <<>>,
         Top(t).op \in {"execute", "mutate"}, Top(t).phase # "request"
  PROVE  ~GuardedBelow(callStack[t])
  BY AtTop DEF UnderGuard

LEMMA StartDebugInv ==
  ASSUME EmbeddingInv, EmbeddingAssumption, NEW t \in HostThreads, StartDebug(t)
  PROVE  EmbeddingInv'
<1> DEFINE c == Top(t)
           d == c.debugger
           p == IF c.shared THEN "graph" ELSE "lock"
           x == [c EXCEPT !.debugging = TRUE, !.phase = p]
           n == Len(callStack[t])
<1>1. /\ callStack[t] # <<>> /\ c.phase = "debug"
      /\ UNCHANGED callbackActive
  BY DEF StartDebug, In
<1>2. /\ WellFormed(c) /\ (callbackActive[t] <=> GuardedBelow(callStack[t]) \/ GuardedCall(c))
      /\ callbackActive[t] \in BOOLEAN /\ callStack[t] \in Seq(ApiCalls)
  BY <1>1, AtTop
<1>3. /\ c \in ApiCalls /\ c.op = "execute" /\ ~c.debugging /\ d \in Debuggers
      /\ c.callback = "none" /\ c.obj \in Objects /\ c.shared \in BOOLEAN
  <2>1. d \in Debuggers /\ ~c.debugging /\ c \in ApiCalls
    BY <1>1, <1>2 DEF WellFormed
  <2>2. d # NoDebugger
    BY <2>1 DEF EmbeddingAssumption
  <2> QED
    BY <1>1, <1>2, <2>1, <2>2 DEF WellFormed, ApiCalls
<1>4. ~GuardedCall(c) /\ Held(c) = {} /\ ~GuardedBelow(callStack[t])
  BY <1>1, <1>3, NotUnderGuard DEF GuardedCall, Held, HoldsGraph, HoldsObject
<1>5. CASE ~(CanLock(t, d) /\ ~executing[d])
  <2>1. Return(t) /\ LocksKept /\ UNCHANGED executing
    BY <1>5 DEF StartDebug
  <2> QED
    BY <1>1, <1>3, <1>4, <2>1, Leaves
<1>6. CASE CanLock(t, d) /\ ~executing[d]
  <2>1. /\ Lock(t, d) /\ executing' = [executing EXCEPT ![d] = TRUE] /\ ReplaceTop(t, x)
    BY <1>6 DEF StartDebug
  <2>2. ~Debugging(callStack[t], d)
    BY <1>3, <1>6 DEF EmbeddingInv, Told
  <2>3. /\ x \in ApiCalls /\ x.op = "execute" /\ x.debugging /\ x.debugger = d
        /\ x.obj = c.obj /\ x.shared = c.shared /\ x.callback = "none" /\ x.phase = p
        /\ p = "graph" => c.shared
        /\ p = "lock" => ~c.shared
        /\ p \in {"graph", "lock"}
    <3>1. p \in Phases /\ p \in {"graph", "lock"} /\ (p = "graph" => c.shared)
          /\ (p = "lock" => ~c.shared)
      BY DEF Phases
    <3> HIDE DEF p, c
    <3>2. x \in ApiCalls
      BY <1>3, <3>1 DEF ApiCalls
    <3> QED
      BY <1>3, <3>1, <3>2 DEF ApiCalls
  <2>4. c.obj \in Runtimes => ~c.shared
    BY <1>2 DEF WellFormed
  <2>5. c.obj \in Sessions => c.shared
    BY <1>2, <1>3 DEF WellFormed
  <2> HIDE DEF x, p
  <2>6. WellFormed(x) /\ ~GuardedCall(x)
    BY <1>3, <2>3, <2>4, <2>5 DEF WellFormed, GuardedCall
  <2>7. Held(x) = {d}
    <3>1. d \in Locks
      BY <1>3 DEF Locks
    <3> QED
      BY <2>3, <3>1 DEF Held, HoldsGraph, HoldsObject
  <2>8. callbackActive[t] <=> GuardedBelow(callStack[t]) \/ GuardedCall(x)
    BY <1>2, <1>4, <2>6
  <2>9. callbackActive' = [callbackActive EXCEPT ![t] = callbackActive[t]]
    BY <1>1 DEF EmbeddingInv, EmbeddingTypes
  <2>10. \A e \in Debuggers : Debugs(x, e) => ~Debugging(callStack[t], e)
    BY <2>2, <2>3 DEF Debugs
  <2>11. /\ Stacks'
         /\ DOMAIN callStack' = HostThreads
         /\ callbackActive' \in [HostThreads -> BOOLEAN]
         /\ \A u \in HostThreads \ {t} : callStack'[u] = callStack[u]
         /\ \A l : Levels(callStack'[t], l)
                     = (Levels(callStack[t], l) \ {n}) \cup (IF l \in Held(x) THEN {n} ELSE {})
         /\ \A e : Debugging(callStack'[t], e)
                      <=> Debugging(Front(callStack[t]), e) \/ Debugs(x, e)
    BY <1>1, <1>2, <1>4, <2>1, <2>6, <2>8, <2>9, <2>10, TopBecomes DEF EmbeddingInv
  <2>12. \A l : n \notin Levels(callStack[t], l)
    BY <1>1, <1>4, AtTop
  <2> HIDE DEF n, c, d
  <2>13. /\ Levels(callStack'[t], d) = Levels(callStack[t], d) \cup {n}
         /\ \A l : l # d => Levels(callStack'[t], l) = Levels(callStack[t], l)
    <3>1. \A l : l \in Held(x) <=> l = d
      BY <2>7
    <3>2. \A l : Levels(callStack[t], l) \ {n} = Levels(callStack[t], l)
      BY <2>12
    <3>3. Levels(callStack'[t], d) = Levels(callStack[t], d) \cup {n}
      BY <2>11, <3>1, <3>2
    <3>4. ASSUME NEW l, l # d
          PROVE  Levels(callStack'[t], l) = Levels(callStack[t], l)
      <4>1. l \notin Held(x)
        BY <3>1, <3>4
      <4>2. Levels(callStack'[t], l)
              = (Levels(callStack[t], l) \ {n}) \cup (IF l \in Held(x) THEN {n} ELSE {})
        BY <2>11
      <4> QED
        BY <3>2, <4>1, <4>2
    <3> QED
      BY <3>3, <3>4
  <2>14. LocksTell'
    <3>1. d \in Locks
      BY <1>3 DEF Locks
    <3>2. \A u \in HostThreads : callStack[u] \in Seq(ApiCalls)
      BY DEF EmbeddingInv, Stacks, StackOK, WellStacked
    <3>3. \A u \in HostThreads, l \in Locks :
             u # t \/ l # d => Levels(callStack'[u], l) = Levels(callStack[u], l)
      BY <2>11, <2>13
    <3> QED
      BY <2>1, <2>12, <2>13, <3>1, <3>2, <3>3, LockTaken DEF EmbeddingInv
  <2>15. Told'
    <3> SUFFICES ASSUME NEW e \in Debuggers
                 PROVE  executing'[e] <=> \E u \in HostThreads : Debugging(callStack'[u], e)
      BY DEF Told
    <3>1. Debugging(callStack[t], e) <=> Debugging(Front(callStack[t]), e) \/ Debugs(Last(callStack[t]), e)
      BY <1>1, <1>2, TopDebugs
    <3>2. ~Debugs(Last(callStack[t]), e)
      BY <1>3 DEF Debugs, Top, c
    <3>3. Debugging(callStack'[t], e) <=> Debugging(callStack[t], e) \/ Debugs(x, e)
      BY <2>11, <3>1, <3>2
    <3>4. CASE e = d
      BY <2>1, <2>3, <3>3, <3>4 DEF EmbeddingInv, EmbeddingTypes, Debugs
    <3>5. CASE e # d
      <4>1. executing'[e] = executing[e]
        BY <2>1, <3>5 DEF EmbeddingInv, EmbeddingTypes
      <4>2. \A u \in HostThreads : Debugging(callStack'[u], e) <=> Debugging(callStack[u], e)
        BY <2>3, <2>11, <3>3, <3>5 DEF Debugs
      <4> QED
        BY <4>1, <4>2 DEF EmbeddingInv, Told
    <3> QED
      BY <3>4, <3>5
  <2>16. EmbeddingTypes'
    <3>1. executing' \in [Debuggers -> BOOLEAN]
      BY <2>1 DEF EmbeddingInv, EmbeddingTypes
    <3>2. owner' \in [Locks -> HostThreads \cup {Free}] /\ count' \in [Locks -> Nat]
      <4>1. d \in Locks
        BY <1>3 DEF Locks
      <4> QED
        BY <2>1, <4>1 DEF EmbeddingInv, EmbeddingTypes, Lock
    <3> QED
      BY <2>11, <3>1, <3>2 DEF EmbeddingTypes
  <2> QED
    BY <2>11, <2>14, <2>15, <2>16 DEF EmbeddingInv
<1> QED
  BY <1>5, <1>6

LEMMA LockGraphInv ==
  ASSUME EmbeddingInv, EmbeddingAssumption, NEW t \in HostThreads, LockGraph(t)
  PROVE  EmbeddingInv'
<1> DEFINE c == Top(t)
           k == Graph(c.obj)
           p == IF c.obj \in Sessions THEN "lock"
                ELSE IF c.op = "execute" THEN "running" ELSE "ungraph"
<1>1. /\ callStack[t] # <<>> /\ c.phase = "graph" /\ Lock(t, k)
      /\ UNCHANGED <<executing, callbackActive>> /\ MoveOn(t, p)
  BY DEF LockGraph, In
<1>2. WellFormed(c)
  BY <1>1, AtTop
<1>3. /\ c \in ApiCalls /\ p \in Phases \ {"callback"} /\ c.shared
      /\ c.obj \in Objects \ Runtimes /\ c.op # "evaluate"
  BY <1>1, <1>2 DEF WellFormed, Phases, ApiCalls
<1>4. /\ At(c, p) \in ApiCalls /\ At(c, p).phase = p
      /\ At(c, p).op = c.op /\ At(c, p).obj = c.obj
      /\ At(c, p).shared = c.shared /\ At(c, p).callback = c.callback
      /\ At(c, p).debugging = c.debugging /\ At(c, p).debugger = c.debugger
  <2> HIDE DEF c, p
  <2> QED
    BY <1>3, PhaseChanged
<1>5. /\ p \in {"lock", "running", "ungraph"}
      /\ p = "lock" <=> c.obj \in Sessions
      /\ c.obj \in Modules \cup Sessions
  BY <1>3 DEF Objects
<1>6. k \in Locks /\ k \in Modules
  BY <1>5 DEF Graph, Locks, EmbeddingAssumption
<1> HIDE DEF p
<1>7. WellFormed(At(c, p))
  BY <1>1, <1>2, <1>3, <1>4, <1>5 DEF WellFormed
<1>8. k \notin Held(c) /\ Held(At(c, p)) = Held(c) \cup {k}
  <2>1. Held(c) = {l \in Locks : c.debugging /\ l = c.debugger}
    BY <1>1 DEF Held, HoldsGraph, HoldsObject
  <2>2. HoldsGraph(At(c, p)) /\ ~HoldsObject(At(c, p))
    BY <1>3, <1>4, <1>5 DEF HoldsGraph, HoldsObject, Objects
  <2>3. Held(At(c, p)) = {l \in Locks : (c.debugging /\ l = c.debugger) \/ l = k}
    BY <1>4, <2>2 DEF Held
  <2>4. c.debugging => c.debugger \in Debuggers
    BY <1>2 DEF WellFormed
  <2>5. ~(c.debugging /\ k = c.debugger)
    BY <1>6, <2>4 DEF EmbeddingAssumption, Objects
  <2> HIDE DEF c, k
  <2> QED
    BY <1>6, <2>1, <2>3, <2>5
<1> QED
  BY <1>1, <1>3, <1>6, <1>7, <1>8, AdvancesLocking

LEMMA LockObjectInv ==
  ASSUME EmbeddingInv, EmbeddingAssumption, NEW t \in HostThreads, LockObject(t)
  PROVE  EmbeddingInv'
<1> DEFINE c == Top(t)
           k == c.obj
           p == IF c.op = "execute" THEN "running" ELSE "unlock"
<1>1. /\ callStack[t] # <<>> /\ c.phase = "lock"
      /\ IF k \in Modules THEN LocksKept ELSE Lock(t, k)
      /\ UNCHANGED <<executing, callbackActive>> /\ MoveOn(t, p)
  BY DEF LockObject, In
<1>2. WellFormed(c) /\ (GuardedBelow(callStack[t]) => UnderGuard(c))
  BY <1>1, AtTop
<1>3. /\ c \in ApiCalls /\ p \in Phases \ {"callback"}
      /\ k \in Objects /\ c.op # "evaluate"
  BY <1>1, <1>2 DEF WellFormed, Phases, ApiCalls
<1>4. /\ At(c, p) \in ApiCalls /\ At(c, p).phase = p
      /\ At(c, p).op = c.op /\ At(c, p).obj = k
      /\ At(c, p).shared = c.shared /\ At(c, p).callback = c.callback
      /\ At(c, p).debugging = c.debugging /\ At(c, p).debugger = c.debugger
  BY <1>3, PhaseChanged
<1>5. p \in {"running", "unlock"}
  OBVIOUS
<1> HIDE DEF p
<1>6. WellFormed(At(c, p))
  BY <1>1, <1>2, <1>3, <1>4, <1>5 DEF WellFormed
<1>7. HoldsGraph(At(c, p)) <=> HoldsGraph(c)
  BY <1>1, <1>4, <1>5 DEF HoldsGraph
<1>8. ~HoldsObject(c) /\ (HoldsObject(At(c, p)) <=> k \notin Modules)
  BY <1>1, <1>3, <1>4, <1>5 DEF HoldsObject
<1>9. CASE k \in Modules
  <2>1. Held(At(c, p)) = Held(c)
    BY <1>4, <1>7, <1>8, <1>9 DEF Held
  <2>2. GuardedBelow(callStack[t]) => UnderGuard(At(c, p))
    BY <1>1, <1>2, <1>4, <1>5 DEF UnderGuard, GuardedCall
  <2> QED
    BY <1>1, <1>3, <1>6, <1>9, <2>1, <2>2, Advances
<1>10. CASE k \notin Modules
  <2>1. k \in Locks /\ k \in Sessions \cup Runtimes
    BY <1>3, <1>10 DEF Objects, Locks
  <2>2. k \notin Held(c) /\ Held(At(c, p)) = Held(c) \cup {k}
    <3>1. Held(c) = {l \in Locks : \/ c.debugging /\ l = c.debugger
                                   \/ HoldsGraph(c) /\ l = Graph(k)}
      BY <1>8 DEF Held
    <3>2. Held(At(c, p)) = {l \in Locks : \/ c.debugging /\ l = c.debugger
                                          \/ HoldsGraph(c) /\ l = Graph(k)
                                          \/ l = k}
      BY <1>4, <1>7, <1>8, <1>10 DEF Held
    <3>3. c.debugging => c.debugger \in Debuggers
      BY <1>2 DEF WellFormed
    <3>4. ~(c.debugging /\ k = c.debugger)
      BY <1>3, <3>3 DEF EmbeddingAssumption
    <3>5. HoldsGraph(c) => Graph(k) \in Modules
      BY <1>2, <2>1 DEF HoldsGraph, WellFormed, Graph, EmbeddingAssumption
    <3>6. ~(HoldsGraph(c) /\ k = Graph(k))
      BY <1>10, <3>5
    <3> HIDE DEF c, k
    <3> QED
      BY <2>1, <3>1, <3>2, <3>4, <3>6
  <2> QED
    BY <1>1, <1>3, <1>6, <1>10, <2>1, <2>2, AdvancesLocking
<1> QED
  BY <1>9, <1>10

LEMMA CallbackInv ==
  ASSUME EmbeddingInv, EmbeddingAssumption, NEW t \in HostThreads,
         NEW kind \in Callbacks \ {"none"}, Callback(t, kind)
  PROVE  EmbeddingInv'
<1> DEFINE c == Top(t)
           guarded == kind \in Guarded
           after == callbackActive[t] \/ guarded
           x == [c EXCEPT !.phase = "callback", !.callback = kind]
<1>1. /\ callStack[t] # <<>> /\ c.phase = "running" /\ LocksKept
      /\ kind = "debug" => c.debugging
      /\ kind = "export" => ~callbackActive[t]
      /\ callbackActive' = [callbackActive EXCEPT ![t] = after]
      /\ executing' = executing /\ ReplaceTop(t, x)
  BY DEF Callback, In
<1>2. /\ WellFormed(c) /\ (callbackActive[t] <=> GuardedBelow(callStack[t]) \/ GuardedCall(c))
      /\ callbackActive[t] \in BOOLEAN /\ (GuardedBelow(callStack[t]) => UnderGuard(c))
  BY <1>1, AtTop
<1>3. c \in ApiCalls /\ kind \in Callbacks
  BY <1>2 DEF WellFormed
<1>4. ~GuardedCall(c) /\ (callbackActive[t] <=> GuardedBelow(callStack[t]))
  BY <1>1, <1>2 DEF GuardedCall
<1>5. guarded \in BOOLEAN /\ (guarded <=> kind = "debug" \/ kind = "export")
  BY DEF Guarded
<1> HIDE DEF guarded
<1>6. after \in BOOLEAN
  BY <1>2, <1>5
<1>7. /\ x \in ApiCalls /\ x.op = c.op /\ x.obj = c.obj /\ x.shared = c.shared
      /\ x.debugging = c.debugging /\ x.debugger = c.debugger
      /\ x.phase = "callback" /\ x.callback = kind
  <2> HIDE DEF c
  <2> QED
    BY <1>3 DEF ApiCalls, Phases
<1> HIDE DEF x
<1>8. WellFormed(x)
  BY <1>1, <1>2, <1>3, <1>7 DEF WellFormed
<1>9. GuardedCall(x) <=> guarded
  BY <1>5, <1>7 DEF GuardedCall, Guarded
<1>10. after <=> GuardedBelow(callStack[t]) \/ GuardedCall(x)
  BY <1>4, <1>9
<1>11. Held(x) = Held(c)
  BY <1>1, <1>7 DEF Held, HoldsGraph, HoldsObject
<1>12. ASSUME GuardedBelow(callStack[t])
       PROVE  UnderGuard(x)
  <2>1. callbackActive[t] /\ UnderGuard(c)
    BY <1>2, <1>12
  <2>2. c.op \notin {"execute", "mutate"}
    BY <1>1, <2>1 DEF UnderGuard
  <2>3. ~guarded
    BY <1>1, <1>2, <1>5, <2>1, <2>2 DEF WellFormed
  <2> QED
    BY <1>7, <1>9, <2>2, <2>3 DEF UnderGuard
<1>13. SameDebugger(x, Top(t))
  BY <1>7 DEF SameDebugger
<1> HIDE DEF after
<1> QED
  BY <1>1, <1>6, <1>8, <1>10, <1>11, <1>12, <1>13, Moves

LEMMA CallbackReturnsInv ==
  ASSUME EmbeddingInv, EmbeddingAssumption, NEW t \in HostThreads, CallbackReturns(t)
  PROVE  EmbeddingInv'
<1> DEFINE c == Top(t)
           free == c.callback \notin Guarded
           after == callbackActive[t] /\ free
           x == [c EXCEPT !.phase = "running", !.callback = "none"]
<1>1. /\ callStack[t] # <<>> /\ c.phase = "callback" /\ LocksKept
      /\ callbackActive' = [callbackActive EXCEPT ![t] = after]
      /\ executing' = executing /\ ReplaceTop(t, x)
  BY DEF CallbackReturns, In
<1>2. /\ WellFormed(c) /\ (callbackActive[t] <=> GuardedBelow(callStack[t]) \/ GuardedCall(c))
      /\ callbackActive[t] \in BOOLEAN /\ (GuardedBelow(callStack[t]) => UnderGuard(c))
  BY <1>1, AtTop
<1>3. c \in ApiCalls
  BY <1>2 DEF WellFormed
<1>4. free \in BOOLEAN /\ (free <=> ~GuardedCall(c))
  BY <1>1 DEF GuardedCall
<1> HIDE DEF free
<1>5. after \in BOOLEAN
  BY <1>2, <1>4
<1>6. /\ x \in ApiCalls /\ x.op = c.op /\ x.obj = c.obj /\ x.shared = c.shared
      /\ x.debugging = c.debugging /\ x.debugger = c.debugger
      /\ x.phase = "running" /\ x.callback = "none"
  <2> HIDE DEF c
  <2> QED
    BY <1>3 DEF ApiCalls, Phases, Callbacks
<1> HIDE DEF x
<1>7. WellFormed(x) /\ ~GuardedCall(x)
  BY <1>1, <1>2, <1>3, <1>6 DEF WellFormed, GuardedCall
<1>8. after <=> GuardedBelow(callStack[t]) \/ GuardedCall(x)
  BY <1>2, <1>4, <1>7 DEF UnderGuard
<1>9. Held(x) = Held(c)
  BY <1>1, <1>6 DEF Held, HoldsGraph, HoldsObject
<1>10. GuardedBelow(callStack[t]) => UnderGuard(x)
  BY <1>1, <1>2, <1>6, <1>7 DEF UnderGuard
<1>11. SameDebugger(x, Top(t))
  BY <1>6 DEF SameDebugger
<1> HIDE DEF after
<1> QED
  BY <1>1, <1>5, <1>7, <1>8, <1>9, <1>10, <1>11, Moves

LEMMA UnlockObjectInv ==
  ASSUME EmbeddingInv, EmbeddingAssumption, NEW t \in HostThreads, UnlockObject(t)
  PROVE  EmbeddingInv'
<1> DEFINE c == Top(t)
           k == c.obj
           p == IF c.shared THEN "ungraph" ELSE "return"
<1>1. /\ callStack[t] # <<>> /\ c.phase = "unlock"
      /\ IF k \in Modules THEN LocksKept ELSE Unlock(k)
      /\ UNCHANGED <<executing, callbackActive>> /\ MoveOn(t, p)
  BY DEF UnlockObject, In
<1>2. WellFormed(c) /\ (GuardedBelow(callStack[t]) => UnderGuard(c))
  BY <1>1, AtTop
<1>3. /\ c \in ApiCalls /\ p \in Phases \ {"callback"}
      /\ k \in Objects /\ c.op # "evaluate" /\ c.shared \in BOOLEAN
  BY <1>1, <1>2 DEF WellFormed, Phases, ApiCalls
<1>4. /\ At(c, p) \in ApiCalls /\ At(c, p).phase = p
      /\ At(c, p).op = c.op /\ At(c, p).obj = k
      /\ At(c, p).shared = c.shared /\ At(c, p).callback = c.callback
      /\ At(c, p).debugging = c.debugging /\ At(c, p).debugger = c.debugger
  BY <1>3, PhaseChanged
<1>5. p \in {"ungraph", "return"} /\ (p = "ungraph" <=> c.shared)
  BY <1>3
<1> HIDE DEF p
<1>6. WellFormed(At(c, p))
  BY <1>1, <1>2, <1>3, <1>4, <1>5 DEF WellFormed
<1>7. HoldsGraph(At(c, p)) <=> HoldsGraph(c)
  BY <1>1, <1>3, <1>4, <1>5 DEF HoldsGraph
<1>8. ~HoldsObject(At(c, p)) /\ (HoldsObject(c) <=> k \notin Modules)
  BY <1>1, <1>3, <1>4, <1>5 DEF HoldsObject
<1>9. CASE k \in Modules
  <2>1. Held(At(c, p)) = Held(c)
    BY <1>4, <1>7, <1>8, <1>9 DEF Held
  <2>2. GuardedBelow(callStack[t]) => UnderGuard(At(c, p))
    BY <1>1, <1>2, <1>4, <1>5 DEF UnderGuard, GuardedCall
  <2> QED
    BY <1>1, <1>3, <1>6, <1>9, <2>1, <2>2, Advances
<1>10. CASE k \notin Modules
  <2>1. k \in Locks /\ k \in Sessions \cup Runtimes
    BY <1>3, <1>10 DEF Objects, Locks
  <2>2. k \in Held(c) /\ Held(At(c, p)) = Held(c) \ {k}
    <3>1. Held(At(c, p)) = {l \in Locks : \/ c.debugging /\ l = c.debugger
                                          \/ HoldsGraph(c) /\ l = Graph(k)}
      BY <1>4, <1>7, <1>8 DEF Held
    <3>2. Held(c) = {l \in Locks : \/ c.debugging /\ l = c.debugger
                                   \/ HoldsGraph(c) /\ l = Graph(k)
                                   \/ l = k}
      BY <1>8, <1>10 DEF Held
    <3>3. c.debugging => c.debugger \in Debuggers
      BY <1>2 DEF WellFormed
    <3>4. ~(c.debugging /\ k = c.debugger)
      BY <1>3, <3>3 DEF EmbeddingAssumption
    <3>5. HoldsGraph(c) => Graph(k) \in Modules
      BY <1>2, <2>1 DEF HoldsGraph, WellFormed, Graph, EmbeddingAssumption
    <3>6. ~(HoldsGraph(c) /\ k = Graph(k))
      BY <1>10, <3>5
    <3> HIDE DEF c, k
    <3> QED
      BY <2>1, <3>1, <3>2, <3>4, <3>6
  <2> QED
    BY <1>1, <1>3, <1>6, <1>10, <2>1, <2>2, AdvancesLocking
<1> QED
  BY <1>9, <1>10

LEMMA UnlockGraphInv ==
  ASSUME EmbeddingInv, EmbeddingAssumption, NEW t \in HostThreads, UnlockGraph(t)
  PROVE  EmbeddingInv'
<1> DEFINE c == Top(t)
           k == Graph(c.obj)
           p == "return"
<1>1. /\ callStack[t] # <<>> /\ c.phase = "ungraph" /\ Unlock(k)
      /\ UNCHANGED <<executing, callbackActive>> /\ MoveOn(t, p)
  BY DEF UnlockGraph, In
<1>2. WellFormed(c)
  BY <1>1, AtTop
<1>3. /\ c \in ApiCalls /\ p \in Phases \ {"callback"} /\ c.shared
      /\ c.obj \in Objects \ Runtimes
  BY <1>1, <1>2 DEF WellFormed, Phases, ApiCalls
<1>4. /\ At(c, p) \in ApiCalls /\ At(c, p).phase = p
      /\ At(c, p).op = c.op /\ At(c, p).obj = c.obj
      /\ At(c, p).shared = c.shared /\ At(c, p).callback = c.callback
      /\ At(c, p).debugging = c.debugging /\ At(c, p).debugger = c.debugger
  BY <1>3, PhaseChanged
<1>5. k \in Locks /\ k \in Modules
  BY <1>3 DEF Objects, Graph, Locks, EmbeddingAssumption
<1>6. WellFormed(At(c, p))
  BY <1>1, <1>2, <1>3, <1>4 DEF WellFormed
<1>7. k \in Held(c) /\ Held(At(c, p)) = Held(c) \ {k}
  <2>1. Held(At(c, p)) = {l \in Locks : c.debugging /\ l = c.debugger}
    BY <1>4 DEF Held, HoldsGraph, HoldsObject
  <2>2. Held(c) = {l \in Locks : (c.debugging /\ l = c.debugger) \/ l = k}
    BY <1>1, <1>3 DEF Held, HoldsGraph, HoldsObject
  <2>3. c.debugging => c.debugger \in Debuggers
    BY <1>2 DEF WellFormed
  <2>4. ~(c.debugging /\ k = c.debugger)
    BY <1>5, <2>3 DEF EmbeddingAssumption, Objects
  <2> HIDE DEF c, k
  <2> QED
    BY <1>5, <2>1, <2>2, <2>4
<1> QED
  BY <1>1, <1>3, <1>5, <1>6, <1>7, AdvancesLocking

\* A call that holds a lock keeps every other thread from holding it.
LEMMA OneHolder ==
  ASSUME EmbeddingInv, NEW l \in Locks,
         NEW t \in HostThreads, NEW i \in 1..Len(callStack[t]), l \in Held(callStack[t][i])
  PROVE  /\ OwnedLock(l) /\ owner[l] = t
         /\ \A u \in HostThreads : \A j \in 1..Len(callStack[u]) :
                l \in Held(callStack[u][j]) => u = t
<1>1. i \in Levels(callStack[t], l)
  BY DEF Levels
<1>2. OwnedLock(l) /\ owner[l] = t
  BY <1>1 DEF EmbeddingInv, LocksTell, FreeLock, OwnedLock
<1>3. ASSUME NEW u \in HostThreads, NEW j \in 1..Len(callStack[u]),
             l \in Held(callStack[u][j])
      PROVE  u = t
  <2>1. j \in Levels(callStack[u], l)
    BY <1>3 DEF Levels
  <2> QED
    BY <1>2, <2>1 DEF OwnedLock
<1> QED
  BY <1>2, <1>3

LEMMA ReturnsInv ==
  ASSUME EmbeddingInv, EmbeddingAssumption, NEW t \in HostThreads, Returns(t)
  PROVE  EmbeddingInv'
<1> DEFINE c == Top(t)
           d == c.debugger
           s == callStack[t]
           n == Len(s)
<1>1. /\ s # <<>> /\ c.phase = "return" /\ Return(t) /\ UNCHANGED callbackActive
  BY DEF Returns, In
<1>2. /\ WellFormed(c) /\ s \in Seq(ApiCalls)
      /\ \A l : n \in Levels(s, l) <=> l \in Held(c)
  BY <1>1, AtTop
<1>3. ~GuardedCall(c)
  BY <1>1 DEF GuardedCall
<1>4. c.debugging \in BOOLEAN
  BY <1>2 DEF WellFormed, ApiCalls
<1>5. CASE ~c.debugging
  <2>1. Held(c) = {}
    BY <1>1, <1>5 DEF Held, HoldsGraph, HoldsObject
  <2>2. LocksKept /\ UNCHANGED executing
    BY <1>5 DEF Returns
  <2> QED
    BY <1>1, <1>3, <1>5, <2>1, <2>2, Leaves
<1>6. CASE c.debugging
  <2>1. executing' = [executing EXCEPT ![d] = FALSE] /\ Unlock(d)
    BY <1>6 DEF Returns
  <2>2. d \in Debuggers /\ d \in Locks
    BY <1>2, <1>6 DEF WellFormed, Locks
  <2>3. Held(c) = {d}
    BY <1>1, <1>6, <2>2 DEF Held, HoldsGraph, HoldsObject
  <2>4. /\ Stacks'
        /\ DOMAIN callStack' = HostThreads
        /\ \A u \in HostThreads \ {t} : callStack'[u] = callStack[u]
        /\ \A l : Levels(callStack'[t], l) = Levels(s, l) \ {n}
        /\ \A e : Debugging(s, e) <=> Debugging(callStack'[t], e) \/ Debugs(c, e)
    BY <1>1, <1>3, TopReturns
  <2>5. LocksTell' /\ owner[d] = t /\ count[d] # 0
    <3>1. n \in Levels(s, d)
      BY <1>2, <2>3
    <3>2. ASSUME NEW l, l # d
          PROVE  Levels(callStack'[t], l) = Levels(s, l)
      <4>1. n \notin Levels(s, l)
        BY <1>2, <2>3, <3>2
      <4> HIDE DEF n, s
      <4> QED
        BY <2>4, <4>1
    <3>3. \A u \in HostThreads : callStack[u] \in Seq(ApiCalls)
      BY DEF EmbeddingInv, Stacks, StackOK, WellStacked
    <3>4. \A u \in HostThreads, l \in Locks :
             u # t \/ l # d => Levels(callStack'[u], l) = Levels(callStack[u], l)
      BY <2>4, <3>2
    <3>5. Levels(callStack'[t], d) = Levels(callStack[t], d) \ {n}
      BY <2>4
    <3> HIDE DEF n, d, c
    <3> QED
      BY <2>1, <2>2, <3>1, <3>3, <3>4, <3>5, LockGiven DEF EmbeddingInv
  <2>6. Len(s) \in Nat \ {0} /\ c = s[n] /\ callStack'[t] = Front(s)
        /\ Len(Front(s)) = Len(s) - 1
        /\ \A i \in 1..(Len(s) - 1) : Front(s)[i] = s[i]
    <3>1. callStack'[t] = Front(s)
      BY <1>1 DEF Return, EmbeddingInv, EmbeddingTypes
    <3>2. c = Last(s)
      BY DEF Top
    <3> HIDE DEF c, s
    <3> QED
      BY <1>1, <1>2, <3>1, <3>2, Popped DEF n
  <2>7. n \in 1..n /\ Debugs(s[n], d)
    BY <1>6, <2>6 DEF Debugs
  <2>8. ASSUME NEW u \in HostThreads
        PROVE  ~Debugging(callStack'[u], d)
    <3>1. CASE u = t
      <4> SUFFICES ASSUME NEW i \in 1..Len(callStack'[t]), Debugs(callStack'[t][i], d)
                   PROVE  FALSE
        BY <3>1 DEF Debugging
      <4>1. i \in 1..(n - 1) /\ i \in 1..n /\ i # n /\ Debugs(s[i], d)
        BY <2>6
      <4>2. OneInvocation(s)
        BY DEF EmbeddingInv, Stacks, StackOK
      <4> QED
        BY <2>2, <2>7, <4>1, <4>2 DEF OneInvocation
    <3>2. CASE u # t
      <4> SUFFICES ASSUME NEW i \in 1..Len(callStack[u]), Debugs(callStack[u][i], d)
                   PROVE  FALSE
        BY <2>4, <3>2 DEF Debugging
      <4>1. d \in Held(callStack[u][i])
        BY <2>2 DEF Held, Debugs
      <4>2. d \in Held(s[n])
        BY <2>3, <2>6
      <4> QED
        BY <2>2, <2>7, <3>2, <4>1, <4>2, OneHolder
    <3> QED
      BY <3>1, <3>2
  <2>9. Told'
    <3> SUFFICES ASSUME NEW e \in Debuggers
                 PROVE  executing'[e] <=> \E u \in HostThreads : Debugging(callStack'[u], e)
      BY DEF Told
    <3>1. CASE e = d
      BY <2>1, <2>8, <3>1 DEF EmbeddingInv, EmbeddingTypes
    <3>2. CASE e # d
      <4>1. executing'[e] = executing[e]
        BY <2>1, <3>2 DEF EmbeddingInv, EmbeddingTypes
      <4>2. Debugging(callStack'[t], e) <=> Debugging(s, e)
        BY <2>4, <3>2 DEF Debugs
      <4>3. \A u \in HostThreads : Debugging(callStack'[u], e) <=> Debugging(callStack[u], e)
        BY <2>4, <4>2
      <4> QED
        BY <4>1, <4>3 DEF EmbeddingInv, Told
    <3> QED
      BY <3>1, <3>2
  <2>10. EmbeddingTypes'
    <3>1. executing' \in [Debuggers -> BOOLEAN]
      BY <2>1 DEF EmbeddingInv, EmbeddingTypes
    <3>2. owner' \in [Locks -> HostThreads \cup {Free}] /\ count' \in [Locks -> Nat]
      <4> HIDE DEF d
      <4> QED
        BY <2>1, <2>2, <2>5 DEF EmbeddingInv, EmbeddingTypes, Unlock
    <3> QED
      BY <1>1, <2>4, <3>1, <3>2 DEF EmbeddingInv, EmbeddingTypes
  <2> QED
    BY <2>4, <2>5, <2>9, <2>10 DEF EmbeddingInv
<1> QED
  BY <1>4, <1>5, <1>6
-----------------------------------------------------------------------------
LEMMA EmbeddingInitInv ==
  ASSUME EmbeddingInit, EmbeddingAssumption
  PROVE  EmbeddingInv
<1>1. \A t \in HostThreads : callStack[t] = <<>> /\ callbackActive[t] = FALSE
  BY DEF EmbeddingInit
<1>2. <<>> \in Seq(ApiCalls) /\ 1..Len(<<>>) = {}
  OBVIOUS
<1>3. StackOK(<<>>, FALSE)
  BY <1>2 DEF StackOK, WellStacked, Guard, OneInvocation
<1>4. Stacks
  BY <1>1, <1>3 DEF Stacks
<1>5. \A t \in HostThreads : \A l : Levels(callStack[t], l) = {}
  BY <1>1, <1>2 DEF Levels
<1>6. LocksTell
  BY <1>5 DEF EmbeddingInit, LocksTell, FreeLock
<1>7. Told
  BY <1>1, <1>2 DEF EmbeddingInit, Told, Debugging
<1>8. EmbeddingTypes
  BY DEF EmbeddingInit, EmbeddingTypes
<1> QED
  BY <1>4, <1>6, <1>7, <1>8 DEF EmbeddingInv

LEMMA EmbeddingStutters ==
  ASSUME EmbeddingInv, UNCHANGED embeddingVars
  PROVE  EmbeddingInv'
<1>1. EmbeddingTypes' /\ Stacks'
  BY DEF EmbeddingInv, EmbeddingTypes, Stacks, embeddingVars
<1>2. \A u \in HostThreads : callStack'[u] = callStack[u]
  BY DEF embeddingVars
<1>3. Told'
  BY <1>2, ToldStays DEF EmbeddingInv, embeddingVars
<1>4. LocksTell'
  BY <1>2, LocksStay DEF EmbeddingInv, embeddingVars
<1> QED
  BY <1>1, <1>3, <1>4 DEF EmbeddingInv

LEMMA EmbeddingStep ==
  ASSUME EmbeddingInv, EmbeddingAssumption, [EmbeddingNext]_embeddingVars
  PROVE  EmbeddingInv'
<1>1. CASE UNCHANGED embeddingVars
  BY <1>1, EmbeddingStutters
<1>2. CASE \E t \in HostThreads : HostStep(t) \/ ApiStep(t) \/ ScriptStep(t)
  <2> PICK t \in HostThreads : HostStep(t) \/ ApiStep(t) \/ ScriptStep(t)
    BY <1>2
  <2>1. CASE HostStep(t)
    BY <2>1, ExecuteRequestInv, MutateInv, PublishValueInv, EvaluateFrameInv DEF HostStep
  <2>2. CASE ApiStep(t)
    BY <2>2, AdmitInv, StartDebugInv, LockGraphInv, LockObjectInv, FinishInv,
       CallbackReturnsInv, UnlockObjectInv, UnlockGraphInv, ReturnsInv DEF ApiStep
  <2>3. CASE ScriptStep(t)
    BY <2>3, CallbackInv DEF ScriptStep
  <2> QED
    BY <2>1, <2>2, <2>3
<1> QED
  BY <1>1, <1>2 DEF EmbeddingNext, Quiescent

\* In every reachable state every mutex of the C API is owned by the one
\* thread whose calls hold it, as often as they do, and every call is where its
\* phase says.
THEOREM EmbeddingInvariance == EmbeddingSpec => []EmbeddingInv
<1>1. EmbeddingInit => EmbeddingInv
  BY EmbeddingInitInv, EmbeddingAssumption
<1>2. EmbeddingInv /\ [EmbeddingNext]_embeddingVars => EmbeddingInv'
  BY EmbeddingStep, EmbeddingAssumption
<1> QED
  BY <1>1, <1>2, PTL DEF EmbeddingSpec
-----------------------------------------------------------------------------
LEMMA OneActiveInvocation ==
  ASSUME EmbeddingInv
  PROVE  DebuggerServesOne
<1> SUFFICES ASSUME NEW i \in Active, NEW j \in Active,
                    CallOf(i).debugging, CallOf(j).debugging,
                    CallOf(i).debugger = CallOf(j).debugger
             PROVE  i = j
  BY DEF DebuggerServesOne
<1> DEFINE d == CallOf(i).debugger
<1>1. /\ i[1] \in HostThreads /\ j[1] \in HostThreads
      /\ i = <<i[1], i[2]>> /\ j = <<j[1], j[2]>>
      /\ i[2] \in DOMAIN callStack[i[1]] /\ j[2] \in DOMAIN callStack[j[1]]
  BY DEF Active
<1>2. \A t \in HostThreads : StackOK(callStack[t], callbackActive[t])
                             /\ DOMAIN callStack[t] = 1..Len(callStack[t])
  BY DEF EmbeddingInv, Stacks, StackOK, WellStacked
<1>3. i[2] \in 1..Len(callStack[i[1]]) /\ j[2] \in 1..Len(callStack[j[1]])
  BY <1>1, <1>2
<1>4. d \in Debuggers
  BY <1>1, <1>2, <1>3 DEF CallOf, StackOK, WellStacked, WellFormed
<1>5. d \in Locks /\ d \in Held(callStack[i[1]][i[2]]) /\ d \in Held(callStack[j[1]][j[2]])
  BY <1>4 DEF Locks, Held, CallOf
<1>6. i[1] = j[1]
  BY <1>1, <1>3, <1>5, OneHolder
<1>7. i[2] = j[2]
  BY <1>1, <1>2, <1>3, <1>4, <1>6 DEF StackOK, OneInvocation, Debugs, CallOf
<1> QED
  BY <1>1, <1>6, <1>7

\* A debugger serves one invocation at a time, and its executing flag is set
\* exactly while there is one (DebugInvocationScope): also when the thread that
\* holds its recursive mutex asks for another from a callback.
THEOREM DebuggersAreOwned == EmbeddingSpec => []DebuggerIsOwned
<1>1. EmbeddingInv => DebuggerIsOwned
  <2> SUFFICES ASSUME EmbeddingInv
               PROVE  ExecutingTold
    BY OneActiveInvocation DEF DebuggerIsOwned
  <2>1. \A t \in HostThreads : DOMAIN callStack[t] = 1..Len(callStack[t])
    BY DEF EmbeddingInv, Stacks, StackOK, WellStacked
  <2> QED
    BY <2>1 DEF EmbeddingInv, Told, Debugging, Debugs, ExecutingTold
<1> QED
  BY <1>1, EmbeddingInvariance, PTL

LEMMA Serialized ==
  ASSUME EmbeddingInv, EmbeddingAssumption
  PROVE  GraphSerialized
<1> SUFFICES ASSUME NEW i \in Active, NEW j \in Active, i # j
             PROVE  /\ /\ CallOf(i).shared /\ CallOf(j).shared
                       /\ Graph(CallOf(i).obj) = Graph(CallOf(j).obj)
                       => i[1] = j[1]
                    /\ CallOf(i).obj \in Sessions => CallOf(i).obj # CallOf(j).obj
                    /\ CallOf(i).obj \in Runtimes /\ CallOf(i).obj = CallOf(j).obj
                       => i[1] = j[1]
  BY DEF GraphSerialized
<1> DEFINE c == CallOf(i)
           e == CallOf(j)
<1>1. /\ i[1] \in HostThreads /\ j[1] \in HostThreads
      /\ i = <<i[1], i[2]>> /\ j = <<j[1], j[2]>>
      /\ i[2] \in DOMAIN callStack[i[1]] /\ j[2] \in DOMAIN callStack[j[1]]
      /\ c.op = "execute" /\ c.phase \in {"running", "callback"}
      /\ e.op = "execute" /\ e.phase \in {"running", "callback"}
  BY DEF Active, CallOf
<1>2. \A t \in HostThreads : StackOK(callStack[t], callbackActive[t])
                             /\ DOMAIN callStack[t] = 1..Len(callStack[t])
                             /\ callStack[t] \in Seq(ApiCalls)
  BY DEF EmbeddingInv, Stacks, StackOK, WellStacked
<1>3. i[2] \in 1..Len(callStack[i[1]]) /\ j[2] \in 1..Len(callStack[j[1]])
  BY <1>1, <1>2
<1>4. c.obj \in Objects /\ e.obj \in Objects
  BY <1>1, <1>2, <1>3 DEF CallOf, StackOK, WellStacked, WellFormed, ApiCalls
<1>5. ASSUME c.shared, e.shared, Graph(c.obj) = Graph(e.obj)
      PROVE  i[1] = j[1]
  <2>1. Graph(c.obj) \in Locks
    BY <1>4 DEF Graph, Objects, Locks, EmbeddingAssumption
  <2>2. Graph(c.obj) \in Held(callStack[i[1]][i[2]]) /\ Graph(c.obj) \in Held(callStack[j[1]][j[2]])
    BY <1>1, <1>5, <2>1 DEF Held, HoldsGraph, CallOf
  <2> QED
    BY <1>1, <1>3, <2>1, <2>2, OneHolder
<1>6. ASSUME c.obj \in Sessions \cup Runtimes, c.obj = e.obj
      PROVE  /\ i[1] = j[1] /\ OwnedLock(c.obj) /\ owner[c.obj] = i[1]
             /\ i[2] \in Levels(callStack[i[1]], c.obj) /\ j[2] \in Levels(callStack[i[1]], c.obj)
  <2>1. c.obj \in Locks /\ c.obj \notin Modules
    BY <1>6 DEF Locks, EmbeddingAssumption
  <2>2. c.obj \in Held(callStack[i[1]][i[2]]) /\ c.obj \in Held(callStack[j[1]][j[2]])
    BY <1>1, <1>6, <2>1 DEF Held, HoldsObject, CallOf
  <2>3. i[1] = j[1] /\ OwnedLock(c.obj) /\ owner[c.obj] = i[1]
    BY <1>1, <1>3, <2>1, <2>2, OneHolder
  <2> QED
    BY <1>1, <1>3, <2>2, <2>3 DEF Levels
<1>7. ASSUME c.obj \in Sessions, c.obj = e.obj
      PROVE  FALSE
  <2> DEFINE L == Levels(callStack[i[1]], c.obj)
  <2>1. /\ i[1] = j[1] /\ i[2] \in L /\ j[2] \in L
        /\ OwnedLock(c.obj) /\ owner[c.obj] = i[1]
    BY <1>6, <1>7
  <2>2. Cardinality(L) = 1
    BY <1>7, <2>1 DEF OwnedLock
  <2>3. IsFiniteSet(L)
    BY <1>1, <1>2, FiniteLevels
  <2> HIDE DEF L
  <2>4. i[2] = j[2]
    <3>1. PICK x : L = {x}
      BY <2>2, <2>3, FS_Singleton
    <3> QED
      BY <2>1, <3>1
  <2> QED
    BY <1>1, <2>1, <2>4
<1> QED
  BY <1>5, <1>6, <1>7

\* Invocations that use one module's graph never overlap on two threads, those
\* of one session never overlap at all, and below a guarded callback a thread
\* is admitted to nothing.
THEOREM CallsSerialized == EmbeddingSpec => []CallsAreSerialized
<1>1. EmbeddingInv => CallsAreSerialized
  <2> SUFFICES ASSUME EmbeddingInv
               PROVE  NothingUnderGuard
    BY Serialized, EmbeddingAssumption DEF CallsAreSerialized
  <2>1. \A t \in HostThreads : /\ DOMAIN callStack[t] = 1..Len(callStack[t])
                               /\ Guard(callStack[t], callbackActive[t])
    BY DEF EmbeddingInv, Stacks, StackOK, WellStacked
  <2> QED
    BY <2>1 DEF Guard, GuardedCall, UnderGuard, NothingUnderGuard
<1> QED
  BY <1>1, EmbeddingInvariance, PTL
=============================================================================
