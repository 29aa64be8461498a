--------------------------- MODULE AdaptiveTier ---------------------------
(***************************************************************************)
(* AdaptiveBytecodeVmSession: an entry function is profiled until a loop   *)
(* is hot, runs with typed regions until one falls back too often, and is  *)
(* profiled again; a loop that failed needs evidence to be installed anew. *)
(*                                                                         *)
(* One step is one invocation.  What the program does in it (iterations,   *)
(* values observed, typed attempts that execute or fall back, an error) is *)
(* chosen freely; a region is known by its source pc.                      *)
(***************************************************************************)
EXTENDS Integers, FiniteSets

CONSTANTS
    Loops,               \* scalar-loop regions
    Dense,               \* dense-array-assignment regions
    HotLoopThreshold, FallbackInvalidationThreshold,
    RunBound,            \* bound: invocations
    IterationBound,      \* bound: iterations of a loop in an invocation
    AttemptBound         \* bound: typed attempts of a region in an invocation

ASSUME TierAssumption ==
    /\ Loops \cap Dense = {}
    /\ HotLoopThreshold \in Nat \ {0}
    /\ FallbackInvalidationThreshold \in Nat \ {0}
    /\ RunBound \in Nat /\ IterationBound \in Nat /\ AttemptBound \in Nat

Regions == Loops \cup Dense

VARIABLES
    runs,           \* invocations since the model began
    profile,        \* accumulatedProfile_: heat and entry values per region
    installed,      \* the regions typedModule_ executes, {} without a module
    promotionCount, invalidationCount,
    consecutiveFallbacks,
    retraining,     \* retrainingSources_
    reported,       \* reportedRetrainingRejections_
    events,         \* the events the last invocation appended
    streak,         \* history: fallbacks since a region executed or was reinstalled
    failed,         \* history: regions invalidated and not promoted since
    told,           \* history: failed regions whose rejection was reported
    observed,       \* history: values seen since the last invalidation
    iterations      \* history: iterations since the last invalidation

session == <<profile, installed, promotionCount, invalidationCount,
             consecutiveFallbacks, retraining, reported, events>>
history == <<streak, failed, told, observed, iterations>>
tierVars == <<runs, session, history>>

\* What a profile says of the values a region works on: stable scalar doubles
\* (of a dense assignment: stable floating arrays), anything else, or nothing.
Seen == {"none", "good", "bad"}
Observation == [iterations : 0..IterationBound, seen : Seen]
Runs == {run \in [Regions -> Observation] :
            \A r \in Dense : run[r].iterations = 0}
Empty == [iterations |-> 0, seen |-> "none"]
Outcomes == UNION {[1..n -> {"executed", "fallback"}] : n \in 0..AttemptBound}
EventKinds == {"Promotion", "TypedExecution", "TypedFallback", "Invalidation",
               "RetrainingRejected"}
TierEvents(kind, regions) == {<<kind, r>> : r \in regions}

Initial ==
    [profile |-> [r \in Regions |-> Empty], streaks |-> [r \in Regions |-> 0]]

TierInit ==
    /\ runs = 0
    /\ profile = Initial.profile
    /\ installed = {} /\ promotionCount = 0 /\ invalidationCount = 0
    /\ consecutiveFallbacks = Initial.streaks
    /\ retraining = {} /\ reported = {} /\ events = {}
    /\ streak = Initial.streaks
    /\ failed = {} /\ told = {}
    /\ observed = [r \in Regions |-> {}]
    /\ iterations = [r \in Regions |-> 0]
-----------------------------------------------------------------------------
(***************************************************************************)
(* The profiling tier.                                                     *)
(***************************************************************************)
\* Values of one kind stay stable, others become "mixed" for good.
mergeSeen(old, new) ==
    IF new = "none" \/ old = new THEN old
    ELSE IF old = "none" THEN new ELSE "bad"

\* Iterations are capped where nothing tells larger counts apart.
AddIterations(old, new) ==
    IF old + new > HotLoopThreshold THEN HotLoopThreshold ELSE old + new

mergeProfile(run) ==
    [r \in Regions |->
        [iterations |-> AddIterations(profile[r].iterations, run[r].iterations),
         seen |-> mergeSeen(profile[r].seen, run[r].seen)]]

\* BytecodeOptimizationPlanner::plan: hot loops, and dense assignments whose
\* profile shows floating arrays.
plan(merged) ==
    {r \in Loops : merged[r].iterations >= HotLoopThreshold}
        \cup {r \in Dense : merged[r].seen = "good"}

hasRetrainingEvidenceAlways(merged, r) == TRUE

hasRetrainingEvidence(merged, r) == merged[r].seen = "good"

\* The loops applyRetrainingRequirements turns down.
RejectedLoops(merged) ==
    {r \in plan(merged) \cap Loops \cap retraining :
        ~hasRetrainingEvidence(merged, r)}

Executable(merged) == plan(merged) \ RejectedLoops(merged)

applyRetrainingForgetting(merged) ==
    LET rejected == RejectedLoops(merged)
        proved == (plan(merged) \cap Loops \cap retraining) \ rejected
    IN  /\ retraining' = retraining \ proved
        /\ reported' = reported \ proved
        /\ events' = TierEvents("RetrainingRejected", rejected \ reported)
                        \cup TierEvents("Promotion", Executable(merged) \cap Loops)

\* A promotion needs a loop; dense regions are installed along with it, and
\* only loops are reported.
applyRetrainingRequirements(merged) ==
    LET rejected == RejectedLoops(merged)
        proved == (plan(merged) \cap Loops \cap retraining) \ rejected
    IN  /\ retraining' = retraining \ proved
        /\ reported' = (reported \ proved) \cup rejected
        /\ events' = TierEvents("RetrainingRejected", rejected \ reported)
                        \cup TierEvents("Promotion", Executable(merged) \cap Loops)

Promote(merged) ==
    LET promoted == Executable(merged) \cap Loops # {}
    IN  /\ installed' = IF promoted THEN Executable(merged) ELSE {}
        /\ promotionCount' = promotionCount + (IF promoted THEN 1 ELSE 0)

Observe(run) ==
    /\ observed' = [r \in Regions |->
                       observed[r] \cup ({run[r].seen} \ {"none"})]
    /\ iterations' = [r \in Regions |->
                         AddIterations(iterations[r], run[r].iterations)]
    /\ streak' = [r \in Regions |->
                     IF r \in failed \cap installed' THEN 0 ELSE streak[r]]
    /\ failed' = failed \ installed'
    /\ told' = (told \cup {e[2] : e \in {x \in events' : x[1] = "RetrainingRejected"}})
                    \ installed'

ProfilingRun ==
    /\ installed = {} /\ runs < RunBound
    /\ runs' = runs + 1
    /\ \E run \in Runs :
        LET merged == mergeProfile(run)
        IN  /\ profile' = merged
            /\ applyRetrainingRequirements(merged)
            /\ Promote(merged)
            /\ Observe(run)
    /\ UNCHANGED <<invalidationCount, consecutiveFallbacks>>

\* An invocation that reports an error neither merges nor promotes.
FailedProfilingRun ==
    /\ installed = {} /\ runs < RunBound
    /\ runs' = runs + 1
    /\ events' = {}
    /\ UNCHANGED <<profile, installed, promotionCount, invalidationCount,
                   consecutiveFallbacks, retraining, reported, history>>
-----------------------------------------------------------------------------
(***************************************************************************)
(* The typed tier; an invocation that reports an error is processed alike. *)
(***************************************************************************)
Fallbacks(outcome) == Cardinality({i \in DOMAIN outcome : outcome[i] = "fallback"})
Executed(outcome) == \E i \in DOMAIN outcome : outcome[i] = "executed"

\* The fallbacks after the last execution, or all of them.
Trailing(before, outcome) ==
    IF Executed(outcome)
    THEN Cardinality({i \in DOMAIN outcome :
             /\ outcome[i] = "fallback"
             /\ \A j \in DOMAIN outcome : outcome[j] = "executed" => j < i})
    ELSE before + Fallbacks(outcome)

CountFallbacksAnew(outcomes) ==
    [r \in Regions |->
        IF r \in installed THEN Fallbacks(outcomes[r]) ELSE consecutiveFallbacks[r]]

\* The count restarts when the region executed at all, then takes every
\* fallback of the invocation, in whatever order they happened.
CountFallbacks(outcomes) ==
    [r \in Regions |->
        IF r \in installed
        THEN (IF Executed(outcomes[r]) THEN 0 ELSE consecutiveFallbacks[r])
                + Fallbacks(outcomes[r])
        ELSE consecutiveFallbacks[r]]

TooMany(counts, outcomes) ==
    {r \in installed : /\ Fallbacks(outcomes[r]) > 0
                       /\ counts[r] >= FallbackInvalidationThreshold}

TypedEvents(outcomes) ==
    TierEvents("TypedExecution", {r \in installed : Executed(outcomes[r])})
        \cup TierEvents("TypedFallback", {r \in installed : Fallbacks(outcomes[r]) > 0})

invalidateKeepingProfile(regions) ==
    /\ installed' = {} /\ invalidationCount' = invalidationCount + 1
    /\ retraining' = retraining \cup regions
    /\ reported' = reported \ regions
    /\ UNCHANGED profile

invalidate(regions) ==
    /\ installed' = {} /\ invalidationCount' = invalidationCount + 1
    /\ retraining' = retraining \cup regions
    /\ reported' = reported \ regions
    /\ profile' = Initial.profile

processTypedExecutions(outcomes) ==
    LET counts == CountFallbacks(outcomes)
        tooMany == TooMany(counts, outcomes)
    IN  /\ consecutiveFallbacks' =
               [r \in Regions |-> IF r \in tooMany THEN 0 ELSE counts[r]]
        /\ events' = TypedEvents(outcomes) \cup TierEvents("Invalidation", tooMany)
        /\ streak' = [r \in Regions |->
                         IF r \in installed THEN Trailing(streak[r], outcomes[r])
                         ELSE streak[r]]
        /\ IF tooMany = {}
           THEN UNCHANGED <<profile, installed, invalidationCount, retraining,
                            reported, failed, told, observed, iterations>>
           ELSE /\ invalidate(tooMany)
                /\ failed' = failed \cup tooMany
                /\ told' = told \ tooMany
                /\ observed' = [r \in Regions |-> {}]
                /\ iterations' = [r \in Regions |-> 0]

TypedRun ==
    /\ installed # {} /\ runs < RunBound
    /\ runs' = runs + 1
    /\ \E outcomes \in [installed -> Outcomes] : processTypedExecutions(outcomes)
    /\ UNCHANGED promotionCount

\* AdaptiveBytecodeVmSession::reset
reset ==
    /\ runs > 0 /\ runs < RunBound
    /\ runs' = runs + 1
    /\ profile' = Initial.profile
    /\ installed' = {} /\ promotionCount' = 0 /\ invalidationCount' = 0
    /\ consecutiveFallbacks' = Initial.streaks
    /\ retraining' = {} /\ reported' = {} /\ events' = {}
    /\ streak' = Initial.streaks
    /\ failed' = {} /\ told' = {}
    /\ observed' = [r \in Regions |-> {}]
    /\ iterations' = [r \in Regions |-> 0]

TierNext == ProfilingRun \/ FailedProfilingRun \/ TypedRun \/ reset

TierSpec == TierInit /\ [][TierNext]_tierVars
-----------------------------------------------------------------------------
(***************************************************************************)
(* Properties.                                                             *)
(***************************************************************************)
\* A fallback streak that reaches the limit never outlives the invocation: what
\* is still installed has fallen back less often since it last executed.
RepeatedFallbackInvalidates ==
    \A r \in installed : streak[r] < FallbackInvalidationThreshold

\* The new profile alone decides: a loop that is installed became hot in
\* invocations since the last invalidation; and one that failed is installed
\* again only when everything observed of its inputs since then is stable
\* scalar numeric.
LoopsProveThemselves ==
    [][\A r \in installed' \cap Loops :
          /\ iterations'[r] >= HotLoopThreshold
          /\ r \in failed => observed'[r] = {"good"}]_tierVars

\* A failed loop that is hot and turned down is reported, once per failure.
RejectionsToldOnce ==
    [][/\ \A r \in failed \cap Loops :
             /\ <<"RetrainingRejected", r>> \in events' => r \notin told
             /\ events' # events /\ <<"Promotion", r>> \notin events'
                /\ r \in failed' \cap plan(profile') /\ installed = {}
                => r \in told']_tierVars

=============================================================================
