-------------------------- MODULE MCEmbeddingAndJit --------------------------
(***************************************************************************)
(* The parts around one execution: the debugger, the C API, the native     *)
(* kernel cache, the adaptive tier and the typed loop kernel.  They share  *)
(* no state; in a behaviour one moves, the others stay where they start.   *)
(***************************************************************************)
EXTENDS Debugger, EmbeddingApi, NativeKernelCache, AdaptiveTier, MCTypedRegion

CONSTANTS m1, s1, s2, r1, k1, k2, k3

VARIABLE moving

MCModuleOf == (s1 :> m1) @@ (s2 :> m1)

\* A host that reenters its runtime, and uses sessions from runtime callbacks.
MCMayNest == {<<r1, r1>>, <<r1, s1>>, <<s1, s2>>, <<r1, s2>>}

MCCodeSize == (k1 :> 2) @@ (k2 :> 3) @@ (k3 :> 4)

\* No room at all, one kernel, two small ones, and bytes as the limit.
MCLimits == {[maxEntries |-> 0, maxCodeBytes |-> 9],
             [maxEntries |-> 1, maxCodeBytes |-> 9],
             [maxEntries |-> 2, maxCodeBytes |-> 5],
             [maxEntries |-> 3, maxCodeBytes |-> 7]}

sumVars == <<moving, debuggerVars, embeddingVars, cacheVars, tierVars, regionVars>>

NoRegion == [variable |-> "none", body |-> <<>>]

Parts == {"debugger", "embedding", "cache", "tier", "region"}

SumInit ==
    /\ moving \in Parts
    /\ DebuggerInit /\ EmbeddingInit /\ TierInit
    /\ EmptyCache /\ limits \in IF moving = "cache" THEN LimitChoices
                                ELSE {CHOOSE choice \in LimitChoices : TRUE}
    /\ IF moving = "region" THEN Initially
       ELSE /\ region = NoRegion /\ range = "none" /\ entry = <<>>
            /\ limited = FALSE /\ backend = "auto"
            /\ AtEntry

\* No invocation of the adaptive tier is left; the loop has ended.
Finished ==
    /\ \/ moving = "tier" /\ runs = RunBound
       \/ moving = "region" /\ Settled
    /\ UNCHANGED sumVars

SumNext ==
    /\ UNCHANGED moving
    /\ \/ /\ moving = "debugger" /\ DebuggerNext
          /\ UNCHANGED <<embeddingVars, cacheVars, tierVars, regionVars>>
       \/ /\ moving = "embedding" /\ EmbeddingNext
          /\ UNCHANGED <<debuggerVars, cacheVars, tierVars, regionVars>>
       \/ /\ moving = "cache" /\ CacheNext
          /\ UNCHANGED <<debuggerVars, embeddingVars, tierVars, regionVars>>
       \/ /\ moving = "tier" /\ TierNext
          /\ UNCHANGED <<debuggerVars, embeddingVars, cacheVars, regionVars>>
       \/ /\ moving = "region" /\ RegionNext
          /\ UNCHANGED <<debuggerVars, embeddingVars, cacheVars, tierVars>>
       \/ Finished

SumSpec == SumInit /\ [][SumNext]_sumVars
=============================================================================
