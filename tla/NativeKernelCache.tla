------------------------- MODULE NativeKernelCache -------------------------
(***************************************************************************)
(* The process-wide cache of SLJIT kernels and the threads that use it.    *)
(*                                                                         *)
(* Every operation of the cache is one critical section, but a thread that *)
(* misses compiles with the mutex released: others may compile and store   *)
(* the same kernel, evict, reconfigure or clear before it stores its own.  *)
(* Generated code is a function of the kernel, so a key stands for its     *)
(* kernel and CodeSize for the size of its code.                           *)
(***************************************************************************)
EXTENDS Integers, Sequences, SequencesExt, FiniteSets, FiniteSetsExt, Functions

CONSTANTS
    Compilers,       \* threads that execute typed regions
    Keys,          \* kernelCacheKey of the kernels met
    CodeSize,      \* bytes of code generated for each
    LimitChoices,  \* cache limits the host may configure
    LookupBound,     \* bound: executions started
    ConfigBound    \* bound: operations of the host

Limits == [maxEntries : Nat, maxCodeBytes : Nat]

ASSUME CacheAssumption ==
    /\ CodeSize \in [Keys -> Nat \ {0}]
    /\ LimitChoices \subseteq Limits
    /\ LookupBound \in Nat /\ ConfigBound \in Nat
    /\ IsFiniteSet(Compilers)

Counters == {"lookup", "hit", "miss", "compilation", "failure", "insertion",
             "duplicate", "bypass", "eviction", "evictedBytes", "cleared",
             "clearedBytes"}
NoCounts == [c \in Counters |-> 0]

VARIABLES
    limits,      \* limits_
    statistics,  \* statistics_
    recency,     \* recency_, the most recently used first
    entries,     \* the keys of entries_
    codeBytes,   \* codeBytes_
    stage, key,     \* each thread: where it is and the kernel it executes
    lookups,       \* executions started
    configs,     \* host operations performed
    atReset,     \* history: misses in flight at the last resetStatistics
    used         \* history: the order of the last uses of the keys

cacheVars == <<limits, statistics, recency, entries, codeBytes, stage, key, lookups,
          configs, atReset, used>>
cache == <<limits, recency, entries, codeBytes, used>>

CachePlaces == {"idle", "compile", "store", "execute"}

\* The code of some kernels, byte for byte, and its size.
CodeOf(keys) == UNION {{<<k, i>> : i \in 1..CodeSize[k]} : k \in keys}
Bytes(keys) == Cardinality(CodeOf(keys))

Misses == {t \in Compilers : stage[t] \in {"compile", "store"}}
InFlight == Cardinality(Misses)

\* Counters move together; by maps each counter to its increment.
Count(by) == statistics' = [c \in Counters |->
                 statistics[c] + (IF c \in DOMAIN by THEN by[c] ELSE 0)]

Proceed(t, place) == stage' = [stage EXCEPT ![t] = place]

Use(k) == used' = [used EXCEPT ![k] = 1 + Max(Range(used))]
-----------------------------------------------------------------------------
EmptyCache ==
    /\ statistics = NoCounts
    /\ recency = <<>>
    /\ entries = {}
    /\ codeBytes = 0
    /\ stage = [t \in Compilers |-> "idle"]
    /\ key = [t \in Compilers |-> CHOOSE k \in Keys : TRUE]
    /\ lookups = 0
    /\ configs = 0
    /\ atReset = 0
    /\ used = [k \in Keys |-> 0]

CacheInit == limits \in LimitChoices /\ EmptyCache

Untouched(k) == recency

\* The entry is spliced to the front, the ones before it move back.
touchLocked(k) ==
    LET at == CHOOSE i \in DOMAIN recency : recency[i] = k
    IN  [i \in DOMAIN recency |-> IF i = 1 THEN k
                                 ELSE IF i <= at THEN recency[i - 1] ELSE recency[i]]

\* executeNativeScalarKernel begins by looking for its kernel.
find(t, k) ==
    /\ stage[t] = "idle"
    /\ lookups < LookupBound
    /\ lookups' = lookups + 1
    /\ key' = [key EXCEPT ![t] = k]
    /\ IF k \in entries
       THEN /\ Count([lookup |-> 1, hit |-> 1])
            /\ recency' = touchLocked(k)
            /\ Use(k)
            /\ Proceed(t, "execute")
       ELSE /\ Count([lookup |-> 1, miss |-> 1])
            /\ Proceed(t, "compile")
            /\ UNCHANGED <<recency, used>>
    /\ UNCHANGED <<limits, entries, codeBytes, configs, atReset>>

recordCompilationSilently(t) ==
    /\ stage[t] = "compile"
    /\ \/ Count([compilation |-> 1]) /\ Proceed(t, "store")
       \/ UNCHANGED statistics /\ Proceed(t, "idle")
    /\ UNCHANGED <<cache, key, lookups, configs, atReset>>

\* compileKernel, with no lock held, and recordCompilation.
recordCompilation(t) ==
    /\ stage[t] = "compile"
    /\ \/ Count([compilation |-> 1]) /\ Proceed(t, "store")
       \/ Count([failure |-> 1]) /\ Proceed(t, "idle")
    /\ UNCHANGED <<cache, key, lookups, configs, atReset>>

\* evictLeastRecentLocked while there is an entry and they are more than room
\* or larger than bytes: the longest prefix of recency_ that fits.
Survivors(room, bytes) ==
    LET Prefix(n) == SubSeq(recency, 1, n)
    IN  Prefix(Max({n \in 0..Len(recency) :
            \/ n = 0
            \/ /\ n <= room
               /\ codeBytes - Bytes(entries \ ToSet(Prefix(n))) <= bytes}))

Cachable(size) == /\ limits.maxEntries # 0
                  /\ limits.maxCodeBytes # 0
                  /\ size <= limits.maxCodeBytes

\* What stays when a kernel of this size is to be added.
KeptBesideOneMore(size) ==
    Survivors(limits.maxEntries, limits.maxCodeBytes - size)

KeptBeside(size) ==
    Survivors(limits.maxEntries - 1, limits.maxCodeBytes - size)

storeWithoutLookup(t) ==
    LET k      == key[t]
        size   == CodeSize[k]
        kept   == KeptBeside(size)
        victims == entries \ ToSet(kept)
    IN  /\ stage[t] = "store"
        /\ Proceed(t, "execute")
        /\ IF ~Cachable(size)
           THEN /\ Count([bypass |-> 1])
                /\ UNCHANGED <<recency, used, entries, codeBytes>>
           ELSE /\ Count([insertion |-> 1, eviction |-> Cardinality(victims),
                          evictedBytes |-> Bytes(victims)])
                /\ recency' = <<k>> \o kept
                /\ entries' = ToSet(kept) \cup {k}
                /\ codeBytes' = codeBytes - Bytes(victims) + size
                /\ Use(k)
        /\ UNCHANGED <<limits, key, lookups, configs, atReset>>

\* store: somebody else stored it, it cannot be kept, or it is inserted.
store(t) ==
    LET k      == key[t]
        size   == CodeSize[k]
        kept   == KeptBeside(size)
        victims == entries \ ToSet(kept)
    IN  /\ stage[t] = "store"
        /\ Proceed(t, "execute")
        /\ \/ /\ k \in entries
              /\ Count([duplicate |-> 1])
              /\ recency' = touchLocked(k)
              /\ Use(k)
              /\ UNCHANGED <<entries, codeBytes>>
           \/ /\ k \notin entries /\ ~Cachable(size)
              /\ Count([bypass |-> 1])
              /\ UNCHANGED <<recency, used, entries, codeBytes>>
           \/ /\ k \notin entries /\ Cachable(size)
              /\ Count([insertion |-> 1, eviction |-> Cardinality(victims),
                        evictedBytes |-> Bytes(victims)])
              /\ recency' = <<k>> \o kept
              /\ entries' = ToSet(kept) \cup {k}
              /\ codeBytes' = codeBytes - Bytes(victims) + size
              /\ Use(k)
        /\ UNCHANGED <<limits, key, lookups, configs, atReset>>

\* The kernel runs; its shared_ptr keeps the code alive when it is evicted.
execute(t) ==
    /\ stage[t] = "execute"
    /\ Proceed(t, "idle")
    /\ UNCHANGED <<cache, statistics, key, lookups, configs, atReset>>
-----------------------------------------------------------------------------
Host == configs < ConfigBound /\ configs' = configs + 1

configure(new) ==
    LET kept    == Survivors(new.maxEntries, new.maxCodeBytes)
        victims == entries \ ToSet(kept)
    IN  /\ Host
        /\ limits' = new
        /\ Count([eviction |-> Cardinality(victims), evictedBytes |-> Bytes(victims)])
        /\ recency' = kept
        /\ entries' = ToSet(kept)
        /\ codeBytes' = codeBytes - Bytes(victims)
        /\ UNCHANGED <<stage, key, lookups, atReset, used>>

clear ==
    /\ Host
    /\ Count([cleared |-> Cardinality(entries), clearedBytes |-> codeBytes])
    /\ recency' = <<>>
    /\ entries' = {}
    /\ codeBytes' = 0
    /\ UNCHANGED <<limits, stage, key, lookups, atReset, used>>

resetStatistics ==
    /\ Host
    /\ statistics' = NoCounts
    /\ atReset' = InFlight
    /\ UNCHANGED <<cache, stage, key, lookups>>

Execution == \E t \in Compilers :
    \/ \E k \in Keys : find(t, k)
    \/ recordCompilation(t) \/ store(t) \/ execute(t)

Configuration ==
    \/ \E new \in LimitChoices : configure(new)
    \/ clear \/ resetStatistics

\* No execution is left to start or to finish.
CacheQuiescent ==
    /\ lookups = LookupBound
    /\ \A t \in Compilers : stage[t] = "idle"
    /\ UNCHANGED cacheVars

CacheNext == Execution \/ Configuration \/ CacheQuiescent

CacheSpec == CacheInit /\ [][CacheNext]_cacheVars
-----------------------------------------------------------------------------
(***************************************************************************)
(* Properties.                                                             *)
(***************************************************************************)
\* The list and the map describe the same entries, none twice, and codeBytes_
\* is their size.
ListMatchesMap ==
    /\ Len(recency) = Cardinality(entries)
    /\ ToSet(recency) = entries
    /\ codeBytes = Bytes(entries)

WithinLimits ==
    /\ Cardinality(entries) <= limits.maxEntries
    /\ codeBytes <= limits.maxCodeBytes

MissesAccounted ==
    atReset + statistics["miss"] =
        InFlight + statistics["failure"] + statistics["insertion"]
                 + statistics["duplicate"] + statistics["bypass"]

\* Whoever stored, evicted or cleared in between, the cache describes one set
\* of kernels, or an eviction would erase the wrong entry or loop on a key
\* that is not there; and it is bounded at every moment, also just after limits
\* were lowered and with several kernels compiled at once.  Every miss ends as
\* exactly one of a failed compilation, an insertion, a duplicate or a bypass;
\* the others are in flight.
CacheIsConsistent == ListMatchesMap /\ WithinLimits /\ MissesAccounted

\* Only the least recently used kernels are evicted, by whatever thread a
\* kernel was last used.
EvictsLeastRecent ==
    [][\A victim \in entries \ entries', kept \in entries \cap entries' :
           used[victim] < used[kept]]_cacheVars
=============================================================================
