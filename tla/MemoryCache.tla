----------------------------- MODULE MemoryCache -----------------------------
(***************************************************************************)
(* The transform operator with its cache (internal/operator/transform:     *)
(* Parser.match, memoryCache, atomicLimiter), called by several threads.   *)
(*                                                                         *)
(* A cached value is a map the parser builds and goes on changing after it *)
(* was published: the cache holds "whole" for a finished one and the name  *)
(* of the thread that is still building it otherwise.                      *)
(***************************************************************************)
EXTENDS AtomicLimiter, Sequences

CONSTANTS
    Threads,    \* goroutines that process entries
    Keys,       \* the bodies to match
    Matching,   \* those the regex matches
    Modes,      \* of the operator: "values" has named groups, "replacement" a
                \* replacement, "both" has both
    Nobody      \* no thread

ASSUME CacheAssumption ==
    /\ Matching \subseteq Keys
    /\ Modes \subseteq {"values", "replacement", "both"}
    /\ Nobody \notin Threads
    /\ Threads \cap {"none", "whole"} = {}

VARIABLES
    mode,     \* parseValues and replacement of the operator; never changes
    cache,    \* for each key "none", "whole", or the thread building its map
    keys,     \* the channel of keys, oldest first
    mutex,    \* holder of the write lock
    pc,       \* of each thread
    arg,      \* the body each thread matches
    stage,    \* which add of match a thread is at: "values" or "body"
    result    \* the map the last match returned: "whole" or "part"

cacheVars == <<mode, cache, keys, mutex, pc, arg, stage, result>>
vars == <<limiterVars, cacheVars>>

Init ==
    /\ LimiterInit
    /\ mode \in Modes
    /\ cache = [k \in Keys |-> "none"]
    /\ keys = <<>>
    /\ mutex = Nobody
    /\ pc = [t \in Threads |-> "idle"]
    /\ arg \in [Threads -> Keys]
    /\ stage = [t \in Threads |-> "values"]
    /\ result = [t \in Threads |-> "whole"]

-----------------------------------------------------------------------------
(* match *)

Match(t, k) ==
    /\ pc[t] = "idle"
    /\ pc' = [pc EXCEPT ![t] = "get"]
    /\ arg' = [arg EXCEPT ![t] = k]
    /\ UNCHANGED <<limiterVars, mode, cache, keys, mutex, stage, result>>

\* A read lock is granted while nobody holds the write lock.
GetHit(t) ==
    /\ pc[t] = "get"
    /\ mutex = Nobody
    /\ cache[arg[t]] # "none"
    /\ pc' = [pc EXCEPT ![t] = "idle"]
    /\ result' = [result EXCEPT ![t] =
                    IF cache[arg[t]] = "whole" THEN "whole" ELSE "part"]
    /\ UNCHANGED <<limiterVars, mode, cache, keys, mutex, arg, stage>>

GetMiss(t) ==
    /\ pc[t] = "get"
    /\ mutex = Nobody
    /\ cache[arg[t]] = "none"
    /\ pc' = [pc EXCEPT ![t] = IF mode = "replacement" THEN "replace" ELSE "parse"]
    /\ UNCHANGED <<limiterVars, mode, cache, keys, mutex, arg, stage, result>>

ParseFails(t) ==
    /\ pc[t] = "parse"
    /\ arg[t] \notin Matching
    /\ pc' = [pc EXCEPT ![t] = "idle"]
    /\ UNCHANGED <<limiterVars, mode, cache, keys, mutex, arg, stage, result>>

Parse(t) ==
    /\ pc[t] = "parse"
    /\ arg[t] \in Matching
    /\ pc' = [pc EXCEPT ![t] = "check"]
    /\ stage' = [stage EXCEPT ![t] = "values"]
    /\ UNCHANGED <<limiterVars, mode, cache, keys, mutex, arg, result>>

\* The body completes the map, wherever it has been published.
Replace(t) ==
    /\ pc[t] = "replace"
    /\ pc' = [pc EXCEPT ![t] = "check"]
    /\ stage' = [stage EXCEPT ![t] = "body"]
    /\ cache' = [k \in Keys |-> IF cache[k] = t THEN "whole" ELSE cache[k]]
    /\ UNCHANGED <<limiterVars, mode, keys, mutex, arg, result>>

\* Mutant: every map is published before it is filled.
DataEmpty(t) == IF stage[t] = "values" THEN t ELSE "whole"

\* The map a thread adds: still to be changed when a replacement follows.
Data(t) == IF mode = "both" /\ stage[t] = "values" THEN t ELSE "whole"

\* After an add: the replacement, if there is one to come, or the end of match.
Onward(t) ==
    IF mode = "both" /\ stage[t] = "values"
    THEN pc' = [pc EXCEPT ![t] = "replace"] /\ UNCHANGED result
    ELSE /\ pc' = [pc EXCEPT ![t] = "idle"]
         /\ result' = [result EXCEPT ![t] = "whole"]

-----------------------------------------------------------------------------
(* add and increment *)

\* Mutant: a throttled add waits for the limiter.
AddThrottledWaits(t) ==
    /\ pc[t] = "check"
    /\ Throttled
    /\ UNCHANGED vars

\* The limiter is asked before the lock is taken.
AddThrottled(t) ==
    /\ pc[t] = "check"
    /\ Throttled
    /\ Onward(t)
    /\ UNCHANGED <<limiterVars, mode, cache, keys, mutex, arg, stage>>

AddAllowed(t) ==
    /\ pc[t] = "check"
    /\ ~Throttled
    /\ pc' = [pc EXCEPT ![t] = "lock"]
    /\ UNCHANGED <<limiterVars, mode, cache, keys, mutex, arg, stage, result>>

AddLock(t) ==
    /\ pc[t] = "lock"
    /\ mutex = Nobody
    /\ mutex' = t
    /\ pc' = [pc EXCEPT ![t] = IF Len(keys) = MaxSize THEN "evict" ELSE "store"]
    /\ UNCHANGED <<limiterVars, mode, cache, keys, arg, stage, result>>

\* Mutant: the key leaves the queue, the item stays in the map.
EvictKeyOnly(t) ==
    /\ pc[t] = "evict"
    /\ keys' = Tail(keys)
    /\ pc' = [pc EXCEPT ![t] = "load"]
    /\ UNCHANGED <<limiterVars, mode, cache, mutex, arg, stage, result>>

\* The oldest key leaves the queue, and its item the map.
Evict(t) ==
    /\ pc[t] = "evict"
    /\ keys' = Tail(keys)
    /\ cache' = [cache EXCEPT ![Head(keys)] = "none"]
    /\ pc' = [pc EXCEPT ![t] = "load"]
    /\ UNCHANGED <<limiterVars, mode, mutex, arg, stage, result>>

\* Mutant: the counter is let past its limit.
IncrementLoadPast(t) ==
    /\ pc[t] = "load"
    /\ pc' = [pc EXCEPT ![t] = IF count > Limit THEN "store" ELSE "bump"]
    /\ UNCHANGED <<limiterVars, mode, cache, keys, mutex, arg, stage, result>>

IncrementLoad(t) ==
    /\ pc[t] = "load"
    /\ pc' = [pc EXCEPT ![t] = IF count = Limit THEN "store" ELSE "bump"]
    /\ UNCHANGED <<limiterVars, mode, cache, keys, mutex, arg, stage, result>>

IncrementAdd(t) ==
    /\ pc[t] = "bump"
    /\ count' = count + 1
    /\ pc' = [pc EXCEPT ![t] = "store"]
    /\ UNCHANGED <<ticker, mode, cache, keys, mutex, arg, stage, result>>

\* A send to a full channel would block with the lock held.
AddStore(t) ==
    /\ pc[t] = "store"
    /\ Len(keys) < MaxSize
    /\ cache' = [cache EXCEPT ![arg[t]] = Data(t)]
    /\ keys' = Append(keys, arg[t])
    /\ mutex' = Nobody
    /\ Onward(t)
    /\ UNCHANGED <<limiterVars, mode, arg, stage>>

-----------------------------------------------------------------------------
Get(t) == GetHit(t) \/ GetMiss(t)

Compute(t) == ParseFails(t) \/ Parse(t) \/ Replace(t)

Add(t) == \/ AddThrottled(t) \/ AddAllowed(t) \/ AddLock(t) \/ Evict(t)
          \/ IncrementLoad(t) \/ IncrementAdd(t) \/ AddStore(t)

Limiter == (Tick \/ TickerStops) /\ UNCHANGED cacheVars

Next ==
    \/ \E t \in Threads : (\E k \in Keys : Match(t, k)) \/ Get(t) \/ Compute(t) \/ Add(t)
    \/ Limiter

Spec == Init /\ [][Next]_vars

\* A call that was begun goes on, Go's RWMutex starves nobody, and the ticker
\* ticks.  No call need ever be made.
FairSpec ==
    /\ Spec
    /\ \A t \in Threads : /\ SF_vars(Get(t)) /\ SF_vars(AddLock(t))
                          /\ WF_vars(Compute(t)) /\ WF_vars(Add(t))
    /\ WF_vars(Tick /\ UNCHANGED cacheVars)

-----------------------------------------------------------------------------
(* Properties. *)

PcStates == {"idle", "get", "parse", "replace", "check", "lock", "evict", "load",
             "bump", "store"}

\* Every variable keeps to its type; the counter in particular never passes
\* below 0, where an atomic.Uint64 would become huge and throttle for ever.
TypeOK ==
    /\ count \in Nat
    /\ ticker \in {"wait", "add", "stopped"}
    /\ mode \in Modes
    /\ cache \in [Keys -> {"none", "whole"} \cup Threads]
    /\ keys \in Seq(Keys)
    /\ mutex \in Threads \cup {Nobody}
    /\ pc \in [Threads -> PcStates]
    /\ arg \in [Threads -> Keys]
    /\ stage \in [Threads -> {"values", "body"}]
    /\ result \in [Threads -> {"whole", "part"}]

Cached == {k \in Keys : cache[k] # "none"}

\* No item of the map is out of reach of eviction: its key is in the queue,
\* which is never longer than the size of the cache.  So neither is the map.
CacheBounded ==
    /\ \A k \in Cached : \E i \in 1 .. Len(keys) : keys[i] = k
    /\ Len(keys) <= MaxSize

\* The counter stops at its limit, which only the cache's lock around load and addition
\* ensures.  It is stated for caches in which a tick does not raise the counter: where the
\* conversion of the tick saturates, or below 14 items (see TickDelta and the theorem
\* CountStaysInRange).  In a larger one on amd64 a tick adds to the counter, past its limit.
CountInRange == count <= Limit

\* A hit returns what matching would have returned: never a map that another
\* thread is still writing to.
HitsWhole == \A t \in Threads : result[t] # "part"

\* A map is only ever incomplete in the cache while the thread that published it is
\* about to complete it: no item stays torn, neither after an eviction and a second
\* add of its body nor after an add that was throttled.
NoneLeftTorn ==
    \A k \in Keys, t \in Threads : cache[k] = t => pc[t] = "replace" /\ arg[t] = k

\* Every call of match returns: no send to the full channel of keys, and no
\* forgotten lock, holds it for ever.
CallsReturn == \A t \in Threads : (pc[t] # "idle") ~> (pc[t] = "idle")

\* Throttling is passing, as long as the limiter is not stopped.
ThrottleEnds == Throttled ~> (~Throttled \/ ticker = "stopped")
=============================================================================
