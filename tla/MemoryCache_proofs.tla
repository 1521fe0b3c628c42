------------------------- MODULE MemoryCache_proofs -------------------------
(***************************************************************************)
(* Proofs about MemoryCache for any number of threads, any bodies and any  *)
(* size of the cache.  The counter stays below its limit where a tick does *)
(* not raise it; hits are whole where no operator both parses and replaces.*)
(***************************************************************************)
EXTENDS MemoryCache, TLAPS

\* Where a thread holds the lock.
Locked == {"evict", "load", "bump", "store"}

\* The lock has one holder, and its holder knows how long the queue is.
LockOf(t) ==
    /\ pc[t] \in Locked <=> mutex = t
    /\ pc[t] = "evict" => Len(keys) = MaxSize
    /\ pc[t] \in {"load", "bump", "store"} => Len(keys) < MaxSize

LockInv == \A t \in Threads : LockOf(t)

\* Typing, and what keeps the counter from passing below 0: only the ticker takes
\* anything away, after it has seen that there is something.
TypeInv ==
    /\ TypeOK
    /\ ticker = "add" => count > 0

\* The inductive invariant of the cache.
IInv ==
    /\ TypeInv
    /\ LockInv
    /\ CacheBounded

-----------------------------------------------------------------------------
(* The limiter. *)

\* A tick takes away 1 at most.
LEMMA TickDeltaType == TickDelta \in Int /\ TickDelta >= -1
<1> DEFINE r == (Limit + 5) \div 10
<1>1. r \in Int
  BY LimiterAssumption DEF Limit
<1> QED
  BY <1>1 DEF TickDelta

\* A tick does not raise the counter where the conversion saturates, nor where
\* the cache is small.
LEMMA TickDeltaDown ==
  ASSUME ~Wraps \/ MaxSize < 14
  PROVE  TickDelta <= 0
<1>1. CASE ~Wraps
  BY <1>1 DEF TickDelta
<1>2. CASE MaxSize < 14
  <2>1. (Limit + 5) \div 10 \in Int /\ (Limit + 5) \div 10 <= 1
    BY <1>2, LimiterAssumption DEF Limit
  <2> QED
    BY <2>1 DEF TickDelta
<1> QED
  BY <1>1, <1>2

-----------------------------------------------------------------------------
(* The inductive invariant. *)

\* The inductive invariant holds before the first call.
LEMMA IInvInit == Init => IInv
  BY LimiterAssumption, CacheAssumption
  DEF Init, LimiterInit, IInv, TypeInv, TypeOK, PcStates, LockInv, LockOf, Locked,
      CacheBounded, Cached

\* The oldest key of a queue that is full.
LEMMA FullQueue ==
  ASSUME IInv, NEW t \in Threads, pc[t] = "evict"
  PROVE  /\ Len(keys) = MaxSize /\ keys # <<>>
         /\ Head(keys) \in Keys /\ Tail(keys) \in Seq(Keys)
<1>1. keys \in Seq(Keys) /\ Len(keys) = MaxSize /\ MaxSize > 0
  BY LimiterAssumption DEF IInv, TypeInv, TypeOK, LockInv, LockOf
<1>2. keys # <<>>
  BY <1>1
<1> QED
  BY <1>1, <1>2

\* No action takes a variable out of its type, nor the counter below 0.
LEMMA TypeStep == IInv /\ [Next]_vars => TypeInv'
<1> SUFFICES ASSUME IInv, [Next]_vars PROVE TypeInv'
  OBVIOUS
<1> USE LimiterAssumption DEF IInv, TypeInv, TypeOK, PcStates
<1>1. ASSUME NEW t \in Threads, NEW k \in Keys, Match(t, k) PROVE TypeInv'
  BY <1>1 DEF Match, limiterVars
<1>2. ASSUME NEW t \in Threads, GetHit(t) PROVE TypeInv'
  BY <1>2 DEF GetHit, limiterVars
<1>3. ASSUME NEW t \in Threads, GetMiss(t) PROVE TypeInv'
  BY <1>3 DEF GetMiss, limiterVars
<1>4. ASSUME NEW t \in Threads, ParseFails(t) PROVE TypeInv'
  BY <1>4 DEF ParseFails, limiterVars
<1>5. ASSUME NEW t \in Threads, Parse(t) PROVE TypeInv'
  BY <1>5 DEF Parse, limiterVars
<1>6. ASSUME NEW t \in Threads, Replace(t) PROVE TypeInv'
  BY <1>6 DEF Replace, limiterVars
<1>7. ASSUME NEW t \in Threads, AddThrottled(t) PROVE TypeInv'
  BY <1>7 DEF AddThrottled, Onward, limiterVars
<1>8. ASSUME NEW t \in Threads, AddAllowed(t) PROVE TypeInv'
  BY <1>8 DEF AddAllowed, limiterVars
<1>9. ASSUME NEW t \in Threads, AddLock(t) PROVE TypeInv'
  BY <1>9 DEF AddLock, limiterVars
<1>10. ASSUME NEW t \in Threads, Evict(t) PROVE TypeInv'
  <2>1. Tail(keys) \in Seq(Keys) /\ Head(keys) \in Keys
    BY <1>10, FullQueue DEF Evict
  <2> QED
    BY <1>10, <2>1 DEF Evict, limiterVars
<1>11. ASSUME NEW t \in Threads, IncrementLoad(t) PROVE TypeInv'
  BY <1>11 DEF IncrementLoad, limiterVars
<1>12. ASSUME NEW t \in Threads, IncrementAdd(t) PROVE TypeInv'
  <2>1. count + 1 \in Nat /\ count + 1 > 0
    OBVIOUS
  <2> QED
    BY <1>12, <2>1 DEF IncrementAdd, limiterVars
<1>13. ASSUME NEW t \in Threads, AddStore(t) PROVE TypeInv'
  <2>1. Append(keys, arg[t]) \in Seq(Keys)
    OBVIOUS
  <2> QED
    BY <1>13, <2>1 DEF AddStore, Onward, Data, limiterVars
<1>14. ASSUME TickLoad, UNCHANGED cacheVars PROVE TypeInv'
  BY <1>14 DEF TickLoad, cacheVars
<1>15. ASSUME TickAdd, UNCHANGED cacheVars PROVE TypeInv'
  <2>1. count + TickDelta \in Nat
    BY <1>15, TickDeltaType DEF TickAdd
  <2> QED
    BY <1>15, <2>1 DEF TickAdd, cacheVars
<1>16. ASSUME TickerStops, UNCHANGED cacheVars PROVE TypeInv'
  BY <1>16 DEF TickerStops, cacheVars
<1>17. CASE UNCHANGED vars
  BY <1>17 DEF vars, limiterVars, cacheVars
<1> QED
  BY <1>1, <1>2, <1>3, <1>4, <1>5, <1>6, <1>7, <1>8, <1>9,
     <1>10, <1>11, <1>12, <1>13, <1>14, <1>15, <1>16, <1>17
  DEF Next, Get, Compute, Add, Limiter, Tick

\* The lock excludes: who does not hold it does not touch the queue.
LEMMA LockStep == IInv /\ [Next]_vars => LockInv'
<1> SUFFICES ASSUME IInv, [Next]_vars, NEW u \in Threads PROVE LockOf(u)'
  BY DEF LockInv
<1> USE CacheAssumption DEF IInv, TypeInv, TypeOK, LockInv, LockOf, Locked, PcStates
<1>1. ASSUME NEW t \in Threads, NEW k \in Keys, Match(t, k) PROVE LockOf(u)'
  BY <1>1 DEF Match, limiterVars
<1>2. ASSUME NEW t \in Threads, GetHit(t) PROVE LockOf(u)'
  BY <1>2 DEF GetHit, limiterVars
<1>3. ASSUME NEW t \in Threads, GetMiss(t) PROVE LockOf(u)'
  BY <1>3 DEF GetMiss, limiterVars
<1>4. ASSUME NEW t \in Threads, ParseFails(t) PROVE LockOf(u)'
  BY <1>4 DEF ParseFails, limiterVars
<1>5. ASSUME NEW t \in Threads, Parse(t) PROVE LockOf(u)'
  BY <1>5 DEF Parse, limiterVars
<1>6. ASSUME NEW t \in Threads, Replace(t) PROVE LockOf(u)'
  BY <1>6 DEF Replace, limiterVars
<1>7. ASSUME NEW t \in Threads, AddThrottled(t) PROVE LockOf(u)'
  BY <1>7 DEF AddThrottled, Onward, limiterVars
<1>8. ASSUME NEW t \in Threads, AddAllowed(t) PROVE LockOf(u)'
  BY <1>8 DEF AddAllowed, limiterVars
<1>9. ASSUME NEW t \in Threads, AddLock(t) PROVE LockOf(u)'
  <2>1. Len(keys) \in Nat /\ Len(keys) <= MaxSize
    BY DEF CacheBounded
  <2> QED
    BY <1>9, <2>1, LimiterAssumption DEF AddLock, limiterVars
<1>10. ASSUME NEW t \in Threads, Evict(t) PROVE LockOf(u)'
  <2>1. Len(Tail(keys)) = MaxSize - 1
    BY <1>10, FullQueue DEF Evict
  <2> QED
    BY <1>10, <2>1, LimiterAssumption DEF Evict, limiterVars
<1>11. ASSUME NEW t \in Threads, IncrementLoad(t) PROVE LockOf(u)'
  BY <1>11 DEF IncrementLoad, limiterVars
<1>12. ASSUME NEW t \in Threads, IncrementAdd(t) PROVE LockOf(u)'
  BY <1>12 DEF IncrementAdd, limiterVars
<1>13. ASSUME NEW t \in Threads, AddStore(t) PROVE LockOf(u)'
  BY <1>13 DEF AddStore, Onward, Data, limiterVars
<1>14. ASSUME TickLoad, UNCHANGED cacheVars PROVE LockOf(u)'
  BY <1>14 DEF TickLoad, cacheVars
<1>15. ASSUME TickAdd, UNCHANGED cacheVars PROVE LockOf(u)'
  BY <1>15 DEF TickAdd, cacheVars
<1>16. ASSUME TickerStops, UNCHANGED cacheVars PROVE LockOf(u)'
  BY <1>16 DEF TickerStops, cacheVars
<1>17. CASE UNCHANGED vars
  BY <1>17 DEF vars, limiterVars, cacheVars
<1> QED
  BY <1>1, <1>2, <1>3, <1>4, <1>5, <1>6, <1>7, <1>8, <1>9,
     <1>10, <1>11, <1>12, <1>13, <1>14, <1>15, <1>16, <1>17
  DEF Next, Get, Compute, Add, Limiter, Tick

\* What is cached is queued, and the queue has room for it.
LEMMA BoundStep == IInv /\ [Next]_vars => CacheBounded'
<1> SUFFICES ASSUME IInv, [Next]_vars PROVE CacheBounded'
  OBVIOUS
<1> USE DEF IInv, TypeInv, TypeOK, CacheBounded, Cached
<1>1. ASSUME NEW t \in Threads, NEW k \in Keys, Match(t, k) PROVE CacheBounded'
  BY <1>1 DEF Match, limiterVars
<1>2. ASSUME NEW t \in Threads, GetHit(t) PROVE CacheBounded'
  BY <1>2 DEF GetHit, limiterVars
<1>3. ASSUME NEW t \in Threads, GetMiss(t) PROVE CacheBounded'
  BY <1>3 DEF GetMiss, limiterVars
<1>4. ASSUME NEW t \in Threads, ParseFails(t) PROVE CacheBounded'
  BY <1>4 DEF ParseFails, limiterVars
<1>5. ASSUME NEW t \in Threads, Parse(t) PROVE CacheBounded'
  BY <1>5 DEF Parse, limiterVars
<1>6. ASSUME NEW t \in Threads, Replace(t) PROVE CacheBounded'
  <2>1. Cached' = Cached
    BY <1>6, CacheAssumption DEF Replace
  <2> QED
    BY <1>6, <2>1 DEF Replace, limiterVars
<1>7. ASSUME NEW t \in Threads, AddThrottled(t) PROVE CacheBounded'
  BY <1>7 DEF AddThrottled, Onward, limiterVars
<1>8. ASSUME NEW t \in Threads, AddAllowed(t) PROVE CacheBounded'
  BY <1>8 DEF AddAllowed, limiterVars
<1>9. ASSUME NEW t \in Threads, AddLock(t) PROVE CacheBounded'
  BY <1>9 DEF AddLock, limiterVars
<1>10. ASSUME NEW t \in Threads, Evict(t) PROVE CacheBounded'
  <2>1. Len(Tail(keys)) = Len(keys) - 1 /\ Len(keys) = MaxSize /\ keys # <<>>
    BY <1>10, FullQueue DEF Evict
  <2>2. ASSUME NEW k \in Cached'
        PROVE  \E i \in 1 .. Len(Tail(keys)) : Tail(keys)[i] = k
    <3>1. k \in Cached /\ k # Head(keys)
      BY <1>10, <2>2, FullQueue DEF Evict
    <3>2. PICK i \in 1 .. Len(keys) : keys[i] = k
      BY <3>1
    <3>3. i # 1
      BY <3>1, <3>2, <2>1
    <3>4. i - 1 \in 1 .. Len(Tail(keys)) /\ Tail(keys)[i - 1] = keys[i]
      BY <3>2, <3>3, <2>1
    <3> QED
      BY <3>2, <3>4
  <2>3. Len(Tail(keys)) <= MaxSize
    BY <2>1, LimiterAssumption
  <2> QED
    BY <1>10, <2>2, <2>3 DEF Evict, limiterVars
<1>11. ASSUME NEW t \in Threads, IncrementLoad(t) PROVE CacheBounded'
  BY <1>11 DEF IncrementLoad, limiterVars
<1>12. ASSUME NEW t \in Threads, IncrementAdd(t) PROVE CacheBounded'
  BY <1>12 DEF IncrementAdd, limiterVars
<1>13. ASSUME NEW t \in Threads, AddStore(t) PROVE CacheBounded'
  <2>1. Len(keys) < MaxSize /\ Len(Append(keys, arg[t])) = Len(keys) + 1
    BY <1>13 DEF AddStore
  <2>2. ASSUME NEW k \in Cached'
        PROVE  \E i \in 1 .. Len(Append(keys, arg[t])) : Append(keys, arg[t])[i] = k
    <3>1. CASE k = arg[t]
      <4>1. Len(keys) + 1 \in 1 .. Len(Append(keys, arg[t]))
        BY <2>1
      <4>2. Append(keys, arg[t])[Len(keys) + 1] = arg[t]
        OBVIOUS
      <4> QED
        BY <3>1, <4>1, <4>2
    <3>2. CASE k # arg[t]
      <4>1. k \in Cached
        BY <1>13, <2>2, <3>2 DEF AddStore
      <4>2. PICK i \in 1 .. Len(keys) : keys[i] = k
        BY <4>1
      <4>3. i \in 1 .. Len(Append(keys, arg[t])) /\ Append(keys, arg[t])[i] = keys[i]
        BY <4>2, <2>1
      <4> QED
        BY <4>2, <4>3
    <3> QED
      BY <3>1, <3>2
  <2>3. Len(Append(keys, arg[t])) <= MaxSize
    BY <2>1, LimiterAssumption
  <2> QED
    BY <1>13, <2>2, <2>3 DEF AddStore, limiterVars
<1>14. ASSUME TickLoad, UNCHANGED cacheVars PROVE CacheBounded'
  BY <1>14 DEF TickLoad, cacheVars
<1>15. ASSUME TickAdd, UNCHANGED cacheVars PROVE CacheBounded'
  BY <1>15 DEF TickAdd, cacheVars
<1>16. ASSUME TickerStops, UNCHANGED cacheVars PROVE CacheBounded'
  BY <1>16 DEF TickerStops, cacheVars
<1>17. CASE UNCHANGED vars
  BY <1>17 DEF vars, limiterVars, cacheVars
<1> QED
  BY <1>1, <1>2, <1>3, <1>4, <1>5, <1>6, <1>7, <1>8, <1>9,
     <1>10, <1>11, <1>12, <1>13, <1>14, <1>15, <1>16, <1>17
  DEF Next, Get, Compute, Add, Limiter, Tick

\* The inductive invariant is kept by every step.
LEMMA IInvStep == IInv /\ [Next]_vars => IInv'
  BY TypeStep, LockStep, BoundStep DEF IInv

\* Every variable keeps to its type; the counter never passes below 0.
THEOREM TypeCorrect == Spec => []TypeOK
<1>1. IInv => TypeOK
  BY DEF IInv, TypeInv
<1> QED
  BY <1>1, IInvInit, IInvStep, PTL DEF Spec

\* What is cached can be evicted, and the queue of keys keeps to the size of the
\* cache, whatever the operator adds twice or concurrently.
THEOREM CacheStaysBounded == Spec => []CacheBounded
<1>1. IInv => CacheBounded
  BY DEF IInv
<1> QED
  BY <1>1, IInvInit, IInvStep, PTL DEF Spec

-----------------------------------------------------------------------------
(* The counter and the hits. *)

\* The counter has not passed its limit, nor will the addition that is under way.
CountInv ==
    /\ CountInRange
    /\ \A t \in Threads : pc[t] = "bump" => count < Limit

\* Only the holder of the lock adds, and the ticker does not.
LEMMA CountStep == IInv /\ CountInv /\ TickDelta <= 0 /\ [Next]_vars => CountInv'
<1> SUFFICES ASSUME IInv, CountInv, TickDelta <= 0, [Next]_vars PROVE CountInv'
  OBVIOUS
<1> USE LimiterAssumption DEF IInv, TypeInv, TypeOK, CountInv, CountInRange, Limit
<1>1. ASSUME NEW t \in Threads, NEW k \in Keys, Match(t, k) PROVE CountInv'
  BY <1>1 DEF Match, limiterVars
<1>2. ASSUME NEW t \in Threads, GetHit(t) PROVE CountInv'
  BY <1>2 DEF GetHit, limiterVars
<1>3. ASSUME NEW t \in Threads, GetMiss(t) PROVE CountInv'
  BY <1>3 DEF GetMiss, limiterVars
<1>4. ASSUME NEW t \in Threads, ParseFails(t) PROVE CountInv'
  BY <1>4 DEF ParseFails, limiterVars
<1>5. ASSUME NEW t \in Threads, Parse(t) PROVE CountInv'
  BY <1>5 DEF Parse, limiterVars
<1>6. ASSUME NEW t \in Threads, Replace(t) PROVE CountInv'
  BY <1>6 DEF Replace, limiterVars
<1>7. ASSUME NEW t \in Threads, AddThrottled(t) PROVE CountInv'
  BY <1>7 DEF AddThrottled, Onward, limiterVars
<1>8. ASSUME NEW t \in Threads, AddAllowed(t) PROVE CountInv'
  BY <1>8 DEF AddAllowed, limiterVars
<1>9. ASSUME NEW t \in Threads, AddLock(t) PROVE CountInv'
  BY <1>9 DEF AddLock, limiterVars
<1>10. ASSUME NEW t \in Threads, Evict(t) PROVE CountInv'
  BY <1>10 DEF Evict, limiterVars
<1>11. ASSUME NEW t \in Threads, IncrementLoad(t) PROVE CountInv'
  <2>1. count # Limit => count < Limit
    OBVIOUS
  <2> QED
    BY <1>11, <2>1 DEF IncrementLoad, limiterVars
<1>12. ASSUME NEW t \in Threads, IncrementAdd(t) PROVE CountInv'
  <2>1. \A u \in Threads : pc'[u] # "bump"
    BY <1>12 DEF IncrementAdd, LockInv, LockOf, Locked
  <2>2. count + 1 <= Limit
    BY <1>12 DEF IncrementAdd
  <2> QED
    BY <1>12, <2>1, <2>2 DEF IncrementAdd
<1>13. ASSUME NEW t \in Threads, AddStore(t) PROVE CountInv'
  BY <1>13 DEF AddStore, Onward, Data, limiterVars
<1>14. ASSUME TickLoad, UNCHANGED cacheVars PROVE CountInv'
  BY <1>14 DEF TickLoad, cacheVars
<1>15. ASSUME TickAdd, UNCHANGED cacheVars PROVE CountInv'
  <2>1. count' <= count /\ count' \in Int
    BY <1>15, TickDeltaType DEF TickAdd
  <2> QED
    BY <1>15, <2>1 DEF cacheVars
<1>16. ASSUME TickerStops, UNCHANGED cacheVars PROVE CountInv'
  BY <1>16 DEF TickerStops, cacheVars
<1>17. CASE UNCHANGED vars
  BY <1>17 DEF vars, limiterVars, cacheVars
<1> QED
  BY <1>1, <1>2, <1>3, <1>4, <1>5, <1>6, <1>7, <1>8, <1>9,
     <1>10, <1>11, <1>12, <1>13, <1>14, <1>15, <1>16, <1>17
  DEF Next, Get, Compute, Add, Limiter, Tick

\* The counter of evictions stops at its limit, for every number of threads, where
\* the conversion of the ticker saturates and for every cache of fewer than 14 items.
THEOREM CountStaysInRange ==
  ASSUME ~Wraps \/ MaxSize < 14
  PROVE  Spec => []CountInRange
<1>1. TickDelta <= 0
  BY TickDeltaDown
<1>2. Init => CountInv
  BY LimiterAssumption DEF Init, LimiterInit, CountInv, CountInRange, Limit
<1>3. IInv /\ CountInv /\ [Next]_vars => CountInv'
  BY <1>1, CountStep
<1>4. CountInv => CountInRange
  BY DEF CountInv
<1> QED
  BY <1>2, <1>3, <1>4, IInvInit, IInvStep, PTL DEF Spec

\* No map is published before it is finished.
WholeInv ==
    /\ mode # "both"
    /\ \A k \in Keys : cache[k] \in {"none", "whole"}
    /\ HitsWhole

\* An operator that adds its map once adds it whole.
LEMMA WholeStep == IInv /\ WholeInv /\ [Next]_vars => WholeInv'
<1> SUFFICES ASSUME IInv, WholeInv, [Next]_vars PROVE WholeInv'
  OBVIOUS
<1> USE DEF IInv, TypeInv, TypeOK, WholeInv, HitsWhole
<1>1. ASSUME NEW t \in Threads, NEW k \in Keys, Match(t, k) PROVE WholeInv'
  BY <1>1 DEF Match, limiterVars
<1>2. ASSUME NEW t \in Threads, GetHit(t) PROVE WholeInv'
  BY <1>2 DEF GetHit, limiterVars
<1>3. ASSUME NEW t \in Threads, GetMiss(t) PROVE WholeInv'
  BY <1>3 DEF GetMiss, limiterVars
<1>4. ASSUME NEW t \in Threads, ParseFails(t) PROVE WholeInv'
  BY <1>4 DEF ParseFails, limiterVars
<1>5. ASSUME NEW t \in Threads, Parse(t) PROVE WholeInv'
  BY <1>5 DEF Parse, limiterVars
<1>6. ASSUME NEW t \in Threads, Replace(t) PROVE WholeInv'
  BY <1>6 DEF Replace, limiterVars
<1>7. ASSUME NEW t \in Threads, AddThrottled(t) PROVE WholeInv'
  BY <1>7 DEF AddThrottled, Onward, limiterVars
<1>8. ASSUME NEW t \in Threads, AddAllowed(t) PROVE WholeInv'
  BY <1>8 DEF AddAllowed, limiterVars
<1>9. ASSUME NEW t \in Threads, AddLock(t) PROVE WholeInv'
  BY <1>9 DEF AddLock, limiterVars
<1>10. ASSUME NEW t \in Threads, Evict(t) PROVE WholeInv'
  BY <1>10 DEF Evict, limiterVars
<1>11. ASSUME NEW t \in Threads, IncrementLoad(t) PROVE WholeInv'
  BY <1>11 DEF IncrementLoad, limiterVars
<1>12. ASSUME NEW t \in Threads, IncrementAdd(t) PROVE WholeInv'
  BY <1>12 DEF IncrementAdd, limiterVars
<1>13. ASSUME NEW t \in Threads, AddStore(t) PROVE WholeInv'
  BY <1>13 DEF AddStore, Onward, Data, limiterVars
<1>14. ASSUME TickLoad, UNCHANGED cacheVars PROVE WholeInv'
  BY <1>14 DEF TickLoad, cacheVars
<1>15. ASSUME TickAdd, UNCHANGED cacheVars PROVE WholeInv'
  BY <1>15 DEF TickAdd, cacheVars
<1>16. ASSUME TickerStops, UNCHANGED cacheVars PROVE WholeInv'
  BY <1>16 DEF TickerStops, cacheVars
<1>17. CASE UNCHANGED vars
  BY <1>17 DEF vars, limiterVars, cacheVars
<1> QED
  BY <1>1, <1>2, <1>3, <1>4, <1>5, <1>6, <1>7, <1>8, <1>9,
     <1>10, <1>11, <1>12, <1>13, <1>14, <1>15, <1>16, <1>17
  DEF Next, Get, Compute, Add, Limiter, Tick

\* Every hit is what matching would have returned, for operators that do not both
\* parse and replace.
THEOREM HitsStayWhole ==
  ASSUME "both" \notin Modes
  PROVE  Spec => []HitsWhole
<1>1. Init => WholeInv
  BY DEF Init, WholeInv, HitsWhole
<1>2. WholeInv => HitsWhole
  BY DEF WholeInv
<1> QED
  BY <1>1, <1>2, IInvInit, IInvStep, WholeStep, PTL DEF Spec

\* Only the store of a first add publishes an incomplete map, and its thread goes on
\* to complete it.
LEMMA TornStep == IInv /\ NoneLeftTorn /\ [Next]_vars => NoneLeftTorn'
<1> SUFFICES ASSUME IInv, NoneLeftTorn, [Next]_vars PROVE NoneLeftTorn'
  OBVIOUS
<1> USE CacheAssumption DEF IInv, TypeInv, TypeOK, NoneLeftTorn
<1>1. ASSUME NEW t \in Threads, NEW k \in Keys, Match(t, k) PROVE NoneLeftTorn'
  BY <1>1 DEF Match, limiterVars
<1>2. ASSUME NEW t \in Threads, GetHit(t) PROVE NoneLeftTorn'
  BY <1>2 DEF GetHit, limiterVars
<1>3. ASSUME NEW t \in Threads, GetMiss(t) PROVE NoneLeftTorn'
  BY <1>3 DEF GetMiss, limiterVars
<1>4. ASSUME NEW t \in Threads, ParseFails(t) PROVE NoneLeftTorn'
  BY <1>4 DEF ParseFails, limiterVars
<1>5. ASSUME NEW t \in Threads, Parse(t) PROVE NoneLeftTorn'
  BY <1>5 DEF Parse, limiterVars
<1>6. ASSUME NEW t \in Threads, Replace(t) PROVE NoneLeftTorn'
  BY <1>6 DEF Replace, limiterVars
<1>7. ASSUME NEW t \in Threads, AddThrottled(t) PROVE NoneLeftTorn'
  BY <1>7 DEF AddThrottled, Onward, limiterVars
<1>8. ASSUME NEW t \in Threads, AddAllowed(t) PROVE NoneLeftTorn'
  BY <1>8 DEF AddAllowed, limiterVars
<1>9. ASSUME NEW t \in Threads, AddLock(t) PROVE NoneLeftTorn'
  BY <1>9 DEF AddLock, limiterVars
<1>10. ASSUME NEW t \in Threads, Evict(t) PROVE NoneLeftTorn'
  BY <1>10 DEF Evict, limiterVars
<1>11. ASSUME NEW t \in Threads, IncrementLoad(t) PROVE NoneLeftTorn'
  BY <1>11 DEF IncrementLoad, limiterVars
<1>12. ASSUME NEW t \in Threads, IncrementAdd(t) PROVE NoneLeftTorn'
  BY <1>12 DEF IncrementAdd, limiterVars
<1>13. ASSUME NEW t \in Threads, AddStore(t) PROVE NoneLeftTorn'
  BY <1>13 DEF AddStore, Onward, Data, limiterVars
<1>14. ASSUME TickLoad, UNCHANGED cacheVars PROVE NoneLeftTorn'
  BY <1>14 DEF TickLoad, cacheVars
<1>15. ASSUME TickAdd, UNCHANGED cacheVars PROVE NoneLeftTorn'
  BY <1>15 DEF TickAdd, cacheVars
<1>16. ASSUME TickerStops, UNCHANGED cacheVars PROVE NoneLeftTorn'
  BY <1>16 DEF TickerStops, cacheVars
<1>17. CASE UNCHANGED vars
  BY <1>17 DEF vars, limiterVars, cacheVars
<1> QED
  BY <1>1, <1>2, <1>3, <1>4, <1>5, <1>6, <1>7, <1>8, <1>9,
     <1>10, <1>11, <1>12, <1>13, <1>14, <1>15, <1>16, <1>17
  DEF Next, Get, Compute, Add, Limiter, Tick

\* No item of the cache stays torn, for any operator and any number of threads.
THEOREM NoItemStaysTorn == Spec => []NoneLeftTorn
<1>1. Init => NoneLeftTorn
  BY CacheAssumption DEF Init, NoneLeftTorn
<1> QED
  BY <1>1, IInvInit, IInvStep, TornStep, PTL DEF Spec
=============================================================================
