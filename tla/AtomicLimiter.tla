---------------------------- MODULE AtomicLimiter ----------------------------
(***************************************************************************)
(* The rate limiter of the regex cache (internal/operator/transform/       *)
(* cache.go): a counter of evictions that throttles the cache when it      *)
(* reaches its limit, and the goroutine whose ticker brings it down.       *)
(* The counter is an atomic.Uint64: its loads and additions are separate   *)
(* steps.  It never leaves Nat, since a tick at 0 subtracts nothing, and   *)
(* what a tick adds in a large cache is cut off at MaxCount, so it is not  *)
(* reduced modulo 2^64.                                                    *)
(***************************************************************************)
EXTENDS Integers

CONSTANTS
    MaxSize,  \* items the cache has room for (Cache.Size, at least 1)
    Wraps,    \* converting a negative float64 to uint64 wraps around (amd64)
              \* or saturates at 0 (arm64): Go leaves it to the implementation
    MaxCount  \* bound: the ticker does not raise the counter above it

ASSUME LimiterAssumption ==
    /\ MaxSize \in Nat \ {0}
    /\ Wraps \in BOOLEAN
    /\ MaxCount \in Nat

\* Throttling starts when the turnover passes 100%.
Limit == MaxSize + 1

VARIABLES
    count,   \* evictions counted
    ticker   \* the ticker goroutine: "wait", "add" (count was not 0), "stopped"

limiterVars == <<count, ticker>>

LimiterInit == count = 0 /\ ticker = "wait"

Throttled == count >= Limit

\* What a tick adds: ^uint64(x) for x = Round(-0.10 * max).  For x = -r that is
\* r - 1 where the conversion wraps, and -1 for x = 0 and where it saturates.
TickDelta ==
    LET r == (Limit + 5) \div 10
    IN  IF Wraps /\ r > 0 THEN r - 1 ELSE -1

\* Mutant: the counter is not compared with 0.
TickLoadAlways ==
    /\ ticker = "wait"
    /\ ticker' = "add"
    /\ UNCHANGED count

TickLoad ==
    /\ ticker = "wait"
    /\ count > 0
    /\ ticker' = "add"
    /\ UNCHANGED count

\* Mutant: the tick adds what it should take away.
TickAddUp ==
    /\ ticker = "add"
    /\ count - TickDelta <= MaxCount
    /\ ticker' = "wait"
    /\ count' = count - TickDelta

TickAdd ==
    /\ ticker = "add"
    /\ count + TickDelta <= MaxCount
    /\ ticker' = "wait"
    /\ count' = count + TickDelta

\* stop closes done; the goroutine sees it between two ticks.
TickerStops ==
    /\ ticker = "wait"
    /\ ticker' = "stopped"
    /\ UNCHANGED count

Tick == TickLoad \/ TickAdd
=============================================================================
