\* Two threads, a cache of two items, one body that does not match; operators that
\* add a body once, and such that add it twice.
SPECIFICATION FairSpec
CONSTANTS
    t1 = t1
    t2 = t2
    k1 = k1
    k2 = k2
    k3 = k3
    k4 = k4
    k5 = k5
    Nobody = Nobody
    Threads <- TwoThreads
    Keys <- FewKeys
    Matching <- TwoKeys
    Modes = {"values", "both"}
    MaxSize = 2
    Wraps = TRUE
    MaxCount = 3
INVARIANTS
    TypeOK
    CacheBounded
    CountInRange
    NoneLeftTorn
PROPERTIES
    CallsReturn
    ThrottleEnds
