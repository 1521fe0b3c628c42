\* Named groups and a replacement: the map is published, then changed.
SPECIFICATION Spec
CONSTANTS
    t1 = t1
    t2 = t2
    k1 = k1
    k2 = k2
    k3 = k3
    k4 = k4
    k5 = k5
    Nobody = Nobody
    Threads <- TwoThreads
    Keys <- TwoKeys
    Matching <- TwoKeys
    Modes = {"both"}
    MaxSize = 2
    Wraps = TRUE
    MaxCount = 3
INVARIANT
    HitsWhole
