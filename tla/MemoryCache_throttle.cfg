\* The smallest cache whose limiter a tick leaves as it is, on amd64.
SPECIFICATION FairSpec
CONSTANTS
    t1 = t1
    t2 = t2
    k1 = k1
    k2 = k2
    k3 = k3
    k4 = k4
    k5 = k5
    Nobody = Nobody
    Threads <- OneThread
    Keys <- ManyKeys
    Matching <- ManyKeys
    Modes = {"replacement"}
    MaxSize = 4
    Wraps = TRUE
    MaxCount = 5
PROPERTY
    ThrottleEnds
