---------------------------- MODULE MCMemoryCache ----------------------------
(* Threads and bodies for model checking MemoryCache.                        *)
EXTENDS MemoryCache

CONSTANTS t1, t2, k1, k2, k3, k4, k5

TwoThreads == {t1, t2}
OneThread == {t1}

FewKeys == {k1, k2, k3}
ManyKeys == {k1, k2, k3, k4, k5}
TwoKeys == {k1, k2}
=============================================================================
