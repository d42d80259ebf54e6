----------------------------- MODULE MCWGGCDTimer -----------------------------
(* Two calling threads and three sources: enough for a name to be reused while
   another timer still uses it. *)
EXTENDS WGGCDTimer, TLC

CONSTANTS th1, th2, t1, t2, t3

MCThreads == {th1, th2}
MCTimers == {t1, t2, t3}

MCSymmetry == Permutations(MCThreads) \cup Permutations(MCTimers)
===============================================================================
