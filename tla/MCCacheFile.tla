---------------------------- MODULE MCCacheFile ----------------------------
(* Instances of CacheFile for TLC. *)
EXTENDS CacheFile, TLC

CONSTANTS w1, w2, s1, s2

\* Both connections belong to the only worker.
OneWorker == [s \in {s1, s2} |-> w1]

\* Each worker has a connection of its own.
TwoWorkers == (s1 :> w1) @@ (s2 :> w2)
=============================================================================
