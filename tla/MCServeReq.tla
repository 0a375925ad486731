----------------------------- MODULE MCServeReq -----------------------------
(* Instances of ServeReq for TLC. *)
EXTENDS ServeReq, TLC

CONSTANTS w1, w2, c1, c2

\* Both connections belong to the only worker.
OneWorker == [c \in {c1, c2} |-> w1]

\* Each worker has a connection of its own.
TwoWorkers == (c1 :> w1) @@ (c2 :> w2)
=============================================================================
