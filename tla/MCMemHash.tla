----------------------------- MODULE MCMemHash -----------------------------
(* Instances of MemHash for TLC. *)
EXTENDS MemHash, TLC

CONSTANTS k1, k2, k3, k4

\* All four share the one bucket there is at first; k1, k2 and k4 share one of
\* two, k1 and k4 one of four.
HashValues == (k1 :> 0) @@ (k2 :> 2) @@ (k3 :> 1) @@ (k4 :> 4)

Symmetry == Permutations(Recs) \cup Permutations(Cursors) \cup Permutations(Vals)
=============================================================================
