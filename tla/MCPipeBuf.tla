----------------------------- MODULE MCPipeBuf ------------------------------
(* Instances of PipeBuf for TLC. *)
EXTENDS PipeBuf, TLC

CONSTANTS w1, w2, s1, s2, s3

VARIABLE case   \* which of the cases of Safe a behaviour is

\* In "alone" w1 serves two connections, and files are reset; in "shared" it
\* and w2 serve one each, and nothing is reset.
Owner == (s1 :> w1) @@ (s2 :> w1) @@ (s3 :> w2)
Busy == Requests \cup Range(sock)

\* Bound: the pipes that are open when w1 is alone.
AloneOpen == 5

MCInit == Init /\ case \in {"alone", "shared"}
MCNext ==
    /\ Next
    /\ case = "alone" => pc'[w2] = "idle" /\ Cardinality(open') <= AloneOpen
    /\ case = "shared" => /\ ~({s1, s2} \subseteq Busy')
                          /\ \A w \in Workers : pc'[w] # "mark"
    /\ UNCHANGED case
MCSpec == MCInit /\ [][MCNext]_<<vars, case>>

\* The files are alike, and so are the connections of w1.
Alike == {p @@ q : p \in Permutations(Files), q \in Permutations({s1, s2})}
=============================================================================
