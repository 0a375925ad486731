------------------------------ MODULE Response ------------------------------
(***************************************************************************)
(* What a client is promised, whatever buffers the bytes go through: the   *)
(* response to its request is delivered in order, each byte once, and a    *)
(* request ends as served only when the client has got all of it.          *)
(*                                                                         *)
(* The abstract counterpart of ServeReq.                                   *)
(***************************************************************************)
EXTENDS Integers, Sequences

CONSTANTS
    Conns,      \* the client connections
    Responses   \* what the response to a request for the file may be

VARIABLES
    stream,     \* the response, a sequence of bytes
    phase,      \* of the request of each connection
    got         \* what the client has received of the current response

vars == <<stream, phase, got>>

Init ==
    /\ stream \in Responses
    /\ phase = [c \in Conns |-> "none"]
    /\ got = [c \in Conns |-> <<>>]

Begin(c) ==
    /\ phase[c] = "none"
    /\ phase' = [phase EXCEPT ![c] = "active"]
    /\ got' = [got EXCEPT ![c] = <<>>]
    /\ UNCHANGED stream

\* Some bytes more, those that come next.
Deliver(c) ==
    /\ phase[c] = "active"
    /\ \E n \in Len(got[c]) + 1 .. Len(stream) :
         got' = [got EXCEPT ![c] = SubSeq(stream, 1, n)]
    /\ UNCHANGED <<stream, phase>>

Complete(c) ==
    /\ phase[c] = "active"
    /\ got[c] = stream
    /\ phase' = [phase EXCEPT ![c] = "sent"]
    /\ UNCHANGED <<stream, got>>

\* The connection failed or timed out before the client had everything.
Abort(c) ==
    /\ phase[c] = "active"
    /\ got[c] # stream
    /\ phase' = [phase EXCEPT ![c] = "failed"]
    /\ UNCHANGED <<stream, got>>

End(c) ==
    /\ phase[c] \in {"sent", "failed"}
    /\ phase' = [phase EXCEPT ![c] = "none"]
    /\ UNCHANGED <<stream, got>>

Next == \E c \in Conns :
          Begin(c) \/ Deliver(c) \/ Complete(c) \/ Abort(c) \/ End(c)

Spec == Init /\ [][Next]_vars
=============================================================================
