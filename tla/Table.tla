-------------------------------- MODULE Table --------------------------------
(***************************************************************************)
(* What the plugin relies on of the table of files (ht.h): a map from keys *)
(* to values, and cursors that visit every record.  A cursor survives the  *)
(* deletion of any record but the one it stands on, comes to the records   *)
(* that are added while it is under way, and never comes back to one.      *)
(*                                                                         *)
(* MemHash, the storage engine, implements it; CacheFile uses no more.     *)
(***************************************************************************)
CONSTANTS
    Keys, Vals,
    Cursors,
    NULL,       \* no value, no record
    Dangling    \* a cursor whose record was deleted under it

VARIABLES
    table,      \* key -> value, NULL if there is no record
    cur,        \* per cursor: the key it stands on, NULL at the end
    todo        \* per cursor: the keys it has yet to come to

vars == <<table, cur, todo>>

Present == {k \in Keys : table[k] # NULL}

Init ==
    /\ table = [k \in Keys |-> NULL]
    /\ cur = [c \in Cursors |-> NULL]
    /\ todo = [c \in Cursors |-> {}]

\* The record of k is made, or its value replaced.
Store(k, v) ==
    /\ table' = [table EXCEPT ![k] = v]
    /\ todo' = [c \in Cursors |->
                  IF table[k] = NULL /\ cur[c] \notin {NULL, Dangling}
                  THEN todo[c] \cup {k} ELSE todo[c]]
    /\ UNCHANGED cur

Delete(k) ==
    /\ table[k] # NULL
    /\ table' = [table EXCEPT ![k] = NULL]
    /\ cur' = [c \in Cursors |-> IF cur[c] = k THEN Dangling ELSE cur[c]]
    /\ todo' = [c \in Cursors |-> IF cur[c] = k THEN {} ELSE todo[c] \ {k}]

\* The cursor goes to one of the records in rest, the others still to come,
\* or to the end.
MoveTo(c, rest) ==
    \/ /\ rest = {}
       /\ cur' = [cur EXCEPT ![c] = NULL]
       /\ todo' = [todo EXCEPT ![c] = {}]
    \/ \E k \in rest :
         /\ cur' = [cur EXCEPT ![c] = k]
         /\ todo' = [todo EXCEPT ![c] = rest \ {k}]

First(c) == MoveTo(c, Present) /\ UNCHANGED table

Advance(c) ==
    /\ cur[c] \notin {NULL, Dangling}
    /\ MoveTo(c, todo[c])
    /\ UNCHANGED table

Next ==
    \/ \E k \in Keys, v \in Vals : Store(k, v)
    \/ \E k \in Keys : Delete(k)
    \/ \E c \in Cursors : First(c) \/ Advance(c)

Spec == Init /\ [][Next]_vars
==============================================================================
