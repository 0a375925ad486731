------------------------------- MODULE BufVec --------------------------------
(***************************************************************************)
(* The growable array of utils.c, as operators on its value: the cells of  *)
(* buf->data, as many as were allocated, and how many are in use.  `cap`   *)
(* is the number of cells.                                                 *)
(***************************************************************************)
EXTENDS Integers, Sequences

CONSTANT Unset      \* what a cell holds that malloc or realloc has added

Cells(n) == [j \in 1..n |-> Unset]

buf_init(init_size) == [data |-> Cells(init_size), size |-> 0]

cap(buf) == Len(buf.data)

\* realloc keeps the cells there is room for.
buf_resize(buf, nsize) ==
    [buf EXCEPT !.data =
        IF nsize <= Len(@) THEN SubSeq(@, 1, nsize)
                           ELSE @ \o Cells(nsize - Len(@))]

\* The write is within the array if index < cap(buf).
buf_set(buf, index, item) == [buf EXCEPT !.data[index + 1] = item]
buf_get(buf, index) == buf.data[index + 1]

\* Doubles a full array.  From size 0 that is no growth: an array must not be
\* empty and full at once.
buf_push(buf, item) ==
    LET room == IF buf.size >= cap(buf) THEN buf_resize(buf, 2 * buf.size)
                                        ELSE buf
    IN  [buf_set(room, buf.size, item) EXCEPT !.size = @ + 1]
==============================================================================
