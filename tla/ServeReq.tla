------------------------------ MODULE ServeReq ------------------------------
(***************************************************************************)
(* How the bytes of a response reach the client: _mkp_stage_30 from the    *)
(* creation of the request on (cache.c), the headers cached in a pipe,     *)
(* cache_req_fill_curr (cache_req.c), pipe_buf_vmsplice and pipe_buf_flush *)
(* (pipe_buf.c) and socket_serve_req_splice (socket.c).                    *)
(*                                                                         *)
(* One file and all who ask for it.  Its contents are spliced, a pipe's    *)
(* capacity at a time, from its mapping into the pipes of file->cache,     *)
(* which are never drained; a request duplicates them with tee(2) into a   *)
(* pipe of its own, which it drains into its socket.  The headers are made *)
(* once and kept in a pipe, with the file behind them when there is room.  *)
(* The cache is shared by the worker threads, a request belongs to one.    *)
(* Every access to shared memory, and every system call, is a step.        *)
(*                                                                         *)
(* A byte is its place in the response as the code counts it: the headers  *)
(* are -HeaderLen..-1, the file 0..size-1.  A kernel pipe is a sequence of *)
(* bytes.  It keeps them in buffers, each with bytes of one page at most,  *)
(* and takes Slots buffers and no more, however little there is in each.   *)
(***************************************************************************)
EXTENDS Integers, Sequences, FiniteSets, SequencesExt

CONSTANTS
    Workers,        \* the worker threads
    Conns,          \* the client connections
    WorkerOf,       \* the worker that owns a connection
    Sizes,          \* the sizes the file may have
    Page,           \* bytes in a page, and so in a buffer of a pipe at most
    Slots,          \* buffers in a pipe: PIPE_SIZE is Page * Slots
    HeaderLen,      \* bytes of the response headers
    PoolMax,        \* CACHE_REQ_POOL_MAX
    NoReq           \* no request, no connection

\* cache_req_t; curr is the place of its pipe in the cache, 0 for none.
Requests == [bytes_offset : Int, bytes_to_send : Int, curr : Nat,
             buf : Seq(Int), filled : Int]

ASSUME ServeAssumption ==
    /\ WorkerOf \in [Conns -> Workers]
    /\ Sizes \subseteq Nat \ {0}
    /\ Page \in Nat \ {0} /\ Slots \in Nat \ {0}
    /\ HeaderLen \in 1..Page
    /\ PoolMax \in Nat
    /\ NoReq \notin Conns \cup Requests

VARIABLES
    size,           \* file->size
    cache,          \* file->cache: its pipes, [data, filled, locked] each
    headers,        \* file->cache_headers, the same
    header_len,     \* file->header_len
    req,            \* per connection: its request in curr_reqs
    rcvd,           \* per connection: what the client got of the response
    pool,           \* per worker: the pipes of the requests in cache_req_pool
    pc, conn,       \* per worker: where it is, the connection it serves
    early,          \* per worker: cache_req_fill_curr is called by stage_30
    want,           \* per worker: the bytes [from, to) it is to vmsplice
    ret,            \* per worker: what serve_req came to
    bug             \* the assertion (mk_bug) that ended the process

file == <<size, cache, headers, header_len>>
locals == <<conn, early, want, ret>>
vars == <<file, req, rcvd, pool, pc, locals, bug>>

Cap == Page * Slots

------------------------------------------------------------------------------
(* Kernel pipes *)

Least(a, b) == IF a < b THEN a ELSE b

\* The bytes [a, b), in memory and as one sequence.
Part(a, b) == [i \in 1 .. b - a |-> a + i - 1]

Stream(n) == Part(-HeaderLen, n)
Header == Part(-HeaderLen, 0)

\* How many buffers the bytes of a pipe are in: what is spliced into it at
\* once, from page to page, is in one for each page.
Starts(p) ==
    {i \in DOMAIN p : i = 1 \/ p[i] % Page = 0 \/ p[i] # p[i - 1] + 1}
Buffers(p) == Cardinality(Starts(p))

\* As many of the bytes bs as there are buffers left for in pipe p.
Room(p, bs) == {m \in 0 .. Len(bs) : Buffers(p \o SubSeq(bs, 1, m)) <= Slots}
Fitting(p, bs) == SubSeq(bs, 1, Max(Room(p, bs)))

\* The first n bytes of a pipe, or all it has, and the rest.
TakeBytes(p, n) == SubSeq(p, 1, Least(n, Len(p)))
DropBytes(p, n) == SubSeq(p, n + 1, Len(p))

\* What tee(2) of n bytes duplicates from src to dst; it does not block, and
\* with nothing to duplicate, or no room at all, it fails with EAGAIN.
Tee(src, dst, n) == Fitting(dst, TakeBytes(src, n))

EmptyPipe == [data |-> <<>>, filled |-> 0, locked |-> FALSE]
Pipes == 1 .. (size + Cap - 1) \div Cap

\* A pipe with the bytes bs behind those it has.
Push(p, bs, locked) ==
    [data |-> p.data \o bs, filled |-> p.filled + Len(bs), locked |-> locked]

------------------------------------------------------------------------------
Init ==
    /\ size \in Sizes
    /\ cache = [i \in Pipes |-> EmptyPipe]
    /\ headers = EmptyPipe
    /\ header_len = 0
    /\ req = [c \in Conns |-> NoReq]
    /\ rcvd = [c \in Conns |-> <<>>]
    /\ pool = [w \in Workers |-> <<>>]
    /\ pc = [w \in Workers |-> "idle"]
    /\ conn = [w \in Workers |-> NoReq]
    /\ early = [w \in Workers |-> FALSE]
    /\ want = [w \in Workers |-> <<0, 0>>]
    /\ ret = [w \in Workers |-> "none"]
    /\ bug = "none"

Goto(w, l) == pc' = [pc EXCEPT ![w] = l]

\* mk_bug: the process aborts.
MkBugUnless(holds, name) == bug' = IF holds THEN bug ELSE name

Enter(w, c, l) ==
    /\ pc[w] = "idle"
    /\ Goto(w, l)
    /\ conn' = [conn EXCEPT ![w] = c]
Leave(w) ==
    /\ Goto(w, "idle")
    /\ conn' = [conn EXCEPT ![w] = NoReq]
    /\ ret' = [ret EXCEPT ![w] = "none"]
    /\ UNCHANGED <<early, want>>

\* serve_req returns: with more to send the request waits for the socket,
\* otherwise it is over.
ServeReturns(w, result) ==
    IF result = "more" THEN Leave(w)
    ELSE /\ ret' = [ret EXCEPT ![w] = result]
         /\ Goto(w, "end")
         /\ UNCHANGED <<conn, early, want>>

\* The request a worker serves, and the pipe it has come to.
Req(w) == req[conn[w]]
Curr(w) == cache[Req(w).curr]

------------------------------------------------------------------------------
(* _mkp_stage_30: the request is created and its first bytes are prepared *)

\* Mutant: a request is reused with what its pipe still holds.
Stage30Unflushed(w, c) ==
    LET reused == pool[w] # <<>>
        old == IF reused THEN Head(pool[w]) ELSE EmptyPipe
    IN  /\ WorkerOf[c] = w
        /\ req[c] = NoReq
        /\ Enter(w, c, "fill")
        /\ req' = [req EXCEPT ![c] =
                     [bytes_offset |-> 0, bytes_to_send |-> size, curr |-> 1,
                      buf |-> old.data, filled |-> 0]]
        /\ pool' = [pool EXCEPT ![w] = IF reused THEN Tail(@) ELSE @]
        /\ rcvd' = [rcvd EXCEPT ![c] = <<>>]
        /\ early' = [early EXCEPT ![w] = TRUE]
        /\ UNCHANGED <<file, want, ret, bug>>

\* cache_req_new: the oldest request of the pool, its pipe flushed, or a new
\* one.
Stage30(w, c) ==
    LET reused == pool[w] # <<>>
        old == IF reused THEN Head(pool[w]) ELSE EmptyPipe
        rest == DropBytes(old.data, old.filled)
        left == old.filled - (Len(old.data) - Len(rest))
    IN  /\ WorkerOf[c] = w
        /\ req[c] = NoReq
        /\ Enter(w, c, "fill")
        /\ req' = [req EXCEPT ![c] =
                     [bytes_offset |-> 0, bytes_to_send |-> size, curr |-> 1,
                      buf |-> rest, filled |-> left]]
        /\ pool' = [pool EXCEPT ![w] = IF reused THEN Tail(@) ELSE @]
        /\ rcvd' = [rcvd EXCEPT ![c] = <<>>]
        /\ early' = [early EXCEPT ![w] = TRUE]
        /\ MkBugUnless(left = 0, "stale")
        /\ UNCHANGED <<file, want, ret>>

\* fill_cache_headers is called when there are no headers yet.
Headers(w) ==
    /\ pc[w] = "headers"
    /\ Goto(w, IF headers.filled = 0 THEN "hlock" ELSE "answer")
    /\ UNCHANGED <<file, req, rcvd, pool, locals, bug>>

\* It does nothing while another worker is in it.
LockHeaders(w) ==
    /\ pc[w] = "hlock"
    /\ Goto(w, IF headers.locked THEN "answer" ELSE "hcheck")
    /\ headers' = [data |-> headers.data, filled |-> headers.filled,
                   locked |-> TRUE]
    /\ UNCHANGED <<size, cache, header_len, req, rcvd, pool, locals, bug>>

\* Mutant: does not look again once it has the lock.
FillHeadersBlind(w) ==
    /\ pc[w] = "hcheck"
    /\ headers' = [data |-> headers.data \o Header,
                   filled |-> Len(headers.data) + HeaderLen, locked |-> TRUE]
    /\ header_len' = Len(headers.data) + HeaderLen
    /\ Goto(w, "hfile")
    /\ UNCHANGED <<size, cache, req, rcvd, pool, locals, bug>>

\* Looks again, has the server write the headers into the pipe, and asks how
\* many bytes there are.
FillHeaders(w) ==
    /\ pc[w] = "hcheck"
    /\ IF headers.filled = 0
       THEN /\ headers' = [data |-> headers.data \o Header,
                           filled |-> HeaderLen, locked |-> TRUE]
            /\ header_len' = HeaderLen
            /\ Goto(w, "hfile")
       ELSE /\ headers' = [data |-> headers.data, filled |-> headers.filled,
                           locked |-> FALSE]
            /\ Goto(w, "answer")
            /\ UNCHANGED header_len
    /\ UNCHANGED <<size, cache, req, rcvd, pool, locals, bug>>

\* Mutant: puts the first pipe behind the headers whether it fits or not.
FillFirstAlways(w) ==
    LET first == cache[1]
        some == Tee(first.data, headers.data, first.filled)
    IN  /\ pc[w] = "hfile"
        /\ headers' = Push(headers, some, FALSE)
        /\ Goto(w, "answer")
        /\ UNCHANGED <<size, cache, header_len, req, rcvd, pool, locals, bug>>

\* The first pipe of the file is put behind the headers if it fits.
FillFirst(w) ==
    LET first == cache[1]
        fits == Cap - headers.filled > first.filled /\ first.filled # 0
        some == IF fits THEN Tee(first.data, headers.data, first.filled)
                        ELSE <<>>
    IN  /\ pc[w] = "hfile"
        /\ headers' = Push(headers, some, FALSE)
        /\ MkBugUnless(fits => some # <<>>, "nofile")
        /\ Goto(w, "answer")
        /\ UNCHANGED <<size, cache, header_len, req, rcvd, pool, locals>>

\* Without cached headers, and on the last request the server allows on the
\* connection (which may be any), it sends the headers itself.
AnswerDirect(w) ==
    /\ pc[w] = "answer"
    /\ rcvd' = [rcvd EXCEPT ![conn[w]] = @ \o Header]
    /\ early' = [early EXCEPT ![w] = FALSE]
    /\ Goto(w, "loop")
    /\ UNCHANGED <<file, req, pool, conn, want, ret, bug>>

\* serve_cache_headers: the headers, with what is behind them, go into the
\* pipe of the request, which from then on counts them as file contents.
AnswerCached(w) ==
    LET r == Req(w)
        some == Tee(headers.data, r.buf, headers.filled)
    IN  /\ pc[w] = "answer"
        /\ headers.filled # 0
        /\ req' = [req EXCEPT ![conn[w]] =
                     [bytes_offset |-> r.bytes_offset - header_len,
                      bytes_to_send |-> r.bytes_to_send + header_len,
                      curr |-> r.curr,
                      buf |-> r.buf \o some, filled |-> r.filled + Len(some)]]
        /\ MkBugUnless(Len(some) >= header_len, "short")
        /\ early' = [early EXCEPT ![w] = FALSE]
        /\ Goto(w, "loop")
        /\ UNCHANGED <<file, rcvd, pool, conn, want, ret>>

------------------------------------------------------------------------------
(* cache_req_fill_curr: the current pipe is filled from the file *)

\* The offset of the first byte the request has not taken yet, and how many
\* the pipe is to hold from there.
Off(r) == r.bytes_offset + r.filled
FillLen(r) == IF Off(r) + Cap > size THEN size - Off(r) ELSE Cap

\* It returns: to stage_30, which does not look at the result, or to the
\* loop, which duplicates the pipe if it is complete and its own is empty.
FillReturns(w, complete) ==
    Goto(w, IF early[w] THEN "headers"
            ELSE IF complete /\ Req(w).filled = 0 THEN "tee"
            ELSE "send")

Fill(w) ==
    LET r == Req(w)
        len == FillLen(r)
    IN  /\ pc[w] = "fill"
        /\ MkBugUnless(Off(r) <= size /\ len >= 0, "past")
        /\ IF Curr(w).filled < len
           THEN /\ want' = [want EXCEPT ![w] =
                              <<Off(r) + Curr(w).filled, Off(r) + len>>]
                /\ Goto(w, "vmsplice")
           ELSE /\ FillReturns(w, Curr(w).filled = len)
                /\ UNCHANGED want
        /\ UNCHANGED <<file, req, rcvd, pool, conn, early, ret>>

\* Mutant: every pipe is filled from the start of the file.
VmspliceFrom0(w) ==
    LET i == Req(w).curr
        bs == Fitting(cache[i].data, Part(0, want[w][2] - want[w][1]))
    IN  /\ pc[w] = "vmsplice"
        /\ ~cache[i].locked
        /\ cache' = [cache EXCEPT ![i] = Push(@, bs, FALSE)]
        /\ want' = [want EXCEPT ![w] = <<0, 0>>]
        /\ Goto(w, "filled")
        /\ UNCHANGED <<size, headers, header_len, req, rcvd, pool, conn,
                       early, ret, bug>>

\* pipe_buf_vmsplice, under the lock of the pipe.  When the pipe has no
\* buffer left before it has all the bytes, the lock is not released.
Vmsplice(w) ==
    LET i == Req(w).curr
        from == want[w][1]
        to == want[w][2]
        room == Cap - cache[i].filled >= to - from
        bs == IF room THEN Fitting(cache[i].data, Part(from, to)) ELSE <<>>
    IN  /\ pc[w] = "vmsplice"
        /\ ~cache[i].locked
        /\ MkBugUnless(room, "space")
        /\ cache' = [cache EXCEPT ![i] = Push(@, bs, Len(bs) < to - from)]
        /\ want' = [want EXCEPT ![w] = <<0, 0>>]
        /\ Goto(w, "filled")
        /\ UNCHANGED <<size, headers, header_len, req, rcvd, pool, conn,
                       early, ret>>

Filled(w) ==
    /\ pc[w] = "filled"
    /\ FillReturns(w, Curr(w).filled = FillLen(Req(w)))
    /\ UNCHANGED <<file, req, rcvd, pool, locals, bug>>

------------------------------------------------------------------------------
(* socket_serve_req_splice *)

\* Mutant: goes on when the last pipe of the file has been taken.
LoopPastEnd(w) ==
    LET r == Req(w)
    IN  /\ pc[w] = "loop"
        /\ IF r.bytes_to_send > 0 /\ (r.curr # 0 \/ r.filled # 0)
           THEN Goto(w, "fill") /\ UNCHANGED locals
           ELSE ServeReturns(w, IF r.bytes_to_send > 0 THEN "more" ELSE "sent")
        /\ UNCHANGED <<file, req, rcvd, pool, bug>>

\* The head of the loop.
Loop(w) ==
    LET r == Req(w)
    IN  /\ pc[w] = "loop"
        /\ IF r.bytes_to_send > 0 /\ (r.curr # 0 \/ r.filled # 0)
           THEN /\ MkBugUnless(r.bytes_offset + r.bytes_to_send = size, "sum")
                /\ Goto(w, IF r.curr # 0 THEN "fill" ELSE "send")
                /\ UNCHANGED locals
           ELSE /\ ServeReturns(w, IF r.bytes_to_send > 0 THEN "more" ELSE "sent")
                /\ UNCHANGED bug
        /\ UNCHANGED <<file, req, rcvd, pool>>

\* Mutant: stays on the same pipe.
TeeCurrAgain(w) ==
    LET r == Req(w)
        some == Tee(Curr(w).data, r.buf, Curr(w).filled)
    IN  /\ pc[w] = "tee"
        /\ req' = [req EXCEPT ![conn[w]].buf = @ \o some,
                              ![conn[w]].filled = @ + Len(some)]
        /\ Goto(w, "send")
        /\ UNCHANGED <<file, rcvd, pool, locals, bug>>

\* The current pipe is duplicated and the request moves to the next one, to
\* none after the last.
TeeCurr(w) ==
    LET r == Req(w)
        some == Tee(Curr(w).data, r.buf, Curr(w).filled)
        eagain == some = <<>> /\ Curr(w).filled # 0
    IN  /\ pc[w] = "tee"
        /\ req' = IF eagain THEN req
                  ELSE [req EXCEPT ![conn[w]] =
                     [bytes_offset |-> r.bytes_offset,
                      bytes_to_send |-> r.bytes_to_send,
                      curr |-> IF r.curr + 1 \in Pipes THEN r.curr + 1 ELSE 0,
                      buf |-> r.buf \o some, filled |-> r.filled + Len(some)]]
        /\ Goto(w, "send")
        /\ UNCHANGED <<file, rcvd, pool, locals, bug>>

\* Nothing to send, or the socket would block: the loop is left.
SendNothing(w) ==
    /\ pc[w] = "send"
    /\ ServeReturns(w, IF Req(w).bytes_to_send > 0 THEN "more" ELSE "sent")
    /\ UNCHANGED <<file, req, rcvd, pool, bug>>

\* The socket fails.
SendFails(w) ==
    /\ pc[w] = "send"
    /\ Req(w).filled # 0
    /\ ServeReturns(w, "failed")
    /\ UNCHANGED <<file, req, rcvd, pool, bug>>

\* Mutant: what was sent still counts as left to send.
SendSomeUncounted(w) ==
    LET r == Req(w)
    IN  /\ pc[w] = "send"
        /\ \E n \in 1 .. Least(r.filled, Len(r.buf)) :
             /\ req' = [req EXCEPT ![conn[w]].buf = DropBytes(@, n),
                                   ![conn[w]].filled = @ - n,
                                   ![conn[w]].bytes_offset = @ + n]
             /\ rcvd' = [rcvd EXCEPT ![conn[w]] =
                           @ \o TakeBytes(r.buf, n)]
        /\ Goto(w, "loop")
        /\ UNCHANGED <<file, pool, locals, bug>>

\* The socket takes some of the bytes in the pipe of the request.
SendSome(w) ==
    LET r == Req(w)
    IN  /\ pc[w] = "send"
        /\ \E n \in 1 .. Least(r.filled, Len(r.buf)) :
             /\ req' = [req EXCEPT ![conn[w]] =
                          [bytes_offset |-> r.bytes_offset + n,
                           bytes_to_send |-> r.bytes_to_send - n,
                           curr |-> r.curr,
                           buf |-> DropBytes(r.buf, n), filled |-> r.filled - n]]
             /\ rcvd' = [rcvd EXCEPT ![conn[w]] =
                           @ \o TakeBytes(r.buf, n)]
             /\ MkBugUnless(r.bytes_to_send >= n, "over")
        /\ Goto(w, "loop")
        /\ UNCHANGED <<file, pool, locals>>

------------------------------------------------------------------------------
(* Later events of the connection, and the end of the request *)

\* ServeReturns leaves no request in curr_reqs that has nothing to send, for
\* which the connection would be closed.
EventWrite(w, c) ==
    /\ WorkerOf[c] = w
    /\ req[c] # NoReq
    /\ req[c].bytes_to_send > 0
    /\ Enter(w, c, "loop")
    /\ UNCHANGED <<file, req, rcvd, pool, early, want, ret, bug>>

\* _mkp_event_error and _mkp_event_timeout.
EventDrop(w, c) ==
    /\ WorkerOf[c] = w
    /\ req[c] # NoReq
    /\ Enter(w, c, "end")
    /\ ret' = [ret EXCEPT ![w] = "failed"]
    /\ UNCHANGED <<file, req, rcvd, pool, early, want, bug>>

\* cache_req_del: the request goes to the pool with whatever is left in its
\* pipe, or is freed when the pool is full.
EndReq(w) ==
    /\ pc[w] = "end"
    /\ req' = [req EXCEPT ![conn[w]] = NoReq]
    /\ pool' = [pool EXCEPT ![w] =
                  IF Len(@) < PoolMax
                  THEN Append(@, [data |-> Req(w).buf, filled |-> Req(w).filled])
                  ELSE @]
    /\ Leave(w)
    /\ UNCHANGED <<file, rcvd, bug>>

------------------------------------------------------------------------------
(* The specification *)

Event(w) == \E c \in Conns : Stage30(w, c) \/ EventWrite(w, c) \/ EventDrop(w, c)

Step(w) ==
    \/ Fill(w) \/ Vmsplice(w) \/ Filled(w)
    \/ Headers(w) \/ LockHeaders(w) \/ FillHeaders(w) \/ FillFirst(w)
    \/ AnswerDirect(w) \/ AnswerCached(w)
    \/ Loop(w) \/ TeeCurr(w) \/ SendNothing(w) \/ SendFails(w) \/ SendSome(w)
    \/ EndReq(w)

Next == bug = "none" /\ \E w \in Workers : Event(w) \/ Step(w)

Spec == Init /\ [][Next]_vars

\* A thread inside a handler keeps running; a socket that keeps being
\* writable is reported by the event loop, and takes some bytes when asked
\* over and over.
LiveSpec ==
    /\ Spec
    /\ \A w \in Workers : WF_vars(bug = "none" /\ Step(w))
    /\ \A c \in Conns :
         /\ SF_vars(bug = "none" /\ EventWrite(WorkerOf[c], c))
         /\ SF_vars(bug = "none" /\ conn[WorkerOf[c]] = c
                                 /\ SendSome(WorkerOf[c]))

------------------------------------------------------------------------------
(* Properties *)

Labels == {"idle", "fill", "vmsplice", "filled", "headers", "hlock", "hcheck",
           "hfile", "answer", "loop", "tee", "send", "end"}

\* Types; the head of an empty list of pipes is never used as a pipe
\* (cache_req.c:52-59, socket.c:30-71), and no count is negative.
TypeOK ==
    /\ size \in Sizes
    /\ DOMAIN cache = Pipes
    /\ \A p \in {cache[i] : i \in Pipes} \cup {headers} :
         p.filled \in Nat /\ p.locked \in BOOLEAN
    /\ header_len \in {0, HeaderLen}
    /\ \A c \in Conns : req[c] # NoReq =>
         /\ req[c].curr \in Pipes \cup {0}
         /\ req[c].bytes_offset \in -HeaderLen .. size
         /\ req[c].bytes_to_send \in 0 .. size + HeaderLen
         /\ req[c].filled \in 0 .. Cap
    /\ \A w \in Workers :
         /\ pc[w] \in Labels
         /\ pc[w] # "idle" => conn[w] \in Conns /\ Req(w) # NoReq
         /\ pc[w] \in {"fill", "vmsplice", "filled", "tee"} => Req(w).curr # 0
         /\ Len(pool[w]) <= PoolMax

\* What the code counts is what the kernel has: the pipe of a request holds
\* the `filled` bytes that come next after the ones the client got, and
\* bytes_to_send are left from bytes_offset on (cache.c:111-115,
\* socket.c:97-99).
Accounting ==
    \A c \in Conns :
        LET r == req[c]
        IN  r # NoReq /\ ~(conn[WorkerOf[c]] = c /\ early[WorkerOf[c]]) =>
                /\ r.buf = Part(r.bytes_offset, Off(r))
                /\ rcvd[c] = Part(-HeaderLen, r.bytes_offset)
                /\ r.bytes_offset + r.bytes_to_send = size

\* A pipe of the cache holds either nothing or just its part of the file,
\* all of it, whoever has been served from it (cache_req.c:75-88).
CacheExact ==
    \A i \in Pipes :
        /\ cache[i].data \in {<<>>, Part((i - 1) * Cap, Least(i * Cap, size))}
        /\ cache[i].filled = Len(cache[i].data)
        /\ ~cache[i].locked

\* No assertion of the byte path fires (pipe_buf.c:67,74; cache_req.c:47,72-73;
\* cache.c:108,215,415; socket.c:36,103).
NoMkBug == bug = "none"

\* However many workers meet the file first, its headers are written into the
\* pipe once, by one of them, and never sent without being complete
\* (cache.c:163-182, 105-109).
HeadersOnce ==
    /\ headers.filled # 0 =>
         /\ header_len = HeaderLen
         /\ SubSeq(headers.data, 1, HeaderLen) = Header
         /\ \A i \in HeaderLen + 1 .. Len(headers.data) : headers.data[i] >= 0
    /\ bug # "short"

\* A pipe of the cache is never filled beyond its part of the file: the
\* assertion that cache_req.c:86 has in a comment.
NeverOverfilled ==
    \A i \in Pipes : cache[i].filled <= Least(Cap, size - (i - 1) * Cap)

\* What serve_req came to, as the client of a connection is concerned.
Phase(c) ==
    LET w == WorkerOf[c]
    IN  IF req[c] = NoReq THEN "none"
        ELSE IF conn[w] = c /\ pc[w] = "end" THEN ret[w]
        ELSE "active"

Resp == INSTANCE Response WITH
            Responses <- {Stream(n) : n \in Sizes}, stream <- Stream(size),
            phase <- [c \in Conns |-> Phase(c)], got <- rcvd

\* With one worker, the byte path implements Response: each client gets its
\* response exactly, and serve_req returns 0 only when all of it is sent
\* (socket.c:111).
ResponseSpec == Resp!Spec

\* A request whose client keeps reading ends: the loop runs "until the
\* current file pointer is a the end or tmp buffer still has data"
\* (socket.c:31-32).
Served == \A c \in Conns : req[c] # NoReq ~> req[c] = NoReq
==============================================================================
