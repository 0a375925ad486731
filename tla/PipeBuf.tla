------------------------------- MODULE PipeBuf -------------------------------
(***************************************************************************)
(* Who has which pipe: pipe_buf.c with its two users, the cached files     *)
(* (cache_file.c) and the requests (cache_req.c), as the hooks of cache.c  *)
(* and the loop of socket.c call them.                                     *)
(*                                                                         *)
(* Each worker has a pool of pipes and a pool of requests, which keep      *)
(* their pipe.  A pipe goes to the pool of the worker that frees it,       *)
(* whoever created it, with what it holds and with its lock as it is, and  *)
(* from there to another file or request.                                  *)
(*                                                                         *)
(* Each access of a hook to what workers share is a step: the table, the   *)
(* count and the mark of a file, its pipes.  What a worker does to its own *)
(* pools and requests goes with the step before.  CacheFile has the table  *)
(* in detail, ServeReq has the bytes.  A pipe is told apart only by what   *)
(* the code compares: empty, filled to the length it is to have, or filled *)
(* beyond.                                                                 *)
(*                                                                         *)
(* A worker that is about to use a file that has been freed goes no        *)
(* further here: what the code does then is undefined.  FilesLive says     *)
(* when that cannot happen, and the other properties are about those       *)
(* cases: one worker, or any number of them while no file is reset.        *)
(***************************************************************************)
EXTENDS Integers, FiniteSets, SequencesExt

CONSTANTS
    Workers,        \* the worker threads
    Socks,          \* the client connections
    WorkerOf,       \* the worker that owns a connection
    Uris,           \* the URIs of files on disk
    Files,          \* the addresses of a cache_file_t
    Bufs,           \* the pipes the process may have open at a time
    Lengths,        \* the pipes a file may need
    Resets,         \* whether files are reset, by the API or the timer
    PoolMax,        \* PIPE_BUF_POOL_MAX
    ReqPoolMax,     \* CACHE_REQ_POOL_MAX
    NULL            \* the null pointer

\* What cache_file_t and cache_req_t keep of it here.
CacheFile == [headers: Bufs, cache: Seq(Bufs), zombie: BOOLEAN,
              pending: Nat, whole: BOOLEAN]
CacheReq == [file: Files, curr: Nat, buf: Bufs]

ASSUME PipeBufAssumption ==
    /\ WorkerOf \in [Socks -> Workers]
    /\ IsFiniteSet(Bufs) /\ IsFiniteSet(Socks)
    /\ Lengths \subseteq Nat \ {0}
    /\ PoolMax \in Nat /\ ReqPoolMax \in Nat
    /\ Resets \in BOOLEAN
    /\ NULL \notin Files \cup Bufs \cup Socks
    /\ Uris \cap Files = {}
    /\ NULL \notin CacheFile \cup CacheReq

VARIABLES
    open,           \* the pipe_buf_t that are allocated, with their pipe
    mem_used,       \* pipe_mem_used, in pipes
    fill,           \* per pipe: what `filled` says
    data,           \* per pipe: the files whose bytes the kernel has in it
    locked,         \* per pipe: write_mutex is held by nobody who will unlock
    pool,           \* per worker: pipe_buf_pool
    reqpool,        \* per worker: the pipes of the requests in cache_req_pool
    table,          \* URI -> file
    file,           \* per address: the cache_file_t there
    req,            \* per connection: its request in curr_reqs
    pc, sock,       \* per worker: where it is, the connection it serves
    arg,            \* per worker: the URI or file in a local variable
    bug             \* an mk_bug fired: the process has aborted

pipes == <<open, mem_used, fill, data, locked>>
files == <<table, file>>
at == <<pc, sock, arg>>
vars == <<pipes, pool, reqpool, files, req, at, bug>>

Init ==
    /\ open = {} /\ mem_used = 0
    /\ fill = [b \in Bufs |-> "empty"]
    /\ data = [b \in Bufs |-> {}]
    /\ locked = [b \in Bufs |-> FALSE]
    /\ pool = [w \in Workers |-> <<>>]
    /\ reqpool = [w \in Workers |-> <<>>]
    /\ table = [u \in Uris |-> NULL]
    /\ file = [f \in Files |-> NULL]
    /\ req = [s \in Socks |-> NULL]
    /\ pc = [w \in Workers |-> "idle"]
    /\ sock = [w \in Workers |-> NULL]
    /\ arg = [w \in Workers |-> NULL]
    /\ bug = FALSE

Goto(w, l) == pc' = [pc EXCEPT ![w] = l]
Hold(w, x) == arg' = [arg EXCEPT ![w] = x]
Enter(w, s, l) ==
    /\ pc[w] = "idle"
    /\ Goto(w, l)
    /\ sock' = [sock EXCEPT ![w] = s]
Return(w) ==
    /\ Goto(w, "idle")
    /\ sock' = [sock EXCEPT ![w] = NULL]
    /\ Hold(w, NULL)

\* What the hook works on.
Req(w) == req[sock[w]]
File(w) == file[Req(w).file]
Curr(w) == File(w).cache[Req(w).curr]

------------------------------------------------------------------------------
(* pipe_buf.c *)

Least(a, b) == IF a < b THEN a ELSE b

\* pipe_buf_flush drops as many bytes as the code counts.
Flushed(b) == IF fill[b] = "empty" THEN data[b] ELSE {}

\* The pipes that k calls of pipe_buf_new return: the oldest of the pool,
\* then new ones; which address malloc returns makes no difference.
Reused(w, k) == SubSeq(pool[w], 1, Least(k, Len(pool[w])))
New(w, k) ==
    Reused(w, k) \o SubSeq(SetToSeq(Bufs \ open), 1, k - Len(Reused(w, k)))

\* pipe2 finds no descriptor.
TooMany(w, k) == k - Len(Reused(w, k)) > Cardinality(Bufs \ open)

\* Mutant: nothing is flushed.
ObtainUnflushed(w, bs, kept) ==
    LET made == Range(bs) \ open
        got == Range(bs) \cup kept
    IN  /\ pool' = [pool EXCEPT ![w] = SubSeq(@, Least(Len(bs), Len(@)) + 1, Len(@))]
        /\ open' = open \cup made
        /\ mem_used' = mem_used + Cardinality(made)
        /\ fill' = [b \in Bufs |-> IF b \in got THEN "empty" ELSE fill[b]]
        /\ data' = [b \in Bufs |-> IF b \in made THEN {} ELSE data[b]]
        /\ locked' = [b \in Bufs |-> b \notin made /\ locked[b]]

\* The pipes bs of pipe_buf_new, and those of requests that are reused: new
\* ones have a new lock, the others are flushed.
Obtain(w, bs, kept) ==
    LET made == Range(bs) \ open
        got == Range(bs) \cup kept
    IN  /\ pool' = [pool EXCEPT ![w] = SubSeq(@, Least(Len(bs), Len(@)) + 1, Len(@))]
        /\ open' = open \cup made
        /\ mem_used' = mem_used + Cardinality(made)
        /\ fill' = [b \in Bufs |-> IF b \in got THEN "empty" ELSE fill[b]]
        /\ data' = [b \in Bufs |-> IF b \in made THEN {}
                                   ELSE IF b \in got THEN Flushed(b)
                                   ELSE data[b]]
        /\ locked' = [b \in Bufs |-> b \notin made /\ locked[b]]

\* Mutant: the memory of a pipe that is closed still counts.
PipeBufFreeUncounted(w, bs) ==
    LET kept == Least(Len(bs), PoolMax - Len(pool[w]))
    IN  /\ pool' = [pool EXCEPT ![w] = @ \o SubSeq(bs, 1, kept)]
        /\ open' = open \ Range(SubSeq(bs, kept + 1, Len(bs)))
        /\ UNCHANGED <<mem_used, fill, data, locked>>

\* Mutant: the limit is off by one.
PipeBufFreeOneMore(w, bs) ==
    LET kept == Least(Len(bs), PoolMax + 1 - Len(pool[w]))
    IN  /\ pool' = [pool EXCEPT ![w] = @ \o SubSeq(bs, 1, kept)]
        /\ open' = open \ Range(SubSeq(bs, kept + 1, Len(bs)))
        /\ mem_used' = mem_used - (Len(bs) - kept)
        /\ UNCHANGED <<fill, data, locked>>

\* pipe_buf_free of each of bs: to the pool of the worker while it has room.
PipeBufFree(w, bs) ==
    LET kept == Least(Len(bs), PoolMax - Len(pool[w]))
    IN  /\ pool' = [pool EXCEPT ![w] = @ \o SubSeq(bs, 1, kept)]
        /\ open' = open \ Range(SubSeq(bs, kept + 1, Len(bs)))
        /\ mem_used' = mem_used - (Len(bs) - kept)
        /\ UNCHANGED <<fill, data, locked>>

------------------------------------------------------------------------------
(* _mkp_stage_30: file and request *)

\* cache_req_new takes the oldest request of the pool, or makes one with a
\* pipe of its own.
KeptPipe(w) == {reqpool[w][i] : i \in 1 .. Least(1, Len(reqpool[w]))}

\* pipe2 fails in pipe_buf_new: the process aborts.
Abort ==
    /\ bug' = TRUE
    /\ UNCHANGED <<pipes, pool, reqpool, files, req, at>>

\* The file of u is looked up, for the last time by cache_file_new, which is
\* called if it is not in the table.
Lookup(w, s, u) ==
    LET miss == table[u] = NULL
    IN  /\ WorkerOf[s] = w /\ req[s] = NULL
        /\ Enter(w, s, IF miss THEN "make" ELSE "count")
        /\ Hold(w, IF miss THEN u ELSE table[u])
        /\ UNCHANGED <<pipes, pool, reqpool, files, req, bug>>

\* The files somebody still has a pointer to.  If one of them was freed, its
\* address is not handed out again here before that pointer is used.
Pointed == Range(arg) \cup {req[s].file : s \in {t \in Socks : req[t] # NULL}}

\* The rest of cache_file_new: a file that needs n pipes, and one for its
\* headers, takes the place in the table.
Make(w, f, n) ==
    LET bs == New(w, n + 1)
    IN  /\ pc[w] = "make"
        /\ file[f] = NULL /\ f \notin Pointed
        /\ \/ /\ TooMany(w, n + 1)
              /\ Abort
           \/ /\ ~TooMany(w, n + 1)
              /\ Obtain(w, bs, {})
              /\ file' = [file EXCEPT ![f] =
                            [headers |-> bs[1], cache |-> SubSeq(bs, 2, n + 1),
                             zombie |-> FALSE, pending |-> 0, whole |-> TRUE]]
              /\ table' = [table EXCEPT ![arg[w]] = f]
              /\ Hold(w, f)
              /\ Goto(w, "count")
              /\ UNCHANGED <<reqpool, req, sock, bug>>

\* It cannot open or map the file, and the request is for others.
MakeFails(w) ==
    /\ pc[w] = "make"
    /\ Return(w)
    /\ UNCHANGED <<pipes, pool, reqpool, files, req, bug>>

\* The request is made and counted.
Count(w) ==
    LET f == arg[w]
        k == 1 - Cardinality(KeptPipe(w))
        bs == New(w, k)
    IN  /\ pc[w] = "count"
        /\ \/ /\ TooMany(w, k)
              /\ Abort
           \/ /\ ~TooMany(w, k)
              /\ Obtain(w, bs, KeptPipe(w))
              /\ reqpool' = [reqpool EXCEPT ![w] = SubSeq(@, 2, Len(@))]
              /\ req' = [req EXCEPT ![sock[w]] =
                           [file |-> f, curr |-> 1,
                            buf |-> IF k = 0 THEN Head(reqpool[w]) ELSE bs[1]]]
              /\ file' = [file EXCEPT ![f].pending = @ + 1]
              /\ Hold(w, NULL)
              /\ Goto(w, "early")
              /\ UNCHANGED <<table, sock, bug>>

------------------------------------------------------------------------------
(* cache_req_fill_curr and pipe_buf_vmsplice *)

\* It is called by stage_30, which ignores its result ("early"), and by the
\* loop, which duplicates a complete pipe into its own if that is empty.
FillReturns(w, complete) ==
    Goto(w, IF pc[w] \in {"early", "earlysplice"} THEN "headers"
            ELSE IF complete /\ fill[Req(w).buf] = "empty" THEN "tee"
            ELSE "send")

Fill(w) ==
    /\ pc[w] \in {"early", "fill"}
    /\ IF fill[Curr(w)] = "empty"
       THEN Goto(w, IF pc[w] = "early" THEN "earlysplice" ELSE "splice")
       ELSE FillReturns(w, fill[Curr(w)] = "full")
    /\ UNCHANGED <<pipes, pool, reqpool, files, req, sock, arg, bug>>

\* The worker takes the lock of the pipe, waiting if it has to.
Locks(w) == pc[w] \in {"earlysplice", "splice"} /\ ~locked[Curr(w)]

Vmsplice(w, filled, kept) ==
    LET b == Curr(w)
    IN  /\ fill' = [fill EXCEPT ![b] = filled]
        /\ data' = [data EXCEPT ![b] =
                      IF filled = "empty" THEN @ ELSE @ \cup {Req(w).file}]
        /\ locked' = [locked EXCEPT ![b] = kept]
        /\ FillReturns(w, filled = "full")
        /\ UNCHANGED <<open, mem_used, pool, reqpool, files, req, sock, arg>>

\* Mutant: the lock is not released.
VmspliceAllLocked(w) ==
    /\ Locks(w)
    /\ fill[Curr(w)] = "empty"
    /\ Vmsplice(w, "full", TRUE)
    /\ UNCHANGED bug

\* The pipe gets all the bytes it is to have.
VmspliceAll(w) ==
    /\ Locks(w)
    /\ fill[Curr(w)] = "empty"
    /\ Vmsplice(w, "full", FALSE)
    /\ UNCHANGED bug

\* Another worker has filled it in the meantime: the bytes come twice, for
\* which there may be no room.  If the pipe takes two times as many, it has
\* the page buffers for them, but not for a third time, nor for the pieces
\* in which a file comes that was cut short: then the lock is kept.
VmspliceTwice(w) ==
    /\ Locks(w)
    /\ fill[Curr(w)] # "empty"
    /\ \E kept \in {FALSE, fill[Curr(w)] = "over" \/ ~File(w).whole} :
         Vmsplice(w, "over", kept)
    /\ bug' \in {bug, TRUE}

\* The file ends within the bytes wanted: the first of them are spliced
\* again, as the call is repeated with the same address.
VmspliceCut(w) ==
    /\ Locks(w)
    /\ fill[Curr(w)] = "empty"
    /\ ~File(w).whole
    /\ Vmsplice(w, "over", FALSE)
    /\ UNCHANGED bug

\* The file ends before the bytes wanted: an error, and the lock is kept.
VmspliceFails(w) ==
    /\ Locks(w)
    /\ ~File(w).whole
    /\ Vmsplice(w, fill[Curr(w)], TRUE)
    /\ UNCHANGED bug

------------------------------------------------------------------------------
(* The response *)

\* socket_serve_req_splice, and each turn of its loop, starts with the
\* current pipe, if there is one left.
Loop(r) == IF r.curr # 0 THEN "fill" ELSE "send"

\* fill_cache_headers, if there are none and the lock is free.  The headers
\* are duplicated into the pipe of the request, or sent directly.
Headers(w) ==
    LET h == File(w).headers
        b == Req(w).buf
        makes == fill[h] = "empty" /\ ~locked[h]
        fill1 == [fill EXCEPT ![h] = IF makes THEN "full" ELSE @]
        data1 == [data EXCEPT ![h] = IF makes THEN @ \cup {Req(w).file} ELSE @]
    IN  /\ pc[w] = "headers"
        /\ \/ fill' = fill1 /\ data' = data1
           \/ /\ fill1[h] # "empty"
              /\ fill' = [fill1 EXCEPT ![b] = "full"]
              /\ data' = [data1 EXCEPT ![b] = @ \cup data1[h]]
        /\ Goto(w, Loop(Req(w)))
        /\ UNCHANGED <<open, mem_used, locked, pool, reqpool, files, req,
                       sock, arg, bug>>

\* The current pipe is duplicated and the request moves to the next one.
TeeCurr(w) ==
    /\ pc[w] = "tee"
    /\ fill' = [fill EXCEPT ![Req(w).buf] = "full"]
    /\ data' = [data EXCEPT ![Req(w).buf] = @ \cup data[Curr(w)]]
    /\ req' = [req EXCEPT ![sock[w]].curr =
                 IF @ < Len(File(w).cache) THEN @ + 1 ELSE 0]
    /\ Goto(w, "send")
    /\ UNCHANGED <<open, mem_used, locked, pool, reqpool, files, sock, arg,
                   bug>>

\* There is nothing to send, or the socket does not take all of it.
SendWaits(w) ==
    /\ pc[w] = "send"
    /\ Return(w)
    /\ UNCHANGED <<pipes, pool, reqpool, files, req, bug>>

SendFails(w) ==
    /\ pc[w] = "send"
    /\ fill[Req(w).buf] # "empty"
    /\ Goto(w, "end")
    /\ UNCHANGED <<pipes, pool, reqpool, files, req, sock, arg, bug>>

\* The socket takes all.  With a pipe left it may still be the end, if the
\* file came behind the cached headers.
SendAll(w) ==
    LET b == Req(w).buf
    IN  /\ pc[w] = "send"
        /\ fill[b] # "empty"
        /\ fill' = [fill EXCEPT ![b] = "empty"]
        /\ data' = [data EXCEPT ![b] = {}]
        /\ \/ Goto(w, "end")
           \/ Req(w).curr # 0 /\ Goto(w, "fill")
        /\ UNCHANGED <<open, mem_used, locked, pool, reqpool, files, req,
                       sock, arg, bug>>

------------------------------------------------------------------------------
(* The end of requests and files *)

\* The pipes that cache_file_free gives back, in this order.
PipesOf(f) == <<file[f].headers>> \o file[f].cache

\* cache_req_del takes the request off the list and the count; here req
\* keeps it until the handler is through with it.
EndReq(w) ==
    /\ pc[w] = "end"
    /\ file' = [file EXCEPT ![Req(w).file].pending = @ - 1]
    /\ Goto(w, "ended")
    /\ UNCHANGED <<pipes, pool, reqpool, table, req, sock, arg, bug>>

\* Mutant: the count is not looked at.
EndTestZombieOnly(w) ==
    /\ pc[w] = "ended"
    /\ Goto(w, IF file[Req(w).file].zombie THEN "free" ELSE "release")
    /\ UNCHANGED <<pipes, pool, reqpool, files, req, sock, arg, bug>>

\* Has the last request of a zombie ended?  zombie is read before the count,
\* but as it never goes back the two may as well be read at once.
EndTest(w) ==
    LET f == file[Req(w).file]
    IN  /\ pc[w] = "ended"
        /\ Goto(w, IF f.zombie /\ f.pending = 0 THEN "free" ELSE "release")
        /\ UNCHANGED <<pipes, pool, reqpool, files, req, sock, arg, bug>>

\* Mutant: the pipe of a request that is kept is given back as well.
EndFreeTwice(w) ==
    LET f == Req(w).file
        b == Req(w).buf
        last == pc[w] = "free"
        keeps == Len(reqpool[w]) < ReqPoolMax
    IN  /\ pc[w] \in {"free", "release"}
        /\ PipeBufFree(w, (IF last THEN PipesOf(f) ELSE <<>>) \o <<b>>)
        /\ reqpool' = [reqpool EXCEPT ![w] = IF keeps THEN Append(@, b) ELSE @]
        /\ file' = IF last THEN [file EXCEPT ![f] = NULL] ELSE file
        /\ req' = [req EXCEPT ![sock[w]] = NULL]
        /\ Return(w)
        /\ UNCHANGED <<table, bug>>

\* It frees the file; the request goes to the pool, or its pipe to the pool
\* of pipes.
EndFree(w) ==
    LET f == Req(w).file
        b == Req(w).buf
        last == pc[w] = "free"
        keeps == Len(reqpool[w]) < ReqPoolMax
    IN  /\ pc[w] \in {"free", "release"}
        /\ PipeBufFree(w, (IF last THEN PipesOf(f) ELSE <<>>)
                          \o (IF keeps THEN <<>> ELSE <<b>>))
        /\ reqpool' = [reqpool EXCEPT ![w] = IF keeps THEN Append(@, b) ELSE @]
        /\ file' = IF last THEN [file EXCEPT ![f] = NULL] ELSE file
        /\ req' = [req EXCEPT ![sock[w]] = NULL]
        /\ Return(w)
        /\ UNCHANGED <<table, bug>>

\* file_table_reset, by the API or the timer, takes the file out of the
\* table,
Reset(w, u) ==
    /\ Resets
    /\ pc[w] = "idle"
    /\ table[u] # NULL
    /\ table' = [table EXCEPT ![u] = NULL]
    /\ Hold(w, table[u])
    /\ Goto(w, "mark")
    /\ UNCHANGED <<pipes, pool, reqpool, file, req, sock, bug>>

\* marks it,
ResetMark(w) ==
    /\ pc[w] = "mark"
    /\ file' = [file EXCEPT ![arg[w]].zombie = TRUE]
    /\ Goto(w, "check")
    /\ UNCHANGED <<pipes, pool, reqpool, table, req, sock, arg, bug>>

\* looks whether it has requests,
ResetTest(w) ==
    /\ pc[w] = "check"
    /\ IF file[arg[w]].pending = 0
       THEN Goto(w, "drop") /\ UNCHANGED <<sock, arg>>
       ELSE Return(w)
    /\ UNCHANGED <<pipes, pool, reqpool, files, req, bug>>

\* and frees it if it has none.
ResetFree(w) ==
    /\ pc[w] = "drop"
    /\ PipeBufFree(w, PipesOf(arg[w]))
    /\ file' = [file EXCEPT ![arg[w]] = NULL]
    /\ Return(w)
    /\ UNCHANGED <<reqpool, table, req, bug>>

------------------------------------------------------------------------------
(* Events, and the file system *)

EventWrite(w, s) ==
    /\ WorkerOf[s] = w /\ req[s] # NULL
    /\ Enter(w, s, Loop(req[s]))
    /\ UNCHANGED <<pipes, pool, reqpool, files, req, arg, bug>>

EventDrop(w, s) ==
    /\ WorkerOf[s] = w /\ req[s] # NULL
    /\ Enter(w, s, "end")
    /\ UNCHANGED <<pipes, pool, reqpool, files, req, arg, bug>>

\* Somebody cuts the file on disk short.
Shrink(f) ==
    /\ file[f] # NULL
    /\ file' = [file EXCEPT ![f].whole = FALSE]
    /\ UNCHANGED <<pipes, pool, reqpool, table, req, at, bug>>

\* Where a worker uses a file it has in a local variable, and where the file
\* of its request.
UsesArg == {"count", "mark", "check", "drop"}
UsesFile == {"early", "earlysplice", "headers", "fill", "splice", "tee", "end",
             "ended", "free"}

\* The file that w is about to use has been freed.
Dangling(w) ==
    \/ pc[w] \in UsesArg /\ file[arg[w]] = NULL
    \/ pc[w] \in UsesFile /\ file[Req(w).file] = NULL

Event(w) ==
    \/ \E s \in Socks :
         \/ EventWrite(w, s) \/ EventDrop(w, s)
         \/ \E u \in Uris : Lookup(w, s, u)
    \/ \E u \in Uris : Reset(w, u)

Step(w) ==
    \/ \E f \in Files, n \in Lengths : Make(w, f, n)
    \/ MakeFails(w) \/ Count(w)
    \/ Fill(w) \/ VmspliceAll(w) \/ VmspliceTwice(w) \/ VmspliceCut(w)
    \/ VmspliceFails(w)
    \/ Headers(w) \/ TeeCurr(w)
    \/ SendWaits(w) \/ SendFails(w) \/ SendAll(w)
    \/ EndReq(w) \/ EndTest(w) \/ EndFree(w)
    \/ ResetMark(w) \/ ResetTest(w) \/ ResetFree(w)

Next ==
    /\ ~bug
    /\ \/ \E w \in Workers : Event(w) \/ (~Dangling(w) /\ Step(w))
       \/ \E f \in Files : Shrink(f)

Spec == Init /\ [][Next]_vars

------------------------------------------------------------------------------
(* Properties *)

Fills == {"empty", "full", "over"}
Labels == {"idle", "make", "count", "early", "earlysplice", "headers", "fill",
           "splice", "tee", "send", "end", "ended", "free", "release", "mark",
           "check", "drop"}

\* Where a worker has neither a connection nor a request, and where it has a
\* connection without one.
NoSock == {"idle", "mark", "check", "drop"}
NoReq == {"make", "count"}

\* Types; the pools keep to their limits (pipe_buf.c:136, cache_req.c:101)
\* and a handler has the request it serves.
TypeOK ==
    /\ open \subseteq Bufs
    /\ mem_used \in Nat
    /\ fill \in [Bufs -> Fills]
    /\ data \in [Bufs -> SUBSET Files]
    /\ locked \in [Bufs -> BOOLEAN]
    /\ \A w \in Workers :
         /\ Len(pool[w]) <= PoolMax /\ Len(reqpool[w]) <= ReqPoolMax
         /\ pc[w] \in Labels
         /\ pc[w] \notin NoSock => sock[w] \in Socks
         /\ pc[w] \notin NoSock \cup NoReq => Req(w) # NULL

\* A worker alone, or any number of them as long as no file is reset: what
\* FilesLive, PlacedOnce, MemUsed and OwnBytes are about.
Alone == \A v, w \in Workers : v = w
Safe == Alone \/ ~Resets

\* No worker uses a file that has been freed: the last of its requests frees
\* it, or its reset, and each at a time when nobody has a pointer to it
\* (cache_req.c:94-97, cache_file.c:61-68).  Two workers break it (the run
\* file_race of CacheFile).
FilesLive == \A w \in Workers : ~Dangling(w)

Requests == {s \in Socks : req[s] # NULL}
Cached == {f \in Files : file[f] # NULL}

\* The places a pipe may be in, and the pipes that are there.
Places == ({"pool", "reqpool"} \X Workers) \cup ({"file"} \X Files)
            \cup ({"req"} \X Socks)
ListOf(p) ==
    LET x == p[2]
    IN  CASE p[1] = "pool" -> pool[x]
          [] p[1] = "reqpool" -> reqpool[x]
          [] p[1] = "file" -> IF x \in Cached THEN PipesOf(x) ELSE <<>>
          [] p[1] = "req" -> IF x \in Requests THEN <<req[x].buf>> ELSE <<>>
Slots == UNION {{p} \X DOMAIN ListOf(p) : p \in Places}
PipeAt(s) == ListOf(s[1])[s[2]]

\* A pipe that is open is in one place, once: a pool, a pool of requests, a
\* file or a request; none is lost and none is shared, whatever requests and
\* resets a worker alone goes through, or several without resets
\* (pipe_buf.c:109-142, cache_req.c:91-109, cache_file.c:29-51).
PlacedOnce ==
    /\ \A s, t \in Slots : PipeAt(s) = PipeAt(t) => s = t
    /\ {PipeAt(s) : s \in Slots} = open

\* pipe_mem_used, which the statistics show, is the memory of the pipes that
\* are open: none is closed twice (pipe_buf.c:34, 43), by a worker alone.
MemUsed == mem_used = Cardinality(open)

\* A file's pipes hold its bytes and no other's, a request's those of the
\* file it is for, whatever they held before and, without resets, whichever
\* workers fill them (pipe_buf.c:59-68, 117-120; cache_req.c:35-37).
OwnBytes ==
    /\ \A f \in Cached : \A b \in Range(PipesOf(f)) : data[b] \subseteq {f}
    /\ \A s \in Requests : data[req[s].buf] \subseteq {req[s].file}

\* A lock is left behind only by a worker that fills a pipe from a file that
\* was itself cut short; a whole file leaves none, even when two workers fill
\* the same pipe at once, and however many other files were cut
\* (pipe_buf.c:72, 92-99, 105).  A third worker would break it.
LocksReleased ==
    [][\A b \in Bufs : locked'[b] /\ ~locked[b] =>
         \E w \in Workers : Locks(w) /\ Curr(w) = b /\ ~File(w).whole]_vars
==============================================================================
