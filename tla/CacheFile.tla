------------------------------ MODULE CacheFile ------------------------------
(***************************************************************************)
(* The life of a cached file: cache_file.c, the parts of cache.c,          *)
(* cache_req.c and curr_reqs.c that look a file up, hold it and let it go, *)
(* the 1 s timer (timer.c) that evicts idle files, and the table           *)
(* (unqlite_ht.c) that maps a URI to its file.                             *)
(*                                                                         *)
(* Monkey runs one event loop per worker thread and calls the plugin from  *)
(* it; the table and the files are shared by all workers, the list of      *)
(* current requests is not.  A worker runs one handler at a time.  Every   *)
(* access to shared memory is a step of its own, so the steps of two       *)
(* workers interleave as those of the threads do.  One call of unqlite_kv_ *)
(* is one step: the library is built with UNQLITE_ENABLE_THREADS and       *)
(* takes the database mutex in each of them; cursors take no lock.         *)
(*                                                                         *)
(* Nothing is specified of a worker once it is about to touch memory that  *)
(* has been freed: it takes no further step (see Undefined).               *)
(***************************************************************************)
EXTENDS Integers, FiniteSets

CONSTANTS
    Workers,    \* the worker threads of the server
    Sockets,    \* the client connections
    WorkerOf,   \* the worker that owns a connection
    Uris,       \* the keys of the table
    Files,      \* the addresses mem_alloc may return for a cache_file_t
    Garbage,    \* the values an int of a malloc'ed block may hold
    NULL,       \* the null pointer
    Dangling    \* a cursor left on a record that has been deleted

ASSUME ConstantsAssumption ==
    /\ WorkerOf \in [Sockets -> Workers]
    /\ IsFiniteSet(Sockets)
    /\ Garbage \subseteq Int /\ Garbage # {}
    /\ NULL \notin Files \cup Uris \cup Sockets
    /\ Dangling \notin Uris \cup {NULL}

VARIABLES
    \* shared: the table and the fields of each cache_file_t
    table,          \* file_table: URI -> file
    alloc,          \* the addresses now allocated
    zombie, pending_reqs, evictable, uri,
    stale,          \* last_accessed is more than MAX_FILE_IDLE ms ago
    bug,            \* an mk_bug fired: the process has aborted
    \* per connection: the file of its request in curr_reqs, NULL if none
    req,
    \* per worker: where it is, the entry point it serves, its locals
    pc, op, sock, key, ptr,
    cur, todo,      \* the cursor of table_each: its record, those after it
    owner           \* the file whose uri `key` is a pointer to, NULL if none

shared == <<table, alloc, zombie, pending_reqs, evictable, uri, stale, bug>>
fields == <<zombie, pending_reqs, evictable, uri>>
cursor == <<cur, todo, owner>>
locals == <<op, sock, key, ptr, cursor>>
vars   == <<shared, req, pc, locals>>

\* Places where the worker's next access is through ptr.
DerefLabels == {"touch", "ref", "serve", "del", "delz", "delp", "free",
                "rzombie", "rpend", "cb"}
Labels == DerefLabels \cup {"idle", "get", "new", "open", "add", "rfetch",
                            "rdel", "tmpget", "tmpopen", "ack", "each"}
Ops == {"none", "stage", "event", "reset", "add", "tick", "stats"}

Init ==
    /\ table = [u \in Uris |-> NULL]
    /\ alloc = {}
    /\ zombie = [f \in Files |-> 0]
    /\ pending_reqs = [f \in Files |-> 0]
    /\ evictable = [f \in Files |-> FALSE]
    /\ uri = [f \in Files |-> NULL]
    /\ stale = [f \in Files |-> FALSE]
    /\ bug = FALSE
    /\ req = [s \in Sockets |-> NULL]
    /\ pc = [w \in Workers |-> "idle"]
    /\ op = [w \in Workers |-> "none"]
    /\ sock = [w \in Workers |-> NULL]
    /\ key = [w \in Workers |-> NULL]
    /\ ptr = [w \in Workers |-> NULL]
    /\ cur = [w \in Workers |-> NULL]
    /\ todo = [w \in Workers |-> {}]
    /\ owner = [w \in Workers |-> NULL]

------------------------------------------------------------------------------
(* Helpers *)

Goto(w, l) == pc' = [pc EXCEPT ![w] = l]

\* The handler returns to the event loop: its locals die.
Return(w) ==
    /\ Goto(w, "idle")
    /\ op' = [op EXCEPT ![w] = "none"]
    /\ sock' = [sock EXCEPT ![w] = NULL]
    /\ key' = [key EXCEPT ![w] = NULL]
    /\ ptr' = [ptr EXCEPT ![w] = NULL]
    /\ UNCHANGED cursor

\* A handler is entered.
Enter(w, o, s, u, f, l) ==
    /\ pc[w] = "idle"
    /\ Goto(w, l)
    /\ op' = [op EXCEPT ![w] = o]
    /\ sock' = [sock EXCEPT ![w] = s]
    /\ key' = [key EXCEPT ![w] = u]
    /\ ptr' = [ptr EXCEPT ![w] = f]

\* Where file_table_reset returns to.
AfterReset(w) == CASE op[w] = "add"  -> "tmpget"
                   [] op[w] = "tick" -> "each"
                   [] OTHER          -> "ack"

\* mem_alloc: an address that nothing points to any more.  What is done
\* through an older pointer to it is Undefined already.
Fresh(f) ==
    /\ f \notin alloc
    /\ \A w \in Workers : ptr[w] # f /\ owner[w] # f
    /\ \A s \in Sockets : req[s] # f
    /\ \A u \in Uris : table[u] # f

Keys == {u \in Uris : table[u] # NULL}

\* The connections whose request holds f.
Holders(f) == {s \in Sockets : req[s] = f}

\* unqlite_kv_delete of key u: a cursor that stands on the record is left
\* on freed memory, one that has yet to come to it never will.
Unlink(u) ==
    LET under(w) == cur[w] = u /\ table[u] # NULL
    IN  /\ table' = [table EXCEPT ![u] = NULL]
        /\ cur' = [w \in Workers |-> IF under(w) THEN Dangling ELSE cur[w]]
        /\ todo' = [w \in Workers |-> IF under(w) THEN {} ELSE todo[w] \ {u}]

\* unqlite_kv_store of key u: a new record is ahead of the cursors that are
\* under way.
Link(u, f) ==
    /\ table' = [table EXCEPT ![u] = f]
    /\ todo' = [w \in Workers |->
                  IF table[u] = NULL /\ cur[w] \notin {NULL, Dangling}
                  THEN todo[w] \cup {u} ELSE todo[w]]
    /\ UNCHANGED <<cur, owner>>

\* The cursor moves to some record that is left, or to the end.
Advance(w, rest) ==
    \/ /\ rest = {}
       /\ cur' = [cur EXCEPT ![w] = NULL]
       /\ todo' = [todo EXCEPT ![w] = {}]
    \/ \E v \in rest :
         /\ cur' = [cur EXCEPT ![w] = v]
         /\ todo' = [todo EXCEPT ![w] = rest \ {v}]

------------------------------------------------------------------------------
(* _mkp_stage_30: a request for a file *)

\* The request arrives on a connection without a current request (with one,
\* the handler returns at once).  Only a GET asks cache_file_get first; any
\* other method, and the web UI, whose files are cached under another URI,
\* go straight to cache_file_new.
Stage30(w, s, u) ==
    /\ WorkerOf[s] = w
    /\ req[s] = NULL
    /\ \E l \in {"get", "new"} : Enter(w, "stage", s, u, NULL, l)
    /\ UNCHANGED <<shared, req, cursor>>

\* cache_file_get: the lookup; a file found is touched in the next step.
CacheFileGet(w) ==
    /\ pc[w] = "get"
    /\ ptr' = [ptr EXCEPT ![w] = table[key[w]]]
    /\ Goto(w, IF table[key[w]] = NULL THEN "new" ELSE "touch")
    /\ UNCHANGED <<shared, req, op, sock, key, cursor>>

CacheFileTouch(w) ==
    /\ pc[w] = "touch"
    /\ stale' = [stale EXCEPT ![ptr[w]] = FALSE]
    /\ Goto(w, "ref")
    /\ UNCHANGED <<table, alloc, fields, bug, req, locals>>

\* Mutant: a file that is not there is used as if it were.
CacheFileNewUnchecked(w) ==
    /\ pc[w] = "new"
    /\ \/ Return(w)
       \/ /\ ptr' = [ptr EXCEPT ![w] = table[key[w]]]
          /\ Goto(w, "ref")
          /\ UNCHANGED <<op, sock, key, cursor>>
    /\ UNCHANGED <<shared, req>>

\* cache_file_new up to its own lookup.  No such path, a directory or an
\* empty file: the request is not for this plugin.
CacheFileNew(w) ==
    /\ pc[w] = "new"
    /\ \/ Return(w)
       \/ /\ ptr' = [ptr EXCEPT ![w] = table[key[w]]]
          /\ Goto(w, IF table[key[w]] = NULL THEN "open" ELSE "ref")
          /\ UNCHANGED <<op, sock, key, cursor>>
    /\ UNCHANGED <<shared, req>>

\* The rest of cache_file_new before table_add: open or mmap may fail.
CacheFileOpen(w) ==
    /\ pc[w] = "open"
    /\ \/ Return(w) /\ UNCHANGED <<alloc, fields, stale>>
       \/ \E f \in Files :
            /\ Fresh(f)
            /\ alloc' = alloc \cup {f}
            /\ zombie' = [zombie EXCEPT ![f] = 0]
            /\ pending_reqs' = [pending_reqs EXCEPT ![f] = 0]
            /\ evictable' = [evictable EXCEPT ![f] = TRUE]
            /\ uri' = [uri EXCEPT ![f] = key[w]]
            /\ stale' = [stale EXCEPT ![f] = FALSE]
            /\ ptr' = [ptr EXCEPT ![w] = f]
            /\ Goto(w, "add")
            /\ UNCHANGED <<op, sock, key, cursor>>
    /\ UNCHANGED <<table, bug, req>>

\* table_add, the last step of cache_file_new and of cache_file_tmp: it
\* replaces the value of a record that exists.  When it fails the file is
\* freed again.
TableAdd(w) ==
    /\ pc[w] = "add"
    /\ \/ /\ Link(key[w], ptr[w])
          /\ Goto(w, IF op[w] = "add" THEN "ack" ELSE "ref")
          /\ UNCHANGED <<alloc, op, sock, key, ptr>>
       \/ /\ alloc' = alloc \ {ptr[w]}
          /\ IF op[w] = "add"
             THEN /\ Goto(w, "ack")
                  /\ ptr' = [ptr EXCEPT ![w] = NULL]
                  /\ UNCHANGED <<op, sock, key, cursor>>
             ELSE Return(w)
          /\ UNCHANGED table
    /\ UNCHANGED <<fields, stale, bug, req>>

\* A request object enters curr_reqs and is counted in the file.
Ref(w) ==
    /\ pc[w] = "ref"
    /\ req' = [req EXCEPT ![sock[w]] = ptr[w]]
    /\ pending_reqs' = [pending_reqs EXCEPT ![ptr[w]] = @ + 1]
    /\ Goto(w, "serve")
    /\ UNCHANGED <<table, alloc, zombie, evictable, uri, stale, bug, locals>>

\* serve_req: everything sent or the socket failed, and the request ends;
\* or the socket is full, and it waits in curr_reqs.
Serve(w) ==
    /\ pc[w] = "serve"
    /\ \/ Goto(w, "del") /\ UNCHANGED locals
       \/ Return(w)
    /\ UNCHANGED <<shared, req>>

------------------------------------------------------------------------------
(* Events of a connection with a current request *)

EventWrite(w, s) ==
    /\ WorkerOf[s] = w
    /\ req[s] # NULL
    /\ Enter(w, "event", s, NULL, req[s], "serve")
    /\ UNCHANGED <<shared, req, cursor>>

\* _mkp_event_error and _mkp_event_timeout.
EventDrop(w, s) ==
    /\ WorkerOf[s] = w
    /\ req[s] # NULL
    /\ Enter(w, "event", s, NULL, req[s], "del")
    /\ UNCHANGED <<shared, req, cursor>>

------------------------------------------------------------------------------
(* curr_reqs_del and cache_req_del: a request ends *)

\* Mutant: the request leaves the list but stays counted.
CacheReqDelUncounted(w) ==
    /\ pc[w] = "del"
    /\ req' = [req EXCEPT ![sock[w]] = NULL]
    /\ Goto(w, "delz")
    /\ UNCHANGED <<shared, locals>>

\* Out of the list, and the count goes down.
CacheReqDel(w) ==
    /\ pc[w] = "del"
    /\ req' = [req EXCEPT ![sock[w]] = NULL]
    /\ pending_reqs' = [pending_reqs EXCEPT ![ptr[w]] = @ - 1]
    /\ Goto(w, "delz")
    /\ UNCHANGED <<table, alloc, zombie, evictable, uri, stale, bug, locals>>

\* Mutant: the last request frees the file, zombie or not.
CacheReqDelAlways(w) ==
    /\ pc[w] = "delz"
    /\ Goto(w, "delp")
    /\ UNCHANGED <<shared, req, locals>>

\* Mutant: the last request leaves the zombie to nobody.
CacheReqDelNever(w) ==
    /\ pc[w] = "delz"
    /\ Return(w)
    /\ UNCHANGED <<shared, req>>

\* The two reads of "zombie && pending_reqs == 0".
CacheReqDelZombie(w) ==
    /\ pc[w] = "delz"
    /\ IF zombie[ptr[w]] # 0 THEN Goto(w, "delp") /\ UNCHANGED locals
                             ELSE Return(w)
    /\ UNCHANGED <<shared, req>>

\* Mutant: tests the count as if it had not gone down yet.
CacheReqDelPendingOld(w) ==
    /\ pc[w] = "delp"
    /\ IF pending_reqs[ptr[w]] = 1 THEN Goto(w, "free") /\ UNCHANGED locals
                                   ELSE Return(w)
    /\ UNCHANGED <<shared, req>>

CacheReqDelPending(w) ==
    /\ pc[w] = "delp"
    /\ IF pending_reqs[ptr[w]] = 0 THEN Goto(w, "free") /\ UNCHANGED locals
                                   ELSE Return(w)
    /\ UNCHANGED <<shared, req>>

------------------------------------------------------------------------------
(* file_table_reset: a URI leaves the table *)

\* table_del: unqlite_ht.c fetches the record, then deletes the key,
\* whatever it found.
ResetFetch(w) ==
    /\ pc[w] = "rfetch"
    /\ ptr' = [ptr EXCEPT ![w] = table[key[w]]]
    /\ Goto(w, "rdel")
    /\ UNCHANGED <<shared, req, op, sock, key, cursor>>

\* Mutant: a file in use keeps its entry.
ResetDeleteUnused(w) ==
    /\ pc[w] = "rdel"
    /\ IF ptr[w] # NULL /\ Holders(ptr[w]) # {}
       THEN UNCHANGED <<table, cur, todo>>
       ELSE Unlink(key[w])
    /\ owner' = [owner EXCEPT ![w] = NULL]
    /\ Goto(w, IF ptr[w] = NULL THEN AfterReset(w) ELSE "rzombie")
    /\ UNCHANGED <<alloc, fields, stale, bug, req, op, sock, key, ptr>>

ResetDelete(w) ==
    /\ pc[w] = "rdel"
    /\ Unlink(key[w])
    /\ owner' = [owner EXCEPT ![w] = NULL]
    /\ Goto(w, IF ptr[w] = NULL THEN AfterReset(w) ELSE "rzombie")
    /\ UNCHANGED <<alloc, fields, stale, bug, req, op, sock, key, ptr>>

ResetZombie(w) ==
    /\ pc[w] = "rzombie"
    /\ zombie' = [zombie EXCEPT ![ptr[w]] = 1]
    /\ Goto(w, "rpend")
    /\ UNCHANGED <<table, alloc, pending_reqs, evictable, uri, stale, bug,
                   req, locals>>

\* Mutant: frees the file without asking whether requests hold it.
ResetPendingUnchecked(w) ==
    /\ pc[w] = "rpend"
    /\ Goto(w, "free")
    /\ UNCHANGED <<shared, req, locals>>

ResetPending(w) ==
    /\ pc[w] = "rpend"
    /\ Goto(w, IF pending_reqs[ptr[w]] = 0 THEN "free" ELSE AfterReset(w))
    /\ ptr' = [ptr EXCEPT ![w] = IF pending_reqs[@] = 0 THEN @ ELSE NULL]
    /\ UNCHANGED <<shared, req, op, sock, key, cursor>>

\* cache_file_free, then the rest of the function that called it.
CacheFileFree(w) ==
    /\ pc[w] = "free"
    /\ alloc' = alloc \ {ptr[w]}
    /\ IF op[w] \in {"stage", "event"}
       THEN Return(w)
       ELSE /\ Goto(w, AfterReset(w))
            /\ ptr' = [ptr EXCEPT ![w] = NULL]
            /\ UNCHANGED <<op, sock, key, cursor>>
    /\ UNCHANGED <<table, fields, stale, bug, req>>

------------------------------------------------------------------------------
(* The API: reset, add; and the answer, the same whatever happened *)

ServeReset(w, u) ==
    /\ Enter(w, "reset", NULL, u, NULL, "rfetch")
    /\ UNCHANGED <<shared, req, cursor>>

ServeAdd(w, u) ==
    /\ Enter(w, "add", NULL, u, NULL, "rfetch")
    /\ UNCHANGED <<shared, req, cursor>>

\* cache_file_tmp after file_table_reset: mk_bug(cache_file_get(uri) != NULL).
CacheFileTmpGet(w) ==
    /\ pc[w] = "tmpget"
    /\ bug' = (table[key[w]] # NULL)
    /\ Goto(w, "tmpopen")
    /\ UNCHANGED <<table, alloc, fields, stale, req, locals>>

\* The rest of cache_file_tmp before table_add: mkostemp, write or mmap may
\* fail.  zombie and pending_reqs are never assigned.
CacheFileTmp(w) ==
    /\ pc[w] = "tmpopen"
    /\ \/ Goto(w, "ack") /\ UNCHANGED <<alloc, fields, stale, ptr>>
       \/ \E f \in Files, z \in Garbage, p \in Garbage :
            /\ Fresh(f)
            /\ alloc' = alloc \cup {f}
            /\ zombie' = [zombie EXCEPT ![f] = z]
            /\ pending_reqs' = [pending_reqs EXCEPT ![f] = p]
            /\ evictable' = [evictable EXCEPT ![f] = FALSE]
            /\ uri' = [uri EXCEPT ![f] = key[w]]
            /\ stale' = [stale EXCEPT ![f] = FALSE]
            /\ ptr' = [ptr EXCEPT ![w] = f]
            /\ Goto(w, "add")
    /\ UNCHANGED <<table, bug, req, op, sock, key, cursor>>

\* serve_str: the client is told that it worked.
Ack(w) ==
    /\ pc[w] = "ack"
    /\ Return(w)
    /\ UNCHANGED <<shared, req>>

------------------------------------------------------------------------------
(* table_each: the eviction tick and the statistics *)

\* timer_read or serve_stats: the cursor goes to the first record.
TableEach(w) ==
    /\ \E o \in {"tick", "stats"} : Enter(w, o, NULL, NULL, NULL, "each")
    /\ Advance(w, Keys)
    /\ UNCHANGED <<shared, req, owner>>

\* Mutant: the cursor stays on the record during the callback.
TableEachNextStay(w) ==
    /\ pc[w] = "each"
    /\ \/ /\ cur[w] = NULL
          /\ Return(w)
       \/ /\ cur[w] # NULL
          /\ ptr' = [ptr EXCEPT ![w] = table[cur[w]]]
          /\ Goto(w, "cb")
          /\ UNCHANGED <<op, sock, key, cursor>>
    /\ UNCHANGED <<shared, req>>

\* Mutant: the cursor moves on twice.
TableEachNextTwice(w) ==
    /\ pc[w] = "each"
    /\ \/ /\ cur[w] = NULL
          /\ Return(w)
       \/ /\ cur[w] # NULL
          /\ ptr' = [ptr EXCEPT ![w] = table[cur[w]]]
          /\ \/ todo[w] = {} /\ Advance(w, {})
             \/ \E v \in todo[w] : Advance(w, todo[w] \ {v})
          /\ Goto(w, "cb")
          /\ UNCHANGED <<op, sock, key, owner>>
    /\ UNCHANGED <<shared, req>>

\* One turn of the loop: read the record, move the cursor on, call back.
\* (The library's calls for this take no lock.  A record deleted between the
\* reads is one more way to the Undefined that the next step reaches.)
TableEachNext(w) ==
    /\ pc[w] = "each"
    /\ \/ /\ cur[w] = NULL
          /\ Return(w)
       \/ /\ cur[w] # NULL
          /\ ptr' = [ptr EXCEPT ![w] = table[cur[w]]]
          /\ Advance(w, todo[w])
          /\ Goto(w, "cb")
          /\ UNCHANGED <<op, sock, key, owner>>
    /\ UNCHANGED <<shared, req>>

\* cache_file_tick_cb evicts an idle file: table_del is given a pointer to the
\* URI in the file.  serve_stats_cb only reads the file.
Callback(w) ==
    /\ pc[w] = "cb"
    /\ IF op[w] = "tick" /\ stale[ptr[w]] /\ evictable[ptr[w]]
       THEN /\ Goto(w, "rfetch")
            /\ key' = [key EXCEPT ![w] = uri[ptr[w]]]
            /\ owner' = [owner EXCEPT ![w] = ptr[w]]
       ELSE Goto(w, "each") /\ UNCHANGED <<key, owner>>
    /\ ptr' = [ptr EXCEPT ![w] = NULL]
    /\ UNCHANGED <<shared, req, op, sock, cur, todo>>

\* MAX_FILE_IDLE ms have passed since f was last looked up.
TimePasses(f) ==
    /\ f \in alloc
    /\ stale' = [stale EXCEPT ![f] = TRUE]
    /\ UNCHANGED <<table, alloc, fields, bug, req, pc, locals>>

------------------------------------------------------------------------------
(* The specification *)

\* The worker's next access is to freed memory.
Undefined(w) ==
    \/ pc[w] \in DerefLabels /\ ptr[w] \notin alloc
    \/ owner[w] # NULL /\ owner[w] \notin alloc
    \/ pc[w] = "each" /\ cur[w] = Dangling

\* A worker with nothing to do takes an event.
Event(w) ==
    \/ \E s \in Sockets, u \in Uris : Stage30(w, s, u)
    \/ \E s \in Sockets : EventWrite(w, s) \/ EventDrop(w, s)
    \/ \E u \in Uris : ServeReset(w, u) \/ ServeAdd(w, u)
    \/ TableEach(w)

\* A worker in a handler goes on with it.
Step(w) ==
    \/ CacheFileGet(w) \/ CacheFileTouch(w) \/ CacheFileNew(w)
    \/ CacheFileOpen(w) \/ TableAdd(w) \/ Ref(w) \/ Serve(w)
    \/ CacheReqDel(w) \/ CacheReqDelZombie(w) \/ CacheReqDelPending(w)
    \/ ResetFetch(w) \/ ResetDelete(w) \/ ResetZombie(w) \/ ResetPending(w)
    \/ CacheFileFree(w) \/ CacheFileTmpGet(w) \/ CacheFileTmp(w) \/ Ack(w)
    \/ TableEachNext(w) \/ Callback(w)

WorkerNext(w) == ~bug /\ ~Undefined(w) /\ (Event(w) \/ Step(w))

Next == \/ \E w \in Workers : WorkerNext(w)
        \/ \E f \in Files : ~bug /\ TimePasses(f)

Spec == Init /\ [][Next]_vars

\* The fairness of liveness: a thread inside a handler keeps running, and
\* every request ends, if need be by the timeout Monkey keeps for each
\* connection (_mkp_event_timeout).
LiveSpec == /\ Spec
            /\ \A w \in Workers : WF_vars(~bug /\ ~Undefined(w) /\ Step(w))
            /\ \A s \in Sockets :
                 SF_vars(~bug /\ EventDrop(WorkerOf[s], s))

------------------------------------------------------------------------------
(* Properties.  A disk file is one made by cache_file_new; the fields of a *)
(* file made by cache_file_tmp start with Garbage in them.                 *)

Disk(f) == f \in Files /\ evictable[f]

\* Types; and no handler goes on to use a null pointer (cache.c:390-396,
\* cache_file.c:61-68).
TypeOK ==
    /\ table \in [Uris -> Files \cup {NULL}]
    /\ alloc \subseteq Files
    /\ zombie \in [Files -> Int]
    /\ pending_reqs \in [Files -> Int]
    /\ evictable \in [Files -> BOOLEAN]
    /\ uri \in [Files -> Uris \cup {NULL}]
    /\ stale \in [Files -> BOOLEAN]
    /\ bug \in BOOLEAN
    /\ req \in [Sockets -> Files \cup {NULL}]
    /\ pc \in [Workers -> Labels]
    /\ op \in [Workers -> Ops]
    /\ sock \in [Workers -> Sockets \cup {NULL}]
    /\ key \in [Workers -> Uris \cup {NULL}]
    /\ ptr \in [Workers -> Files \cup {NULL}]
    /\ cur \in [Workers -> Uris \cup {NULL, Dangling}]
    /\ todo \in [Workers -> SUBSET Uris]
    /\ owner \in [Workers -> Files \cup {NULL}]
    /\ \A w \in Workers : pc[w] \in DerefLabels \cup {"add"} => ptr[w] \in Files

\* Whatever the workers do, a disk file found in the table is allocated and
\* not a zombie: the table never hands out a freed file (cache_file.c:61-68,
\* cache_req.c:94-98).
TableLive ==
    \A u \in Uris : Disk(table[u]) => /\ table[u] \in alloc
                                      /\ zombie[table[u]] = 0

\* Whatever the workers do, pending_reqs of a disk file is the number of
\* requests in curr_reqs that hold it (cache.c:407, cache_req.c:94).
RefCount ==
    \A f \in Files : Disk(f) => pending_reqs[f] = Cardinality(Holders(f))

\* No step touches a disk file after it was freed, the URI in it that its
\* eviction goes by included, nor frees it twice (cache_file.h:45-49: a zombie
\* lives until no pending request needs it; cache_file.c:86).
DiskAccessSafe ==
    \A w \in Workers :
        /\ pc[w] \in DerefLabels /\ Disk(ptr[w]) => ptr[w] \in alloc
        /\ Disk(owner[w]) => owner[w] \in alloc

\* The same for every file, those of the add API included.
AccessSafe ==
    \A w \in Workers : /\ pc[w] \in DerefLabels => ptr[w] \in alloc
                       /\ owner[w] # NULL => owner[w] \in alloc

\* Evicting records from inside table_each never pulls the record away from
\* under the cursor (unqlite_ht.c:46-56, cache_file.c:84-87).
CursorSafe == \A w \in Workers : pc[w] = "each" => cur[w] # Dangling

\* Between events, a disk file is either in the table under its URI or a
\* zombie that some request still holds: none is leaked (cache_file.c:61-68,
\* cache_req.c:96-98).
NoOrphan ==
    (\A w \in Workers : pc[w] = "idle") =>
        \A f \in alloc : Disk(f) => \/ table[uri[f]] = f
                                    \/ zombie[f] # 0 /\ Holders(f) # {}

\* The assertion mk_bug(cache_file_get(uri) != NULL) of cache_file_tmp
\* (cache_file.c:102) does not fire.
NoMkBug == ~bug

Tbl == INSTANCE Table WITH Keys <- Uris, Vals <- Files, Cursors <- Workers

\* The steps of all workers together use the table as Table has it, and are
\* told by it no more than Table promises: a file added while another worker
\* iterates may be met by it, one removed is not (unqlite_ht.c:46-56, 85-89).
TableSpec == Tbl!Spec

\* A disk file that left the table is freed in the end (cache_file.h:45-47:
\* "when they go to zero, it is freed and went to heaven").
ZombieReaped ==
    \A f \in Files : (f \in alloc /\ Disk(f) /\ zombie[f] # 0) ~> (f \notin alloc)
==============================================================================
