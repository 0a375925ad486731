# Verification of Monkey Cache

TLA+ modules about the cache plugin of the Monkey web server, the TLC runs that
check them on small instances, and theorems about them that TLAPS checks for
every value of the constants. `PROJECT.json` lists the components, the runs, the
lines each definition models, the hazards, the findings and the theorems.

## The system

Monkey runs one event loop per worker thread and calls the plugin's hooks from
it. The workers share the table of files and the files; each has its own list of
current requests and its own pools. Nothing is persisted.

| Component | Source | State | Operations | What makes it correct |
|---|---|---|---|---|
| File lifecycle | `cache_file.c` | `cache_file_t`: URI, mapping, pipes, `zombie`, `pending_reqs`, `evictable`, `last_accessed` | lookup, creation from disk, creation by the API, reset, eviction, free | a file lives while the table or a request has it, is freed once, is not lost |
| Hooks and API | `cache.c` | none of its own | stage 30, event read/write/error/timeout, `/cache/reset`, `/add`, `/stats`, `/webui` | a hook leaves requests and references in agreement; an answer tells the truth |
| Current requests, request pool | `curr_reqs.c`, `cache_req.c` | per worker: list of requests, pool of at most 32 | get, add, del, new, fill the current pipe | one request per connection; a reused one carries nothing over |
| Pipe buffers | `pipe_buf.c` | `filled`, `cap`, `write_mutex`, the kernel pipe; pool of 16 per worker; `pipe_mem_used` | new, free, flush, vmsplice | `filled` is what the pipe holds, and is what it should |
| Sending | `socket.c` | `bytes_offset`, `bytes_to_send`, `curr` of a request | the tee/splice loop | the client gets exactly the response, in the end |
| Table | `unqlite_ht.c` (`ht.c` is not linked) | URI to file | get, add, del, each | what was added and not deleted is found; each survives deletion |
| Timer | `timer.c` | a timerfd in every epoll set | read: statistics tick, eviction tick | one worker runs each tick |
| Statistics | `cache_stats.c` | per-thread counters | count, tick | every request is counted once |
| Buffers, MIME map | `utils.c`, `mime_map.c` | growable arrays | push, get; lookup by extension | no access beyond the array; the right type |
| Startup | `cache.c`, `*_init` | thread keys, the table | process and thread init | workers share one table |

Interactions: the server calls the hooks; stage 30 looks a file up or creates
it, takes a request from the pool, enters it in the current requests and counts
it in the file, prepares headers and first bytes, and sends what the socket
takes; later writability events send on; error, timeout or the last byte end the
request, which drops its reference and may free the file. Resets, additions and
the timer remove files from the table; a file still referenced becomes a zombie
and is freed by the last of its requests.

What is hard: workers share files without a lock around lookup and reference;
reference count and zombie flag are separate words; the table is deleted from
inside its iteration; a response goes through three kinds of pipe whose fill is
counted beside the kernel; sockets take any part of what is offered. The
hazards, each at its line, are in `PROJECT.json`.

## Modules

| Module | Models |
|---|---|
| `CacheFile` | life of a file: table, lookup, creation, reference, reset, eviction, add API, free |
| `CacheFileProofs` | its inductive invariant and theorems, for any number of workers |
| `CacheFileAloneProofs` | theorems about one worker: what the races of several break |
| `Table` | what the plugin relies on of the table of files |
| `MemHash` | the storage engine under it; implements `Table` |
| `MemHashProofs` | its inductive invariant, its theorems and the refinement |
| `ServeReq` | byte path of one file: its pipes, cached headers, requests, sockets |
| `ServeReqProofs` | its inductive invariant and theorem for any number of workers |
| `ServeReqAloneProofs` | theorems about one worker, and the refinement of `Response` |
| `Response` | what a client is promised; `ServeReq` implements it |
| `PipeBuf` | who has which pipe: pools of workers, of requests, files; locks left held |
| `PipeBufProofs` | its inductive invariant and theorems |
| `CacheStats` | start of the workers, their counters, the shared timer, the tick |
| `CacheStatsProofs` | its inductive invariant and theorems |
| `Router` | from a URI to the answer: API, web UI, keys, truncation, MIME type |
| `RouterProofs` | its inductive invariant and theorems |
| `BufVec` | `buf_t`, the growing array, as operators that `Router` uses |
| `Descriptors` | which descriptor is whose: those of files and of clients |
| `MCCacheFile`, `MCMemHash`, `MCServeReq`, `MCPipeBuf`, `MCCacheStats`, `MCRouter` | their instances |

Each module keeps one side of the system in full and makes the rest coarse:

- `CacheFile` has which file a request holds and the interleavings of lookup,
  reference, reset and free. It leaves out the bytes (`Serve` ends the request or
  keeps it).
- `ServeReq` has the bytes of one file that stays allocated.
- `PipeBuf` has files, requests and pools together, with each access to what workers
  share as a step, and of the bytes only whose they are and whether a pipe is empty,
  full or overfull. What happens after a use of freed memory it leaves out.
- `Router` has one request at a time, from its URI to its answer.
- `Table` joins `CacheFile` and the library: `CacheFile` uses no more than it
  (`UsesTable`), and `MemHash` provides no less (`ImplementsTable`); both are proved.

### CacheFile

State: `table` is the database of `unqlite_ht.c`; `alloc` the allocated
`cache_file_t`; `zombie`, `pending_reqs`, `evictable`, `uri` their fields;
`stale` stands for a `last_accessed` more than `MAX_FILE_IDLE` ago. `req` is the
union of the workers' `curr_reqs`. Each worker has a `pc`, the entry point it
serves (`op`) and its locals; `cur` and `todo` are the cursor of `table_each`,
with `Dangling` for one whose record was deleted under it.

Steps: every read or write of shared memory is a step of its own, and every call
of `unqlite_kv_fetch/store/delete` is one (the library is built with
`UNQLITE_ENABLE_THREADS`, Makefile.in:13, and takes its mutex in each). So
`cache_file_reset` is `ResetFetch; ResetDelete; ResetZombie; ResetPending;
CacheFileFree`, and the end of a request is `CacheReqDel; CacheReqDelZombie;
CacheReqDelPending; CacheFileFree`. Eviction passes `file->uri` on as a pointer
(cache_file.c:86): `owner` is the file that the key of `table_del` lies in, and
`table_del` reads it. Failing system calls are choices.

Memory: `mem_alloc` returns any address nothing points to. After a worker is
about to use freed memory it takes no further step; the properties say whether
that state is reached. Fields of `cache_file_tmp` that the code does not assign
start with any value of `Garbage`. A *disk file* is one made by
`cache_file_new`; most properties are about those, since the others can start
with any reference count (finding `file_overlay`).

| Run | Instance | Shows |
|---|---|---|
| `file_single` | 1 worker, 2 connections, 2 URIs, 2 files | disk files are never used after free (`DiskAccessSafe`) nor leaked (`NoOrphan`), and zombies are freed in the end (`ZombieReaped`); eviction never pulls the record from under its cursor (`CursorSafe`); a URI that was reset is out of the table when its successor is made (`NoMkBug`, the assertion of `cache_file_tmp`); the table hands out no freed or zombie disk file (`TableLive`), counts are exact (`RefCount`) and the table is used as `Table` allows (`TableSpec`) |
| `file_race` | 2 workers | a file freed between lookup and reference |
| `file_overlay` | 1 worker, fields of an added file hold 0 or 1 | a file of the add API freed while in use |

Bounds: two connections let a file have two references, and a zombie coexist with
its successor; two URIs let the cursor stand on one record while the other is
deleted. Unassigned fields hold 0 in `file_single` and `file_race`; the theorems
hold for any integers and any number of workers, and so cover the races that no
passing run has. There is no symmetry reduction, since the run checks liveness.

The same races break more than `file_race` shows. With two workers two files may
be added for one URI (the check at cache_file.c:192 and `table_add` are not
joined), the first of which is lost (`NoOrphan` fails), and the assertion at
cache_file.c:102 fires (`NoMkBug` fails). One root, one run. Two smaller things
the module shows by its actions alone: an addition that fails is answered as one
that succeeded (cache.c:252-253), and a file found by the second lookup, inside
`cache_file_new`, does not count as used (cache_file.c:192).

Fairness (`LiveSpec`): a thread inside a handler keeps running (weak fairness of
`Step`), and a connection that neither ends nor makes progress is timed out by
the server (`_mkp_event_timeout`; strong fairness of `EventDrop`, since the
worker must be idle for it).

Deadlock is not checked: a worker stops where the code's behaviour is undefined
or an assertion has ended the process.

### ServeReq

State: `cache` is `file->cache`, a sequence of pipes with the kernel's `data`, the
code's `filled` and whether `write_mutex` is held after a call; `headers` and
`header_len` are the cached headers. `req` has the counters of a request and its
own pipe (`buf`, `filled`); `pool` the pipes of the requests kept for reuse;
`rcvd` is what the client has got. A byte is its offset in the response as the
code counts it, the headers negative. A kernel pipe is a sequence of bytes. It
takes `Slots` buffers, each with bytes of one page at most; `Starts` finds in the
bytes where a buffer begins, so that `tee(2)` and `vmsplice(2)` stop when the
buffers are used up (`Fitting`), which for small pieces is before the bytes are.

Steps: one per system call or access to a shared pipe. `curr->filled` is read once
for the tests of cache_req.c:75-79, as an optimising compiler does, again under
the lock, again for the result (88) and again for the tee (socket.c:43).

Not modelled: errors of `tee(2)` and `vmsplice(2)` other than a full pipe, and the
server's sending of headers straight to the socket failing or being partial.

| Run | Instance | Shows |
|---|---|---|
| `serve_single` | 1 worker, 2 connections, pipes of 2 buffers of 2 bytes, header of 1, files of 1 to 9 bytes (1 to 3 pipes), pool of 1 | implements `Response` (`ResponseSpec`); a request whose client keeps reading ends (`Served`); counters agree with the kernel's pipes (`Accounting`); shared pipes hold just their part of the file (`CacheExact`); no assertion fires |
| `serve_multi` | 2 workers | the headers are written once (`HeadersOnce`) |
| `serve_tail` | pages of 3 bytes, a file of 4 | a file that fits behind the headers by bytes but not by pages hangs every request |
| `serve_overfill` | 2 workers | a pipe filled twice, which a request that had seen it complete goes on to send twice |

Bounds: the sizes are those around a page, a pipe less the headers, a pipe and
two pipes. With the real constants (128 pages of 4096 bytes) the files of
`serve_tail` are those between 508 KiB and 512 KiB less the headers. With pages
of two bytes and a header of one there is no such size, which is why
`serve_single` holds.

Fairness: a thread inside a handler keeps running; a writable socket is reported
again and again, and takes some bytes when asked over and over.

### Table and MemHash

`Table` is the promise: a map, and cursors that survive the deletion of any record
but their own, come to records added meanwhile, and never come back to one.

`MemHash` is the engine that `:mem:` selects in `unqlite.c` (mem_kv.c). The fields of
the records are functions of their addresses. A record is in the chain of its bucket
(`apBucket`, `pNextHash`, `pPrevHash`) and in one list of all (`pFirst`, `pLast`,
`pNext`, `pPrev`); `nBucket` doubles when there are too many records for it, and every
record is installed anew (`Rehash`). One call of the library is one step, since each
takes the database mutex; a cursor's calls do not, but only read a pointer. A
cursor left on a freed record takes no step.

| Run | Instance | Shows |
|---|---|---|
| `table` | 4 keys, 2 values, 2 cursors, 1 bucket at first, 1 record per bucket before it grows | the list has every record once, the same both ways (`ListExact`); chains and list agree through collisions, deletion and growth (`LookupAgrees`); the engine implements `Table` (`TableSpec`) |

Bounds: four records make the buckets grow twice, from one to two to four; the hash
values put all keys together at first, three of them after the first growth and two
after the second, so that chains of one to four records are made, split and cut at
head, middle and end.
Two cursors stand on different records while either is deleted. Records, cursors
and values are symmetric; keys are not.

### PipeBuf

State: `open` are the pipes allocated, `mem_used` the code's count of them; per
pipe `fill` (what `filled` says, as the code compares it), `data` (whose bytes the
kernel has in it) and `locked` (the mutex is held and nobody will release it).
`pool` is `pipe_buf_pool`, `reqpool` the pipes inside the requests of
`cache_req_pool`. `file` and `req` say which pipes a file and a request have, `arg`
is the URI or the file in a local variable of a handler.

Steps: each access of a hook to what workers share. Stage 30 is `Lookup; Make; Count`,
so that a file may go between its lookup and its reference. The end of a request is
`EndReq` (the count goes down), `EndTest` (is it a zombie without requests?) and
`EndFree`; a reset is `Reset; ResetMark; ResetTest; ResetFree`. The calls on a shared
pipe are `Fill`, the five outcomes of `pipe_buf_vmsplice`, `Headers`, `TeeCurr` and
the sends. What a worker does to pools of its own goes with the step before. `Shrink`
is somebody else cutting the mapped file: `vmsplice` then fails with the mutex held
(pipe_buf.c:92-99), or splices bytes twice. `pipe2` fails when no pipe is left. That
`table_add` fails, for want of memory, and `cache_file_new` gives the pipes back, is left
out.

Two workers that end the last requests of a zombie may both take its count down before
either looks at it, and then both free it: the steps allow it, and with two workers and
resets `FilesLive` fails of the model as of the code. It is the root that `file_race` shows.
A handler about to use a freed file takes no further step here (`Dangling`); in the code
any other property of the module may then fail too. So the properties are claimed, checked
and proved
where `Safe` holds: one worker, with everything it can do; or any number of workers as
long as no file is reset or evicted (`Resets`).

| Run | Instance | Shows |
|---|---|---|
| `pipes` | either 1 worker with 2 connections, resets and 5 pipes; or 2 workers with a connection each, no resets and 6 pipes; 1 URI, 2 files of 1 or 2 pipes, pools of 1 | no file is used after it was freed (`FilesLive`); a pipe is in one place, once (`PlacedOnce`) and counted (`MemUsed`), also when two workers create the file at once; a reused pipe brings no bytes of another file (`OwnBytes`); a lock is left held only by who fills from a file that was itself cut short (`LocksReleased`) |

The two cases are those of `Safe` (`case` in `MCPipeBuf`, chosen at the start).
`LocksReleased` is about two workers. Two that fill a pipe at once (`serve_overfill`)
leave bytes twice in it, for which it has buffers if its part is short; a third passes the
test of the bytes (pipe_buf.c:73), finds no buffer left and returns with the lock held
(92), though no file was cut. `VmspliceTwice` has that outcome, and with three workers
TLC finds the property violated.

Bounds: a file with two pipes and its headers, and two requests, use five pipes, all
that one worker may have open (`AloneOpen`). Two workers have six: what both take who
make the file of one URI at once, with a request each, and few enough for `pipe2` to
fail. Pools of one are empty, full and overflowing in the same run. Two files are a
zombie and its successor, or what two workers make of one URI. Files are symmetric, and
so are the connections of the worker that has two. Deadlock is not checked: a worker
waits for a held lock, or the process has aborted.

### CacheStats

State: `wid` and `mutex` give out records; `age`, `reqs_served`, `reqs_per_sec` are
the records; `now` and `ms` the locals of `cache_stats_thread_process`; `clock`,
`expired`, `woken` are the timerfd that is in every epoll set. `raced` and `owed`
remember what `CountExact` speaks of.

Steps: every access to a record that another thread may touch. A request reads and
writes its count in two steps. A tick goes through a record in five: it reads `start`
(`Process`), sets it (`Restart`), reads the count (`Read`), writes the rate (`Rate`) and
clears the count (`Clear`). A worker serves requests as soon as it has started itself.

| Run | Instance | Shows |
|---|---|---|
| `workers` | 2 workers, 2 requests, ticks each second | each worker has a record of its own (`OwnRecord`); every request is in one rate or still counted, unless a tick came to its record in the middle of it (`CountExact`); the rate shown goes to zero when requests stop, whatever overlapped before (`QuietIsZero`) |

Bounds: ages beyond twice a second are not told apart; two requests let a count
be torn, or cleared and counted on. Not told apart either: the two words of a
`timespec` that a tick writes while another reads it.

Not modelled: each worker that starts makes a new table of files for all
(cache_file.c:22). Files added before the last has started are lost, unless the server
lets no request in before; which of the two it does is not in this repository (hazard
cache_file.c:22).

Fairness (`LiveSpec`): time passes, a thread inside a handler runs, and the event
loop of a worker comes to a timer that stays reported (`WF` of each worker's
`Start`, `ReqCount`, `TimerRead`, `Tick`). No request has to come.

### Router and BufVec

State: `mime_map` is the array read from the configuration, `table` and `file` the
table of files, `answer` the last answer, `overlay` and `cut` what the properties
remember. A URI, a path, a key are sequences of tokens and their lengths count
tokens, so that truncation at `MAX_URI_LEN` and `MAX_PATH_LEN` is truncation.

Steps: one request is one step, with the branches of `_mkp_stage_30` as alternatives
(`ServeHit`, `ServeAdd`, `ServeReset`, `ServeStats`, `ServeWebui`, `ServeSite`, `NotMe`).
A terminator written one past the URI's array may or may not land in the path
(`PathsOf`). `cache_file_new` may fail though there is a file at the path, as `open`,
`mmap` or `table_add` does (`MayFail`): the request is then for others, after the web UI
has tried its path once more under the whole URI (cache.c:390). `BufVec` has `buf_init`,
`buf_push` and `buf_set` as the code computes
sizes; the run checks through `TypeOK` that nothing is written beyond the array, and
`RightType` that what was pushed is found.

| Run | Instance | Shows |
|---|---|---|
| `routes` | 15 URIs: site, web UI, calls, at lengths around the limit; 3 files; 2 bodies; 2 configurations | the body is the one added and not reset since, or the file at its own path (`RightBody`); the type is that of the first entry of the configuration (`RightType`); no file drops out of the table unless a URI came that does not fit (`NoneLost`) |

`RightBody` is about URIs for which the calls about them fit as well, and leaves out
those that contain `/webui`: a file of the web UI is stored under its URI without
`/cache`, and so shares its key with a page of the site of that name
(cache.c:384). Bounds: URIs of one token less than the limit, of just the
limit and beyond, and calls with two tokens more; a MIME map of one cell that three
entries make grow twice. Files are symmetric.

### Descriptors

`file->fd` is assigned nowhere: `cache_file_new` leaves the descriptor that it mapped
open, and `cache_file_free` closes whatever number the memory held, unless it is -1.
The kernel gives out the lowest free descriptor.

| Run | Instance | Shows |
|---|---|---|
| `file_fds` | 2 files, 2 clients, 4 descriptors, zeroed memory | freeing a file closes descriptor 0, freeing another the client that was given 0 next (`ClientsKeepTheirs` fails) |

## Proofs

`CacheFileProofs` proves, for any finite set of connections and any sets of
workers, URIs and files:

- `TypeCorrect`: `Spec => []TypeOK`. Types alone are not inductive: that the URI
  of an eviction is not null rests on `UnderOwnUri` (a record's file has the
  record's key), that a record under the cursor has a file on `CursorOnRecords`,
  that a handler has its connection and key on `LocalsSet`.
- `TableIsLive`: `Spec => []TableLive`. A file freed or made a zombie must be out
  of the table and stay out. The strengthening: a file between creation and
  `table_add` is known to its creator alone (`Private`), and one that a worker
  has removed is in the table no more (`LeftTable`).
- `RefCountExact`: `Spec => []RefCount`, from the above and `SockSet`: a
  connection about to get a request has none, so the count goes up by one just
  as the set of holders grows by one.
- `UsesTable`: `Spec => TableSpec`. Every step is a step of `Table` or leaves its
  state alone, so that nothing but what `MemHash` provides is relied on. The
  invariant is needed where a record is stored or deleted: a record has a file, and
  a handler its key.

The only assumption is `ConstantsAssumption`. All four hold for any number of
workers, and so in the presence of the races that break `DiskAccessSafe`.

`CacheFileAloneProofs` proves, under the hypothesis `Alone` that there is one worker,
for any number of connections, URIs and files and any garbage in unassigned fields:

- `AloneAccessSafe` (`DiskAccessSafe`), `AloneNoOrphan` (`NoOrphan`), `AloneCursorSafe`
  (`CursorSafe`) and `AloneNoMkBug` (`NoMkBug`). They are what several workers break
  (`file_race`), and the proof shows where one worker is needed: what a handler has
  found in the table or removed from it is still so at its next step (`KeyKnown`). On
  that, and on `RefCount`, rest `Alive` (a disk file that a request holds or the handler
  goes on to use is allocated, one about to be freed has no holder), `Accounted` (a
  disk file is in the table, a zombie that is held, or in the hands of the handler
  that will see to it), `CursorApart` (the cursor has left the record that is
  evicted) and `KeyAlive` (a file whose `uri` is the key of `table_del` is allocated).

`CacheStatsProofs` proves, for any finite set of workers, any number of requests and
any length of a second:

- `TypeCorrect`: `Spec => []TypeOK`. A rate is a number since no time it is divided by
  is 0 (`RateInv`): one is kept only if it came out as more than a second.
- `EachHasItsOwn`: `Spec => []OwnRecord`. The argument (`StartInv`): the records
  below `wid` are given out, one to each worker that has passed the lock, and the one
  inside the lock has record `wid`. So when a worker comes to claim one, the others
  that have theirs are as many as `wid`, which is less than the number of workers, and
  the assertion that aborts does not fire.
- `CountsAreExact`: `Spec => []CountExact`. The argument (`CountInv`): on a record
  where nothing has overlapped, a worker about to write its count has read the
  present one; a tick that clears a count other than the one it added up has
  overlapped with something, and is remembered as such.

The only assumption is `StatsAssumption`.

`PipeBufProofs` proves, under the hypothesis `Safe` (one worker, or no resets), for any
finite sets of connections and pipes, files of any number of pipes and any limits of the
pools (`PipeBufAssumption`):

- `NoFileFreedInUse` (`FilesLive`), `NoPipeLostOrShared` (`PlacedOnce`), `MemoryIsCounted`
  (`MemUsed`), `NoOthersBytes` (`OwnBytes`) and `PipeBufTypes` (`TypeOK`), all from one
  invariant (`Invariant`). `PlacedOnce` alone is not inductive: that the pipes of a file
  are given back once rests on `Control` (what the table, the requests and the handlers
  point to is there, and `pending` is how many requests are counted), `OwnBytes` on
  `PlacedOnce` (a pipe that one handler fills is in no other place) and on `Honest` (a
  pipe that the code takes for empty is, which is why flushing one by its count is
  enough). `Safe` is needed where a handler goes on with a file: nobody else has removed
  it since, as there is nobody else or nothing is removed.
- `NoLockLeftBehind` (`LocksReleased`), under the further hypothesis that there are two
  workers at most. The strengthening (`LocksSafe`): a pipe of a whole file that a worker
  is about to fill was not filled twice, and not even once if the other is about to fill
  it as well.

`RouterProofs` proves, for any URIs, bodies, configuration and lengths of the arrays
(`RouterAssumption`):

- `AnswersRight` (`RightBody`), `TypesRight` (`RightType`), `NoFileLost` (`NoneLost`) and
  `RouterTypes` (`TypeOK`). The argument: every record is found under its own file's
  URI (`IsTable`); the record of a URI that no call can cut (`Plain`) has the body that
  was added for it, or the path of its own, and is evictable just in the second case
  (`Holds`); the MIME map is what was read of the configuration so far (`MimeInv`), for
  which `buf_push` must double the array often enough.

  `RightBody` says nothing of a path that does not fit `MAX_PATH_LEN`: it is cut and
  names another file.

`MemHashProofs` proves, for any keys, values and cursors, any hash function, any finite
memory and any initial number of buckets (`MemHashAssumption`):

- `NoPointerLeft` (`TypeOK`), `ListIsExact` (`ListExact`), `LookupsAgree`
  (`LookupAgrees`). The invariant says that the records of the list, and those of every
  bucket, are `Chained`: linked one way in some order and the other way in the reverse,
  each once. That order is what `Follow` computes. Lemmas say what putting a record at
  the head, and taking one out at the head, in the middle and at the end, do to a
  chain; growth is the first of them for every record of the list.
- `ImplementsTable`: `Spec => TableSpec`. A store is an addition or a replacement, a
  deletion removes the key from the map and from what the cursors have yet to visit,
  and a cursor's step is a step along the list. With `UsesTable` it closes the gap
  between the plugin and the library.

`ServeReqProofs` proves, for any number of workers and connections and any sizes of
files, pages, pipes and headers (`ServeAssumption`; the headers fit a page):

- `HeadersAreOnce`: `Spec => []HeadersOnce`. One worker at most is past the lock
  (`OneLocks`); it finds the pipe empty, or leaves it; behind the headers come only bytes
  of the file, since no pipe of the cache has others and no request has come to one
  before its first; a request that duplicates the headers has an empty pipe, which
  takes all of them, for a pipe of the cache keeps to its buffers (`PipeIs`).

`ServeReqAloneProofs` proves, under the hypothesis `Alone`, for the same sizes:

- `AloneCacheExact` (`CacheExact`), `AloneAccounting` (`Accounting`), `AloneTypes`
  (`TypeOK`) and `AloneNoMkBug` (`NoMkBug`). The invariant (`AloneInv`) says where a request
  has come to (`Place`): at the first byte of its pipe, which is empty or has all of its
  part; or inside the first pipe, some of which came with the headers, and then the file
  is smaller than a pipe (`HeadersTail`); or past the last. So what is left to
  fill is nothing or a whole part, and a whole part always fits, as it begins at a page
  (`PagesFit`). With several workers a pipe may be filled twice (`serve_overfill`), and all
  of this fails.
- `AloneImplementsResponse`: `Spec => ResponseSpec`. A send is a delivery of the next
  bytes; `serve_req` returns 0 only with all of them sent; what ends a request otherwise
  finds it with bytes to send, for one that has none leaves `curr_reqs` at once
  (`Waiting`).

`AloneNoMkBug` has a second hypothesis, `MoreBuffers`: a pipe has two buffers or more. The
code's have 128 (`PIPE_SIZE`, constants.h:18). With one buffer the headers leave no room
for the file, and the assertion after `tee` (cache.c:215) fires for a small one.

Where a proof needs induction over a number (the smallest buffer count that fits, the
records rehashed so far) it takes the least counterexample, from the fact that `<` is
well-founded on the naturals.

### Only model-checked

Liveness (`ZombieReaped`, `Served`, `QuietIsZero`) is out of the prover's reach and stays
with TLC, and so do the runs that end in a violation. Every invariant, every action
property and every refinement of the passing runs is proved.

## Plan

What is left:

1. What is still true of `ServeReq` with several workers: which bytes a pipe may hold when
   two fill it at once, and from that which part of `Accounting` survives.
2. What is still true of `CacheFile` and of `PipeBuf` with several workers and resets:
   which files `file_race` can break, that only those are, and which pipes go with them.
3. The steps that the liveness properties rest on, as action properties.

## Not modelled

- `ht.c`: a table of the plugin's own that Makefile.in:9 does not link. Read only: its
  `table_del` returns with the mutex held when the bucket is empty (ht.c:120), and its
  test of the nodes behind the first takes keys that differ for equal ones.
- `socket_seve_req_fd` (socket.c:10): misspelled, so nothing calls it; `serve_req`
  would want it only for a file without a mapping, which is never created.
- The server: which events it reports, when, and for which descriptors. A
  connection closed without an event leaves its request behind (hazard
  cache.c:313).
- `*_exit` functions, `buf_compact`, `buf_reset`, `buf_free`, `table_free`: called by
  nothing or by the tests.
- The JSON of the statistics, logging, the page of the web UI, the tests.
- The rest of `unqlite.c` (disk engine, pager, journal, JX9, documents), `cJSON.c` and the
  libraries of the web UI: third-party, and but for the in-memory engine not run by the
  plugin. They are 96 in 100 of the repository's lines of C, so that the modules cover
  a small share of the whole and most of the plugin's own.
