----------------------------- MODULE CacheStats -----------------------------
(***************************************************************************)
(* The workers start (_mkp_core_thctx, cache.c), count their requests      *)
(* (cache_stats.c) and, once a second, one of them adds the counts up      *)
(* (timer.c).                                                              *)
(*                                                                         *)
(* Each worker has a record of its own in thread_stats, which nothing      *)
(* guards: the one that reads the timer reads and clears the records of    *)
(* all.  One timerfd is in the epoll set of every worker, edge-triggered:  *)
(* when it expires all are woken, and one gets the count.                  *)
(*                                                                         *)
(* Every read and write of a field that another thread may touch is a step *)
(* of its own.  A worker serves requests as soon as it has started itself, *)
(* whether the others have or not.  Time goes in units, Second of them to  *)
(* a second, and a moment (`start`, `tmp`) is kept as the time since then, *)
(* up to MaxAge.                                                           *)
(***************************************************************************)
EXTENDS Integers, FiniteSets

CONSTANTS
    Workers,        \* the worker threads
    Second,         \* units of time in a second
    MaxAge,         \* bound: ages beyond are not told apart
    MaxReqs,        \* bound: the requests that come
    NULL            \* no worker, no record

ASSUME StatsAssumption ==
    /\ IsFiniteSet(Workers)
    /\ Second \in Nat \ {0}
    /\ MaxAge \in Nat /\ MaxAge > Second
    /\ MaxReqs \in Nat
    /\ NULL \notin Workers \cup Nat

VARIABLES
    wid, mutex,     \* the next record to give out; who is in thread_init
    slot,           \* per worker: its record (a pthread key)
    age,            \* per record: time since `start`, NULL if never set
    reqs_served, reqs_per_sec,      \* per record
    total,          \* cache_stats.reqs_per_sec
    clock,          \* time since the timer expired last
    expired,        \* the timerfd has a count to read
    woken,          \* the workers whose epoll set reports the timerfd
    pc,             \* per worker: where it is
    tmp, i, sum,    \* per worker: the count it has read, and cache_stats_tick's
    now, ms,        \* per worker: cache_stats_thread_process's tmp and ms
    left,           \* the requests yet to come
    \* what the properties remember
    raced,          \* per record: a tick and a request or a tick overlapped;
    owed            \* per record: requests that no rate has yet, until raced

records == <<age, reqs_served, reqs_per_sec>>
startup == <<wid, mutex, slot>>
timer == <<clock, expired, woken>>
diff == <<now, ms>>
locals == <<tmp, i, sum, diff>>
ghosts == <<owed, raced>>
vars == <<startup, records, total, timer, pc, locals, left, ghosts>>

thread_num == Cardinality(Workers)
Records == 0 .. thread_num - 1

Init ==
    /\ wid = 0 /\ mutex = NULL
    /\ slot = [w \in Workers |-> NULL]
    /\ age = [r \in Records |-> NULL]
    /\ reqs_served = [r \in Records |-> 0]
    /\ reqs_per_sec = [r \in Records |-> 0]
    /\ total = 0
    /\ clock = 0 /\ expired = FALSE /\ woken = {}
    /\ pc = [w \in Workers |-> "new"]
    /\ tmp = [w \in Workers |-> 0]
    /\ i = [w \in Workers |-> 0]
    /\ sum = [w \in Workers |-> 0]
    /\ now = [w \in Workers |-> 0]
    /\ ms = [w \in Workers |-> 0]
    /\ left = MaxReqs
    /\ owed = [r \in Records |-> 0]
    /\ raced = [r \in Records |-> FALSE]

Goto(w, l) == pc' = [pc EXCEPT ![w] = l]

------------------------------------------------------------------------------
(* _mkp_core_thctx *)

\* Mutant: cache_stats_thread_init takes no lock.
LockNone(w) ==
    /\ pc[w] = "new"
    /\ Goto(w, "claim")
    /\ UNCHANGED <<startup, records, total, timer, locals, left, ghosts>>

Lock(w) ==
    /\ pc[w] = "new"
    /\ mutex = NULL
    /\ mutex' = w
    /\ Goto(w, "claim")
    /\ UNCHANGED <<wid, slot, records, total, timer, locals, left, ghosts>>

\* cache_stats_thread_init, under the lock: the record is initialised, then
\* wid moves on.  Beyond thread_num records the process aborts.  A tick may be
\* at the record, but can only have left zeroes there: `start` alone changes.
Claim(w) ==
    /\ pc[w] = "claim"
    /\ IF wid < thread_num
       THEN /\ slot' = [slot EXCEPT ![w] = wid]
            /\ age' = [age EXCEPT ![wid] = 0]
            /\ reqs_served' = [reqs_served EXCEPT ![wid] = 0]
            /\ reqs_per_sec' = [reqs_per_sec EXCEPT ![wid] = 0]
            /\ Goto(w, "unlock")
       ELSE /\ Goto(w, "abort")
            /\ UNCHANGED <<slot, records>>
    /\ UNCHANGED <<wid, mutex, total, timer, locals, left, ghosts>>

Unlock(w) ==
    /\ pc[w] = "unlock"
    /\ wid' = wid + 1
    /\ mutex' = NULL
    /\ Goto(w, "timer")
    /\ UNCHANGED <<slot, records, total, timer, locals, left, ghosts>>

\* timer_thread_init; the worker enters its event loop.
AddTimer(w) ==
    /\ pc[w] = "timer"
    /\ woken' = IF expired THEN woken \cup {w} ELSE woken
    /\ Goto(w, "idle")
    /\ UNCHANGED <<startup, records, total, clock, expired, locals,
                   left, ghosts>>

StartLabels == {"new", "claim", "unlock", "timer", "abort"}
Starting(w) == pc[w] \in StartLabels

------------------------------------------------------------------------------
(* Requests *)

\* cache_stats_req_new reads its count ...
ReqNew(w) ==
    /\ pc[w] = "idle" /\ left > 0
    /\ left' = left - 1
    /\ tmp' = [tmp EXCEPT ![w] = reqs_served[slot[w]]]
    /\ Goto(w, "count")
    /\ UNCHANGED <<startup, records, total, timer, i, sum, diff, ghosts>>

\* ... and writes it.
ReqCount(w) ==
    /\ pc[w] = "count"
    /\ reqs_served' = [reqs_served EXCEPT ![slot[w]] = tmp[w] + 1]
    /\ owed' = [owed EXCEPT ![slot[w]] = IF raced[slot[w]] THEN 0 ELSE @ + 1]
    /\ tmp' = [tmp EXCEPT ![w] = 0]
    /\ Goto(w, "idle")
    /\ UNCHANGED <<startup, age, reqs_per_sec, total, timer, i, sum, diff,
                   left, raced>>

------------------------------------------------------------------------------
(* timer_read *)

\* Of the workers that are woken the first reads the count, and ticks.
TimerRead(w) ==
    /\ pc[w] = "idle" /\ w \in woken
    /\ woken' = woken \ {w}
    /\ expired' = FALSE
    /\ Goto(w, IF expired THEN "process" ELSE "idle")
    /\ UNCHANGED <<startup, records, total, clock, locals, left, ghosts>>

\* get_time_diff_ms is more than 1000; the difference to a `start` that was
\* never set does not fit an int and may be anything.
Due(r) == {d \in BOOLEAN : age[r] = NULL \/ d = (age[r] > Second)}

\* Mutant: a worker that served nothing is passed over.
ProcessBusyOnly(w) ==
    LET r == i[w]
    IN  /\ pc[w] = "process"
        /\ \E due \in Due(r) :
             IF due /\ reqs_served[r] > 0
             THEN ms' = [ms EXCEPT ![w] = age[r]] /\ Goto(w, "restart")
             ELSE UNCHANGED ms /\ Goto(w, "sum")
        /\ UNCHANGED <<startup, records, total, timer, tmp, i, sum, now, left,
                       ghosts>>

\* cache_stats_thread_process: the time since the `start` of record i ...
Process(w) ==
    LET r == i[w]
    IN  /\ pc[w] = "process"
        /\ \E due \in Due(r) :
             IF due
             THEN ms' = [ms EXCEPT ![w] = age[r]] /\ Goto(w, "restart")
             ELSE UNCHANGED ms /\ Goto(w, "sum")
        /\ UNCHANGED <<startup, records, total, timer, tmp, i, sum, now, left,
                       ghosts>>

\* ... which is set to the time read before the test ...
Restart(w) ==
    /\ pc[w] = "restart"
    /\ age' = [age EXCEPT ![i[w]] = now[w]]
    /\ now' = [now EXCEPT ![w] = 0]
    /\ Goto(w, "read")
    /\ UNCHANGED <<startup, reqs_served, reqs_per_sec, total, timer, tmp, i, sum,
                   ms, left, ghosts>>

\* ... the count is read ...
Read(w) ==
    /\ pc[w] = "read"
    /\ tmp' = [tmp EXCEPT ![w] = reqs_served[i[w]]]
    /\ Goto(w, "rate")
    /\ UNCHANGED <<startup, records, total, timer, i, sum, diff, left, ghosts>>

\* What n requests in `length` come to a second; in a time that does not fit
\* an int, but came out as more than a second, anything up to n.
Rates(n, length) ==
    IF length = NULL THEN 0 .. n
    ELSE {(n * Second) \div length}

\* ... the rate written ...
Rate(w) ==
    /\ pc[w] = "rate"
    /\ \E rate \in Rates(tmp[w], ms[w]) :
         reqs_per_sec' = [reqs_per_sec EXCEPT ![i[w]] = rate]
    /\ ms' = [ms EXCEPT ![w] = 0]
    /\ Goto(w, "clear")
    /\ UNCHANGED <<startup, age, reqs_served, total, timer, tmp, i, sum, now,
                   left, ghosts>>

\* Something else happened to record r since w read its count, or is about to.
Overlap(w, r) ==
    \/ reqs_served[r] # tmp[w]
    \/ \E v \in Workers \ {w} : \/ pc[v] = "count" /\ slot[v] = r
                                \/ pc[v] \in {"rate", "clear"} /\ i[v] = r

Remember(w, r) ==
    /\ raced' = [raced EXCEPT ![r] = @ \/ Overlap(w, r)]
    /\ owed' = [owed EXCEPT ![r] = IF raced'[r] THEN 0 ELSE @ - tmp[w]]

\* Mutant: only the rate is computed.
ClearNothing(w) ==
    LET r == i[w]
    IN  /\ pc[w] = "clear"
        /\ tmp' = [tmp EXCEPT ![w] = 0]
        /\ Remember(w, r)
        /\ Goto(w, "sum")
        /\ UNCHANGED <<startup, records, total, timer, i, sum, diff, left>>

\* ... and its count starts again.
Clear(w) ==
    LET r == i[w]
    IN  /\ pc[w] = "clear"
        /\ reqs_served' = [reqs_served EXCEPT ![r] = 0]
        /\ tmp' = [tmp EXCEPT ![w] = 0]
        /\ Remember(w, r)
        /\ Goto(w, "sum")
        /\ UNCHANGED <<startup, age, reqs_per_sec, total, timer, i, sum, diff,
                       left>>

\* Mutant: a record too many.
SumOneMore(w) ==
    /\ pc[w] = "sum"
    /\ sum' = [sum EXCEPT ![w] = @ + reqs_per_sec[i[w]]]
    /\ IF i[w] < thread_num
       THEN i' = [i EXCEPT ![w] = @ + 1] /\ Goto(w, "process")
       ELSE UNCHANGED i /\ Goto(w, "publish")
    /\ UNCHANGED <<startup, records, total, timer, tmp, diff, left, ghosts>>

\* cache_stats_tick adds the rates up.
Sum(w) ==
    /\ pc[w] = "sum"
    /\ sum' = [sum EXCEPT ![w] = @ + reqs_per_sec[i[w]]]
    /\ IF i[w] + 1 < thread_num
       THEN i' = [i EXCEPT ![w] = @ + 1] /\ Goto(w, "process")
       ELSE UNCHANGED i /\ Goto(w, "publish")
    /\ UNCHANGED <<startup, records, total, timer, tmp, diff, left, ghosts>>

Publish(w) ==
    /\ pc[w] = "publish"
    /\ total' = sum[w]
    /\ i' = [i EXCEPT ![w] = 0]
    /\ sum' = [sum EXCEPT ![w] = 0]
    /\ Goto(w, "idle")
    /\ UNCHANGED <<startup, records, timer, tmp, diff, left, ghosts>>

------------------------------------------------------------------------------
(* Time *)

\* timer_process_init: the timer expires every second, and wakes every
\* worker that has it in its epoll set.
Elapse ==
    /\ age' = [r \in Records |-> IF age[r] \in 0 .. MaxAge - 1
                                 THEN age[r] + 1 ELSE age[r]]
    /\ now' = [w \in Workers |-> IF pc[w] = "restart" /\ now[w] < MaxAge
                                THEN now[w] + 1 ELSE now[w]]
    /\ IF clock + 1 = Second
       THEN /\ clock' = 0
            /\ expired' = TRUE
            /\ woken' = {w \in Workers : ~Starting(w)}
       ELSE /\ clock' = clock + 1
            /\ UNCHANGED <<expired, woken>>
    /\ UNCHANGED <<startup, reqs_served, reqs_per_sec, total, pc,
                   tmp, i, sum, ms, left, ghosts>>

------------------------------------------------------------------------------
Start(w) == Lock(w) \/ Claim(w) \/ Unlock(w) \/ AddTimer(w)
Tick(w) == \/ Process(w) \/ Restart(w) \/ Read(w) \/ Rate(w) \/ Clear(w)
           \/ Sum(w) \/ Publish(w)

Next ==
    \/ Elapse
    \/ \E w \in Workers : \/ Start(w) \/ ReqNew(w) \/ ReqCount(w)
                          \/ TimerRead(w) \/ Tick(w)

Spec == Init /\ [][Next]_vars

\* Threads run, time passes, and the event loop of some worker comes to the
\* timer.
LiveSpec ==
    /\ Spec
    /\ WF_vars(Elapse)
    /\ \A w \in Workers : WF_vars(Start(w) \/ ReqCount(w) \/ TimerRead(w) \/ Tick(w))

------------------------------------------------------------------------------
(* Properties *)

\* Types; the tick stays within thread_stats (cache_stats.c:55).
TypeOK ==
    /\ wid \in 0 .. thread_num /\ mutex \in Workers \cup {NULL}
    /\ slot \in [Workers -> Records \cup {NULL}]
    /\ age \in [Records -> 0 .. MaxAge \cup {NULL}]
    /\ reqs_served \in [Records -> Nat]
    /\ reqs_per_sec \in [Records -> Nat]
    /\ total \in Nat
    /\ pc \in [Workers -> StartLabels \cup {"idle", "count", "process", "restart",
                                          "read", "rate", "clear", "sum",
                                          "publish"}]
    /\ tmp \in [Workers -> Nat] /\ sum \in [Workers -> Nat]
    /\ i \in [Workers -> Records] /\ now \in [Workers -> 0 .. MaxAge]
    /\ ms \in [Workers -> 0 .. MaxAge \cup {NULL}]
    /\ owed \in [Records -> Int]
    /\ raced \in [Records -> BOOLEAN]
    /\ \A w \in Workers : pc[w] \in {"count", "idle"} => slot[w] # NULL

\* Each worker counts in a record of its own, and there is one for each
\* (cache_stats.c:24-37).
OwnRecord ==
    \A v, w \in Workers :
        /\ pc[w] # "abort"
        /\ v # w /\ slot[v] # NULL => slot[v] # slot[w]

\* Every request of a worker is in exactly one rate or still counted: a record
\* counts those that no rate has yet, unless a tick came to it in the middle
\* of a request, or of another tick (cache_stats.c:46-50, 66).
CountExact ==
    \A r \in Records : raced[r] \/ reqs_served[r] = owed[r]

\* When requests stop the rate that is shown goes down to zero, whatever
\* ticks and requests overlapped before (cache_stats.c:53-61).
QuietIsZero == <>[](total = 0)
==============================================================================
