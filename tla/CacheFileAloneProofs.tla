------------------------- MODULE CacheFileAloneProofs -------------------------
(* Theorems about CacheFile with one worker, for any number of connections, *)
(* URIs and files: what the races of several workers break.                 *)
EXTENDS CacheFileProofs

(***************************************************************************)
(* The inductive invariant, next to IInv, SockSet and RefCount.            *)
(***************************************************************************)

\* There is one worker.
Alone == \A v, w \in Workers : v = w

\* Which entry point each place belongs to.
OpSet ==
    \A w \in Workers :
        /\ pc[w] = "idle" => op[w] = "none"
        /\ pc[w] \in {"get", "touch", "new", "open", "ref"} => op[w] = "stage"
        /\ pc[w] = "add" => op[w] \in {"stage", "add"}
        /\ pc[w] \in {"serve", "del", "delz", "delp"} => op[w] \in {"stage", "event"}
        /\ pc[w] \in {"rfetch", "rdel", "rzombie", "rpend"} =>
             op[w] \in {"reset", "add", "tick"}
        /\ pc[w] = "free" => op[w] \in {"stage", "event", "reset", "add", "tick"}
        /\ pc[w] \in {"tmpget", "tmpopen"} => op[w] = "add"
        /\ pc[w] = "ack" => op[w] \in {"reset", "add"}
        /\ pc[w] \in {"each", "cb"} => op[w] \in {"tick", "stats"}

\* The cursor has moved on from the record that is evicted.
CursorApart ==
    \A w \in Workers :
        /\ cur[w] # Dangling
        /\ cur[w] \notin todo[w]
        /\ op[w] \notin {"tick", "stats"} => cur[w] = NULL
        /\ pc[w] = "cb" => uri[ptr[w]] # cur[w]
        /\ pc[w] \in {"rfetch", "rdel"} => key[w] # cur[w]

\* What the handler has found in the table, or removed from it, is still so.
KeyKnown ==
    \A w \in Workers :
        /\ pc[w] = "rdel" => ptr[w] = table[key[w]]
        /\ \/ pc[w] \in {"open", "add", "rzombie", "rpend", "tmpget", "tmpopen"}
           \/ pc[w] = "free" /\ op[w] = "add"
           => table[key[w]] = NULL

\* Requests hold, and the handler goes on to use, allocated files; one that
\* is freed has no holder.
Alive ==
    /\ \A s \in Sockets : Disk(req[s]) => req[s] \in alloc
    /\ \A w \in Workers :
         /\ pc[w] \in DerefLabels \cup {"rdel"} /\ Disk(ptr[w]) => ptr[w] \in alloc
         /\ pc[w] = "free" /\ Disk(ptr[w]) => Holders(ptr[w]) = {}

\* The URI that an eviction goes by is in an allocated file.
KeyAlive ==
    \A w \in Workers : owner[w] # NULL => /\ pc[w] \in {"rfetch", "rdel"}
                                         /\ owner[w] \in alloc

\* The handler at hand will put f into the table, or see to its end.
CaredFor(w, f) ==
    /\ ptr[w] = f
    /\ \/ pc[w] \in {"add", "rzombie", "rpend", "free"}
       \/ pc[w] \in {"delz", "delp"} /\ zombie[f] # 0

\* A file is in the table, a zombie that is held, or in good hands.
Accounted ==
    /\ \A w \in Workers : pc[w] \in {"rpend", "delp"} => zombie[ptr[w]] # 0
    /\ \A f \in alloc :
         Disk(f) => \/ table[uri[f]] = f
                    \/ zombie[f] # 0 /\ Holders(f) # {}
                    \/ \E w \in Workers : CaredFor(w, f)

AloneInv == /\ OpSet
            /\ CursorApart
            /\ KeyKnown
            /\ Alive
            /\ KeyAlive
            /\ Accounted
            /\ ~bug

Known == IInv /\ SockSet /\ RefCount /\ AloneInv

USE DEF shared, fields, cursor, locals, Goto

(***************************************************************************)
(* Each part is kept by every step of the worker.                          *)
(***************************************************************************)

LEMMA OpStep ==
    ASSUME IInv, OpSet, NEW w \in Workers, WorkerNext(w)
    PROVE  OpSet'
<1> USE DEF OpSet
<1>0. TypeOK
  BY DEF IInv
<1>1. CASE Event(w)
  BY <1>0, <1>1 DEF Event, Stage30, EventWrite, EventDrop, ServeReset, ServeAdd,
     TableEach, Enter, TypeOK
<1>2. CASE CacheFileGet(w) \/ CacheFileTouch(w) \/ CacheFileNew(w)
  BY <1>0, <1>2 DEF CacheFileGet, CacheFileTouch, CacheFileNew, Return, TypeOK
<1>3. CASE CacheFileOpen(w) \/ TableAdd(w)
  <2>1. \/ Return(w)
        \/ /\ UNCHANGED op
           /\ \/ pc[w] = "open" /\ Goto(w, "add")
              \/ /\ pc[w] = "add"
                 /\ Goto(w, IF op[w] = "add" THEN "ack" ELSE "ref")
    BY <1>3 DEF CacheFileOpen, TableAdd
  <2> QED
    BY <1>0, <2>1 DEF Return, TypeOK
<1>4. CASE Ref(w) \/ Serve(w) \/ CacheReqDel(w) \/ CacheReqDelZombie(w)
           \/ CacheReqDelPending(w)
  BY <1>0, <1>4 DEF Ref, Serve, CacheReqDel, CacheReqDelZombie,
     CacheReqDelPending, Return, TypeOK
<1>5. CASE ResetFetch(w) \/ ResetDelete(w) \/ ResetZombie(w) \/ ResetPending(w)
           \/ CacheFileFree(w)
  <2>1. \/ Return(w)
        \/ /\ UNCHANGED op
           /\ \/ pc[w] = "rfetch" /\ Goto(w, "rdel")
              \/ pc[w] = "rdel" /\ (Goto(w, AfterReset(w)) \/ Goto(w, "rzombie"))
              \/ pc[w] = "rzombie" /\ Goto(w, "rpend")
              \/ pc[w] = "rpend" /\ (Goto(w, AfterReset(w)) \/ Goto(w, "free"))
              \/ /\ pc[w] = "free" /\ op[w] \notin {"stage", "event"}
                 /\ Goto(w, AfterReset(w))
    BY <1>5 DEF ResetFetch, ResetDelete, ResetZombie, ResetPending, CacheFileFree
  <2> QED
    BY <1>0, <2>1 DEF Return, AfterReset, TypeOK
<1>6. CASE CacheFileTmpGet(w) \/ CacheFileTmp(w) \/ Ack(w) \/ TableEachNext(w)
           \/ Callback(w)
  <2>1. \/ Return(w)
        \/ /\ UNCHANGED op
           /\ \/ pc[w] = "tmpget" /\ Goto(w, "tmpopen")
              \/ pc[w] = "tmpopen" /\ (Goto(w, "ack") \/ Goto(w, "add"))
              \/ pc[w] = "each" /\ Goto(w, "cb")
              \/ pc[w] = "cb" /\ op[w] = "tick" /\ Goto(w, "rfetch")
              \/ pc[w] = "cb" /\ Goto(w, "each")
    BY <1>6 DEF CacheFileTmpGet, CacheFileTmp, Ack, TableEachNext, Callback
  <2> QED
    BY <1>0, <2>1 DEF Return, TypeOK
<1> QED
  BY <1>1, <1>2, <1>3, <1>4, <1>5, <1>6 DEF WorkerNext, Step

LEMMA CursorStep ==
    ASSUME Alone, Known, NEW w \in Workers, WorkerNext(w)
    PROVE  CursorApart'
<1> USE ConstantsAssumption DEF AloneInv, Known
<1>0. TypeOK /\ CursorApart /\ OpSet /\ \A v \in Workers : v = w
  BY DEF IInv, Alone
<1> SUFFICES /\ cur'[w] # Dangling
             /\ cur'[w] \notin todo'[w]
             /\ op'[w] \notin {"tick", "stats"} => cur'[w] = NULL
             /\ pc'[w] = "cb" => uri'[ptr'[w]] # cur'[w]
             /\ pc'[w] \in {"rfetch", "rdel"} => key'[w] # cur'[w]
  BY <1>0 DEF CursorApart
<1>1. CASE TableEach(w)
  <2>1. cur'[w] \in Uris \cup {NULL} /\ cur'[w] \notin todo'[w]
    BY <1>0, <1>1 DEF TableEach, Advance, Keys, TypeOK
  <2>2. op'[w] \in {"tick", "stats"} /\ pc'[w] = "each"
    BY <1>0, <1>1 DEF TableEach, Enter, TypeOK
  <2> QED
    BY <2>1, <2>2
<1>2. CASE Event(w) /\ ~TableEach(w)
  <2>1. UNCHANGED <<cur, todo>> /\ cur[w] = NULL
    BY <1>0, <1>2 DEF Event, Stage30, EventWrite, EventDrop, ServeReset,
       ServeAdd, Enter, OpSet, CursorApart
  <2>2. pc'[w] # "cb" /\ (pc'[w] = "rfetch" => key'[w] # NULL) /\ pc'[w] # "rdel"
    BY <1>0, <1>2 DEF Event, Stage30, EventWrite, EventDrop, ServeReset,
       ServeAdd, Enter, TypeOK
  <2> QED
    BY <1>0, <2>1, <2>2 DEF CursorApart
<1>3. CASE TableEachNext(w)
  <2>1. CASE Return(w)
    <3>1. cur[w] = NULL
      BY <1>0, <1>3, <2>1 DEF TableEachNext, Return, TypeOK
    <3> QED
      BY <1>0, <2>1, <3>1 DEF Return, CursorApart, TypeOK
  <2>2. CASE cur[w] # NULL /\ ptr' = [ptr EXCEPT ![w] = table[cur[w]]]
             /\ Advance(w, todo[w]) /\ Goto(w, "cb") /\ UNCHANGED <<op, key>>
    <3>1. cur[w] \in Uris /\ uri[table[cur[w]]] = cur[w]
      BY <1>0, <2>2 DEF IInv, CursorApart, CursorOnRecords, UnderOwnUri, TypeOK
    <3>2. cur'[w] \in todo[w] \cup {NULL} /\ cur'[w] \notin todo'[w]
      BY <1>0, <2>2 DEF Advance, TypeOK
    <3>3. UNCHANGED uri
      BY <1>3 DEF TableEachNext
    <3>4. pc'[w] = "cb" /\ op'[w] \in {"tick", "stats"}
          /\ ptr'[w] = table[cur[w]]
      BY <1>0, <1>3, <2>2 DEF TableEachNext, OpSet, TypeOK
    <3> QED
      BY <1>0, <3>1, <3>2, <3>3, <3>4 DEF CursorApart, TypeOK
  <2> QED
    BY <1>3, <2>1, <2>2 DEF TableEachNext
<1>4. CASE ResetDelete(w)
  <2>1. cur[w] # key[w] /\ Unlink(key[w])
    BY <1>0, <1>4 DEF ResetDelete, CursorApart
  <2>2. cur'[w] = cur[w] /\ todo'[w] \subseteq todo[w]
    BY <1>0, <2>1 DEF Unlink, TypeOK
  <2>3. UNCHANGED op /\ pc'[w] \notin {"cb", "rfetch", "rdel"}
    BY <1>0, <1>4 DEF ResetDelete, AfterReset, TypeOK
  <2> QED
    BY <1>0, <2>2, <2>3 DEF CursorApart
<1>5. CASE TableAdd(w)
  <2>1. cur[w] = NULL
    BY <1>0, <1>5 DEF TableAdd, OpSet, CursorApart
  <2>2. cur'[w] = NULL /\ todo'[w] = todo[w]
    BY <1>0, <1>5, <2>1 DEF TableAdd, Link, Return, TypeOK
  <2>3. pc'[w] \notin {"cb", "rfetch", "rdel"}
    BY <1>0, <1>5 DEF TableAdd, Return, TypeOK
  <2> QED
    BY <1>0, <2>1, <2>2, <2>3 DEF CursorApart
<1>6. CASE Callback(w)
  <2>1. /\ UNCHANGED <<op, cur, todo>> /\ op[w] \in {"tick", "stats"}
        /\ \/ pc'[w] = "rfetch" /\ key'[w] = uri[ptr[w]] /\ uri[ptr[w]] # cur[w]
           \/ pc'[w] = "each"
    BY <1>0, <1>6 DEF Callback, OpSet, CursorApart, TypeOK
  <2> QED
    BY <1>0, <2>1 DEF CursorApart
<1>7. CASE Step(w) /\ ~TableEachNext(w) /\ ~ResetDelete(w) /\ ~TableAdd(w)
           /\ ~Callback(w)
  <2>1. UNCHANGED <<cur, todo>>
    BY <1>7, OtherSteps DEF Step, TableEach, Enter, CacheFileGet, CacheFileTouch,
       CacheFileNew, CacheFileOpen, Ref, Serve, CacheReqDel, CacheReqDelZombie,
       CacheReqDelPending, ResetFetch, ResetZombie, ResetPending, CacheFileFree,
       CacheFileTmpGet, CacheFileTmp, Ack, Return
  <2>2. /\ \/ UNCHANGED op
           \/ op'[w] = "none" /\ op[w] \notin {"tick", "stats"}
        /\ \/ pc'[w] \notin {"cb", "rfetch", "rdel"}
           \/ pc'[w] = "rdel" /\ pc[w] = "rfetch" /\ UNCHANGED key
    <3>1. CASE CacheFileGet(w) \/ CacheFileTouch(w) \/ CacheFileNew(w)
      BY <1>0, <3>1 DEF CacheFileGet, CacheFileTouch, CacheFileNew, Return,
         TypeOK, OpSet
    <3>2. CASE CacheFileOpen(w) \/ CacheFileTmp(w)
      <4>1. \/ Return(w)
            \/ UNCHANGED op /\ \E l \in {"add", "ack"} : Goto(w, l)
        BY <3>2 DEF CacheFileOpen, CacheFileTmp
      <4>2. op[w] \notin {"tick", "stats"}
        BY <1>0, <3>2 DEF CacheFileOpen, CacheFileTmp, OpSet
      <4> QED
        BY <1>0, <4>1, <4>2 DEF Return, TypeOK
    <3>3. CASE Ref(w) \/ Serve(w) \/ CacheReqDel(w) \/ CacheReqDelZombie(w)
               \/ CacheReqDelPending(w)
      BY <1>0, <3>3 DEF Ref, Serve, CacheReqDel, CacheReqDelZombie,
         CacheReqDelPending, Return, TypeOK, OpSet
    <3>4. CASE ResetFetch(w) \/ ResetZombie(w) \/ ResetPending(w)
               \/ CacheFileTmpGet(w)
      BY <1>0, <3>4 DEF ResetFetch, ResetZombie, ResetPending, CacheFileTmpGet,
         AfterReset, TypeOK
    <3>5. CASE CacheFileFree(w)
      BY <1>0, <3>5 DEF CacheFileFree, Return, AfterReset, TypeOK
    <3>6. CASE Ack(w)
      BY <1>0, <2>1, <3>6 DEF Ack, Return, TypeOK, OpSet
    <3> QED
      BY <1>7, <3>1, <3>2, <3>3, <3>4, <3>5, <3>6 DEF Step
  <2> QED
    BY <1>0, <2>1, <2>2 DEF CursorApart
<1> QED
  BY <1>1, <1>2, <1>3, <1>4, <1>5, <1>6, <1>7 DEF WorkerNext

LEMMA KeyStep ==
    ASSUME Alone, Known, NEW w \in Workers, WorkerNext(w)
    PROVE  KeyKnown' /\ ~bug'
<1> USE ConstantsAssumption DEF AloneInv, Known
<1>0. TypeOK /\ KeyKnown /\ OpSet /\ ~bug /\ \A v \in Workers : v = w
  BY DEF IInv, Alone
<1> SUFFICES /\ pc'[w] = "rdel" => ptr'[w] = table'[key'[w]]
             /\ \/ pc'[w] \in {"open", "add", "rzombie", "rpend", "tmpget", "tmpopen"}
                \/ pc'[w] = "free" /\ op'[w] = "add"
                => table'[key'[w]] = NULL
             /\ ~bug'
  BY <1>0 DEF KeyKnown
<1>1. CASE Event(w)
  BY <1>0, <1>1 DEF Event, Stage30, EventWrite, EventDrop, ServeReset, ServeAdd,
     TableEach, Enter, TypeOK
<1>2. CASE CacheFileGet(w) \/ CacheFileTouch(w) \/ CacheFileNew(w)
  BY <1>0, <1>2 DEF CacheFileGet, CacheFileTouch, CacheFileNew, Return, TypeOK
<1>3. CASE CacheFileOpen(w) \/ CacheFileTmp(w)
  <2>1. /\ UNCHANGED <<table, bug>>
        /\ \/ Return(w)
           \/ UNCHANGED key /\ pc[w] \in {"open", "tmpopen"}
              /\ \E l \in {"add", "ack"} : Goto(w, l)
    BY <1>3 DEF CacheFileOpen, CacheFileTmp
  <2> QED
    BY <1>0, <2>1 DEF Return, KeyKnown, TypeOK
<1>4. CASE TableAdd(w)
  <2>1. UNCHANGED bug /\ pc'[w] \in {"ack", "ref", "idle"}
    BY <1>0, <1>4 DEF TableAdd, Return, TypeOK
  <2> QED
    BY <1>0, <2>1
<1>5. CASE Ref(w) \/ Serve(w) \/ CacheReqDel(w) \/ CacheReqDelZombie(w)
           \/ CacheReqDelPending(w)
  BY <1>0, <1>5 DEF Ref, Serve, CacheReqDel, CacheReqDelZombie,
     CacheReqDelPending, Return, OpSet, TypeOK
<1>6. CASE ResetFetch(w) \/ ResetZombie(w)
  BY <1>0, <1>6 DEF ResetFetch, ResetZombie, KeyKnown, TypeOK
<1>7. CASE ResetDelete(w)
  <2>1. key[w] \in Uris /\ table' = [table EXCEPT ![key[w]] = NULL]
    BY <1>7 DEF ResetDelete, Unlink, IInv, LocalsSet
  <2>2. UNCHANGED <<key, bug>> /\ pc'[w] # "rdel"
    BY <1>0, <1>7 DEF ResetDelete, AfterReset, TypeOK
  <2> QED
    BY <1>0, <2>1, <2>2 DEF TypeOK
<1>8. CASE ResetPending(w) \/ CacheFileFree(w)
  <2>1. /\ UNCHANGED <<table, bug>>
        /\ \/ Return(w)
           \/ /\ UNCHANGED <<key, op>>
              /\ \/ pc[w] = "rpend" /\ Goto(w, "free")
                 \/ pc[w] \in {"rpend", "free"} /\ Goto(w, AfterReset(w))
    BY <1>8 DEF ResetPending, CacheFileFree
  <2> QED
    BY <1>0, <2>1 DEF Return, AfterReset, KeyKnown, TypeOK
<1>9. CASE CacheFileTmpGet(w)
  BY <1>0, <1>9 DEF CacheFileTmpGet, KeyKnown, TypeOK
<1>10. CASE Ack(w) \/ TableEachNext(w) \/ Callback(w)
  <2>1. UNCHANGED bug /\ pc'[w] \in {"idle", "cb", "rfetch", "each"}
    BY <1>0, <1>10 DEF Ack, TableEachNext, Callback, Return, TypeOK
  <2> QED
    BY <1>0, <2>1
<1> QED
  BY <1>1, <1>2, <1>3, <1>4, <1>5, <1>6, <1>7, <1>8, <1>9, <1>10 DEF WorkerNext, Step

\* A step that makes no file, frees none and starts no request leaves the
\* files of requests as they are; what it goes on to use must be allocated.
LEMMA AliveFrame ==
    ASSUME Alone, Known, NEW w \in Workers,
           UNCHANGED <<alloc, evictable>>,
           \A s \in Sockets : req'[s] = req[s] \/ req'[s] = NULL \/ req'[s] \in alloc,
           pc'[w] \in DerefLabels \cup {"rdel"} /\ Disk(ptr'[w]) => ptr'[w] \in alloc,
           pc'[w] = "free" /\ Disk(ptr'[w]) => \A s \in Sockets : req'[s] # ptr'[w]
    PROVE  Alive'
<1>1. \A v \in Workers : v = w
  BY DEF Alone
<1>2. \A f : Disk(f)' <=> Disk(f)
  BY DEF Disk
<1>3. ~Disk(NULL)
  BY ConstantsAssumption DEF Disk
<1>4. Alive
  BY DEF Known, AloneInv
<1>5. \A s \in Sockets : Disk(req'[s]) => req'[s] \in alloc
  BY <1>3, <1>4 DEF Alive
<1> QED
  BY <1>1, <1>2, <1>5 DEF Alive, Holders

LEMMA NoHolders ==
    ASSUME RefCount, TypeOK, NEW f \in Files, Disk(f), pending_reqs[f] = 0
    PROVE  Holders(f) = {}
BY HoldersFinite, FS_EmptySet DEF RefCount

LEMMA SomeHolders ==
    ASSUME RefCount, TypeOK, NEW f \in Files, Disk(f), pending_reqs[f] # 0
    PROVE  Holders(f) # {}
BY FS_EmptySet DEF RefCount

\* A new file is allocated, and is nobody's: nothing that pointed to a disk
\* file points elsewhere by it.
LEMMA AliveNew ==
    ASSUME Alone, Known, NEW w \in Workers, NEW f \in Files, Fresh(f),
           alloc' = alloc \cup {f}, UNCHANGED req,
           \A g \in Files \ {f} : evictable'[g] = evictable[g],
           pc'[w] = "add", ptr'[w] = f
    PROVE  Alive'
<1>1. \A v \in Workers : v = w
  BY DEF Alone
<1>2. \A s \in Sockets : req[s] # f
  BY DEF Fresh
<1>3. Alive
  BY DEF Known, AloneInv
<1> QED
  BY <1>1, <1>2, <1>3 DEF Alive, Disk, DerefLabels

\* A file that is freed is no request's.
LEMMA AliveFree ==
    ASSUME Alone, Known, NEW w \in Workers, NEW f,
           alloc' = alloc \ {f}, UNCHANGED <<req, evictable>>,
           Disk(f) => Holders(f) = {},
           pc'[w] \notin DerefLabels \cup {"rdel"}
    PROVE  Alive'
<1>1. \A v \in Workers : v = w
  BY DEF Alone
<1>2. \A s \in Sockets : Disk(req[s]) => req[s] # f
  BY DEF Holders
<1>3. Alive
  BY DEF Known, AloneInv
<1>4. \A v \in Workers : pc'[v] \notin DerefLabels \cup {"rdel"}
  BY <1>1
<1> QED
  BY <1>2, <1>3, <1>4 DEF Alive, Disk, DerefLabels

LEMMA AliveStep ==
    ASSUME Alone, Known, NEW w \in Workers, WorkerNext(w)
    PROVE  Alive'
<1> USE ConstantsAssumption
<1>0. /\ TypeOK /\ Alive /\ TableLive /\ Private /\ RefCount /\ SockSet
      /\ ~Undefined(w) /\ ~Disk(NULL)
  BY DEF IInv, AloneInv, Known, WorkerNext, Disk
<1>1. CASE Event(w)
  <2>1. UNCHANGED <<alloc, evictable, req>> /\ pc'[w] \notin {"free", "rdel"}
    BY <1>0, <1>1 DEF Event, Stage30, EventWrite, EventDrop, ServeReset, ServeAdd,
       TableEach, Enter, TypeOK
  <2>2. pc'[w] \in DerefLabels => \E s \in Sockets : ptr'[w] = req[s]
    BY <1>0, <1>1 DEF Event, Stage30, EventWrite, EventDrop, ServeReset, ServeAdd,
       TableEach, Enter, TypeOK, DerefLabels
  <2> QED
    BY <1>0, <2>1, <2>2, AliveFrame DEF Alive
<1>2. CASE CacheFileGet(w) \/ CacheFileNew(w)
  <2>1. key[w] \in Uris
    BY <1>2 DEF CacheFileGet, CacheFileNew, Known, IInv, LocalsSet
  <2>2. /\ UNCHANGED <<alloc, evictable, req>> /\ pc'[w] \notin {"free", "rdel"}
        /\ pc'[w] \in DerefLabels => ptr'[w] = table[key[w]]
    BY <1>0, <1>2 DEF CacheFileGet, CacheFileNew, Return, TypeOK, DerefLabels
  <2> QED
    BY <1>0, <2>1, <2>2, AliveFrame DEF TableLive
<1>3. CASE CacheFileOpen(w)
  <2>1. CASE Return(w) /\ UNCHANGED <<alloc, evictable>>
    <3>1. pc'[w] = "idle" /\ UNCHANGED req
      BY <1>0, <1>3, <2>1 DEF CacheFileOpen, Return, TypeOK
    <3> QED
      BY <2>1, <3>1, AliveFrame DEF DerefLabels
  <2>2. ASSUME NEW f \in Files, Fresh(f), alloc' = alloc \cup {f},
               evictable' = [evictable EXCEPT ![f] = TRUE],
               ptr' = [ptr EXCEPT ![w] = f], Goto(w, "add")
        PROVE  Alive'
    <3>1. UNCHANGED req
      BY <1>3 DEF CacheFileOpen
    <3> QED
      BY <1>0, <2>2, <3>1, AliveNew DEF TypeOK
  <2> QED
    BY <1>3, <2>1, <2>2 DEF CacheFileOpen
<1>4. CASE CacheFileTmp(w)
  <2>1. CASE Goto(w, "ack") /\ UNCHANGED <<alloc, evictable>>
    <3>1. pc'[w] = "ack" /\ UNCHANGED req
      BY <1>0, <1>4, <2>1 DEF CacheFileTmp, TypeOK
    <3> QED
      BY <2>1, <3>1, AliveFrame DEF DerefLabels
  <2>2. ASSUME NEW f \in Files, Fresh(f), alloc' = alloc \cup {f},
               evictable' = [evictable EXCEPT ![f] = FALSE],
               ptr' = [ptr EXCEPT ![w] = f], Goto(w, "add")
        PROVE  Alive'
    <3>1. UNCHANGED req
      BY <1>4 DEF CacheFileTmp
    <3> QED
      BY <1>0, <2>2, <3>1, AliveNew DEF TypeOK
  <2> QED
    BY <1>4, <2>1, <2>2 DEF CacheFileTmp
<1>5. CASE TableAdd(w)
  <2>1. /\ ptr[w] \in alloc /\ \A s \in Sockets : req[s] # ptr[w]
    BY <1>0, <1>5 DEF TableAdd, Private
  <2>2. UNCHANGED <<evictable, req>>
    BY <1>5 DEF TableAdd
  <2>3. CASE UNCHANGED <<alloc, ptr>>
    <3>1. pc'[w] \notin {"free", "rdel"}
      BY <1>0, <1>5 DEF TableAdd, Return, TypeOK
    <3> QED
      BY <2>1, <2>2, <2>3, <3>1, AliveFrame
  <2>4. CASE alloc' = alloc \ {ptr[w]} /\ (Goto(w, "ack") \/ Return(w))
    <3>1. pc'[w] \in {"ack", "idle"}
      BY <1>0, <2>4 DEF Return, TypeOK
    <3>2. Holders(ptr[w]) = {}
      BY <2>1 DEF Holders
    <3> QED
      BY <2>2, <2>4, <3>1, <3>2, AliveFree DEF DerefLabels
  <2> QED
    BY <1>5, <2>3, <2>4 DEF TableAdd
<1>6. CASE Ref(w)
  <2>1. /\ UNCHANGED <<alloc, evictable, ptr>> /\ pc'[w] = "serve"
        /\ \A s \in Sockets : req'[s] \in {req[s], ptr[w]}
    BY <1>0, <1>6 DEF Ref, TypeOK
  <2>2. ptr[w] \in alloc
    BY <1>0, <1>6 DEF Ref, Undefined, DerefLabels
  <2> QED
    BY <2>1, <2>2, AliveFrame
<1>7. CASE CacheFileTouch(w) \/ Serve(w) \/ CacheReqDel(w) \/ CacheReqDelZombie(w)
           \/ ResetZombie(w)
  <2>1. /\ UNCHANGED <<alloc, evictable>> /\ pc'[w] \notin {"free", "rdel"}
        /\ \A s \in Sockets : req'[s] \in {req[s], NULL}
        /\ pc'[w] \in DerefLabels => ptr'[w] = ptr[w]
    BY <1>0, <1>7 DEF CacheFileTouch, Serve, CacheReqDel, CacheReqDelZombie,
       ResetZombie, Return, TypeOK, DerefLabels
  <2>2. ptr[w] \in alloc
    BY <1>0, <1>7 DEF CacheFileTouch, Serve, CacheReqDel, CacheReqDelZombie,
       ResetZombie, Undefined, DerefLabels
  <2> QED
    BY <2>1, <2>2, AliveFrame
<1>8. CASE CacheReqDelPending(w) \/ ResetPending(w)
  <2>1. /\ UNCHANGED <<alloc, evictable, req>> /\ pc'[w] # "rdel"
        /\ pc'[w] \in DerefLabels => pending_reqs[ptr[w]] = 0 /\ ptr'[w] = ptr[w]
    BY <1>0, <1>8 DEF CacheReqDelPending, ResetPending, AfterReset, Return, TypeOK,
       DerefLabels
  <2>2. ptr[w] \in alloc /\ ptr[w] \in Files
    BY <1>0, <1>8 DEF CacheReqDelPending, ResetPending, Undefined, DerefLabels, TypeOK
  <2>3. pc'[w] \in DerefLabels /\ Disk(ptr[w]) => Holders(ptr[w]) = {}
    BY <1>0, <2>1, <2>2, NoHolders
  <2>4. pc'[w] \in DerefLabels /\ Disk(ptr'[w]) =>
          \A s \in Sockets : req'[s] # ptr'[w]
    BY <2>1, <2>3 DEF Holders
  <2> QED
    BY <2>1, <2>2, <2>4, AliveFrame DEF DerefLabels
<1>9. CASE ResetFetch(w)
  <2>1. key[w] \in Uris
    BY <1>9 DEF ResetFetch, Known, IInv, LocalsSet
  <2>2. /\ UNCHANGED <<alloc, evictable, req>> /\ pc'[w] = "rdel"
        /\ ptr'[w] = table[key[w]]
    BY <1>0, <1>9 DEF ResetFetch, TypeOK
  <2> QED
    BY <1>0, <2>1, <2>2, AliveFrame DEF TableLive
<1>10. CASE ResetDelete(w)
  <2>1. UNCHANGED <<alloc, evictable, req, ptr>> /\ pc'[w] \notin {"free", "rdel"}
    BY <1>0, <1>10 DEF ResetDelete, AfterReset, TypeOK
  <2>2. Disk(ptr[w]) => ptr[w] \in alloc
    BY <1>0, <1>10 DEF ResetDelete, Alive
  <2> QED
    BY <2>1, <2>2, AliveFrame
<1>11. CASE CacheFileFree(w)
  <2>1. /\ alloc' = alloc \ {ptr[w]} /\ UNCHANGED <<req, evictable>>
        /\ pc'[w] \in {"idle", "tmpget", "each", "ack"}
    BY <1>0, <1>11 DEF CacheFileFree, AfterReset, Return, TypeOK
  <2>2. Disk(ptr[w]) => Holders(ptr[w]) = {}
    BY <1>0, <1>11 DEF CacheFileFree, Alive
  <2> QED
    BY <2>1, <2>2, AliveFree DEF DerefLabels
<1>12. CASE TableEachNext(w)
  <2>1. /\ UNCHANGED <<alloc, evictable, req>> /\ pc'[w] \notin {"free", "rdel"}
        /\ \/ pc'[w] = "idle"
           \/ cur[w] # NULL /\ ptr'[w] = table[cur[w]]
    <3>1. \/ Return(w)
          \/ cur[w] # NULL /\ ptr' = [ptr EXCEPT ![w] = table[cur[w]]] /\ Goto(w, "cb")
      BY <1>12 DEF TableEachNext
    <3>2. UNCHANGED <<alloc, evictable, req>>
      BY <1>12 DEF TableEachNext
    <3> QED
      BY <1>0, <3>1, <3>2 DEF Return, TypeOK
  <2>2. cur[w] # NULL => cur[w] \in Uris
    BY <1>0, <1>12 DEF TableEachNext, Undefined, TypeOK
  <2> QED
    BY <1>0, <2>1, <2>2, AliveFrame DEF TableLive, DerefLabels
<1>13. CASE CacheFileTmpGet(w) \/ Ack(w) \/ Callback(w)
  <2>1. /\ UNCHANGED <<alloc, evictable, req>>
        /\ pc'[w] \in {"tmpopen", "idle", "rfetch", "each"}
    BY <1>0, <1>13 DEF CacheFileTmpGet, Ack, Callback, Return, TypeOK
  <2> QED
    BY <2>1, AliveFrame DEF DerefLabels
<1> QED
  BY <1>1, <1>2, <1>3, <1>4, <1>5, <1>6, <1>7, <1>8, <1>9, <1>10, <1>11, <1>12, <1>13
     DEF WorkerNext, Step

\* A file that is where it should be, whatever the handler does.
Placed(f) == table[uri[f]] = f \/ (zombie[f] # 0 /\ Holders(f) # {})

LEMMA PlacedOrCared ==
    ASSUME Alone, Known, NEW w \in Workers, NEW f \in alloc, Disk(f)
    PROVE  Placed(f) \/ CaredFor(w, f)
BY DEF Known, AloneInv, Accounted, Placed, Alone

\* A step that changes neither table nor files nor requests has only to pass
\* on, or to have done with, the file it cares for.
LEMMA AccountedFrame ==
    ASSUME Alone, Known, NEW w \in Workers,
           UNCHANGED <<table, uri, zombie, evictable, req>>, alloc' \subseteq alloc,
           pc'[w] \in {"rpend", "delp"} => zombie[ptr'[w]] # 0,
           \A f \in alloc' :
             Disk(f) /\ CaredFor(w, f) => Placed(f) \/ CaredFor(w, f)'
    PROVE  Accounted'
<1>1. \A v \in Workers : v = w
  BY DEF Alone
<1>2. ASSUME NEW f \in alloc', Disk(f)'
      PROVE  Placed(f)' \/ CaredFor(w, f)'
  <2>1. Disk(f) /\ f \in alloc
    BY <1>2 DEF Disk
  <2>2. Placed(f)' <=> Placed(f)
    BY DEF Placed, Holders
  <2> QED
    BY <1>2, <2>1, <2>2, PlacedOrCared
<1> QED
  BY <1>1, <1>2 DEF Accounted, Placed

\* A new file is in the hands of its creator, the others stay where they are.
LEMMA AccountedNew ==
    ASSUME Alone, Known, NEW w \in Workers, NEW f \in Files, Fresh(f),
           pc[w] \in {"open", "tmpopen"},
           alloc' = alloc \cup {f}, UNCHANGED <<table, req>>,
           \A g \in Files \ {f} : /\ evictable'[g] = evictable[g]
                                  /\ zombie'[g] = zombie[g]
                                  /\ uri'[g] = uri[g],
           pc'[w] = "add", ptr'[w] = f
    PROVE  Accounted'
<1>1. \A v \in Workers : v = w
  BY DEF Alone
<1>2. CaredFor(w, f)'
  BY DEF CaredFor
<1>3. ASSUME NEW g \in alloc', Disk(g)', g # f
      PROVE  Placed(g)'
  <2>1. g \in alloc /\ g \in Files
    BY <1>3 DEF Disk
  <2>2. Placed(g)
    BY <1>3, <2>1, PlacedOrCared DEF CaredFor, Disk
  <2> QED
    BY <1>3, <2>1, <2>2 DEF Placed, Holders
<1> QED
  BY <1>1, <1>2, <1>3 DEF Accounted, Placed

LEMMA AccountedStep ==
    ASSUME Alone, Known, NEW w \in Workers, WorkerNext(w)
    PROVE  Accounted'
<1> USE ConstantsAssumption
<1>0. /\ TypeOK /\ OpSet /\ KeyKnown /\ Accounted /\ Private /\ LeftTable
      /\ RefCount /\ SockSet /\ UnderOwnUri /\ LocalsSet /\ ~Undefined(w)
      /\ \A v \in Workers : v = w
  BY DEF IInv, AloneInv, Known, WorkerNext, Alone
<1>1. CASE \/ Event(w) \/ CacheFileGet(w) \/ CacheFileTouch(w) \/ CacheFileNew(w)
           \/ Serve(w) \/ ResetFetch(w) \/ CacheFileTmpGet(w) \/ Ack(w)
  <2>1. /\ UNCHANGED <<table, uri, zombie, evictable, req, alloc>>
        /\ pc[w] \notin {"add", "rzombie", "rpend", "free", "delz", "delp"}
        /\ pc'[w] \notin {"rpend", "delp"}
    BY <1>0, <1>1 DEF Event, Stage30, EventWrite, EventDrop, ServeReset, ServeAdd,
       TableEach, Enter, CacheFileGet, CacheFileTouch, CacheFileNew, Serve,
       ResetFetch, CacheFileTmpGet, Ack, Return, TypeOK
  <2> QED
    BY <2>1, AccountedFrame DEF CaredFor
<1>2. CASE TableEachNext(w) \/ Callback(w)
  <2>1. /\ UNCHANGED <<table, uri, zombie, evictable, req, alloc>>
        /\ pc[w] \in {"each", "cb"}
        /\ \E l \in {"idle", "cb", "rfetch", "each"} : Goto(w, l)
    BY <1>2 DEF TableEachNext, Callback, Return
  <2>2. pc'[w] \notin {"rpend", "delp"}
    BY <1>0, <2>1 DEF TypeOK
  <2> QED
    BY <2>1, <2>2, AccountedFrame DEF CaredFor
<1>3. CASE CacheReqDelZombie(w)
  <2>1. /\ UNCHANGED <<table, uri, zombie, evictable, req, alloc>>
        /\ pc[w] = "delz"
        /\ pc'[w] = IF zombie[ptr[w]] # 0 THEN "delp" ELSE "idle"
        /\ zombie[ptr[w]] # 0 => ptr'[w] = ptr[w]
    BY <1>0, <1>3 DEF CacheReqDelZombie, Return, TypeOK
  <2> QED
    BY <2>1, AccountedFrame DEF CaredFor
<1>4. CASE CacheReqDelPending(w) \/ ResetPending(w)
  <2>1. /\ UNCHANGED <<table, uri, zombie, evictable, req, alloc>>
        /\ pc[w] \in {"delp", "rpend"}
        /\ IF pending_reqs[ptr[w]] = 0
           THEN pc'[w] = "free" /\ ptr'[w] = ptr[w]
           ELSE pc'[w] \in {"idle", "tmpget", "each", "ack"}
    BY <1>0, <1>4 DEF CacheReqDelPending, ResetPending, AfterReset, Return, TypeOK
  <2>2. zombie[ptr[w]] # 0
    BY <1>0, <2>1 DEF Accounted
  <2>3. ASSUME NEW f \in alloc, Disk(f), CaredFor(w, f), pending_reqs[ptr[w]] # 0
        PROVE  Placed(f)
    BY <1>0, <2>2, <2>3, SomeHolders DEF CaredFor, Placed, Disk
  <2> QED
    BY <2>1, <2>2, <2>3, AccountedFrame DEF CaredFor
<1>5. CASE CacheFileFree(w)
  <2>1. /\ UNCHANGED <<table, uri, zombie, evictable, req>>
        /\ alloc' = alloc \ {ptr[w]}
        /\ pc'[w] \notin {"rpend", "delp"}
    BY <1>0, <1>5 DEF CacheFileFree, AfterReset, Return, TypeOK
  <2> QED
    BY <2>1, AccountedFrame DEF CaredFor
<1>6. CASE CacheFileOpen(w)
  <2>1. CASE Return(w) /\ UNCHANGED <<alloc, uri, zombie, evictable>>
    <3>1. /\ UNCHANGED <<table, req>> /\ pc[w] = "open" /\ pc'[w] = "idle"
      BY <1>0, <1>6, <2>1 DEF CacheFileOpen, Return, TypeOK
    <3> QED
      BY <2>1, <3>1, AccountedFrame DEF CaredFor
  <2>2. ASSUME NEW f \in Files, Fresh(f), alloc' = alloc \cup {f},
               zombie' = [zombie EXCEPT ![f] = 0],
               evictable' = [evictable EXCEPT ![f] = TRUE],
               uri' = [uri EXCEPT ![f] = key[w]],
               ptr' = [ptr EXCEPT ![w] = f], Goto(w, "add")
        PROVE  Accounted'
    <3>1. UNCHANGED <<table, req>> /\ pc[w] = "open"
      BY <1>6 DEF CacheFileOpen
    <3>2. pc'[w] = "add" /\ ptr'[w] = f
      BY <1>0, <2>2 DEF TypeOK
    <3> QED
      BY <1>0, <2>2, <3>1, <3>2, AccountedNew DEF TypeOK
  <2> QED
    BY <1>6, <2>1, <2>2 DEF CacheFileOpen
<1>7. CASE CacheFileTmp(w)
  <2>1. CASE Goto(w, "ack") /\ UNCHANGED <<alloc, uri, zombie, evictable>>
    <3>1. /\ UNCHANGED <<table, req>> /\ pc[w] = "tmpopen" /\ pc'[w] = "ack"
      BY <1>0, <1>7, <2>1 DEF CacheFileTmp, TypeOK
    <3> QED
      BY <2>1, <3>1, AccountedFrame DEF CaredFor
  <2>2. ASSUME NEW f \in Files, NEW z \in Garbage, Fresh(f),
               alloc' = alloc \cup {f},
               zombie' = [zombie EXCEPT ![f] = z],
               evictable' = [evictable EXCEPT ![f] = FALSE],
               uri' = [uri EXCEPT ![f] = key[w]],
               ptr' = [ptr EXCEPT ![w] = f], Goto(w, "add")
        PROVE  Accounted'
    <3>1. UNCHANGED <<table, req>> /\ pc[w] = "tmpopen"
      BY <1>7 DEF CacheFileTmp
    <3>2. pc'[w] = "add" /\ ptr'[w] = f
      BY <1>0, <2>2 DEF TypeOK
    <3> QED
      BY <1>0, <2>2, <3>1, <3>2, AccountedNew DEF TypeOK
  <2> QED
    BY <1>7, <2>1, <2>2 DEF CacheFileTmp
\* The new file goes to its place; the record held no other.
<1>8. CASE TableAdd(w)
  <2>1. UNCHANGED <<uri, zombie, evictable, req>> /\ pc[w] = "add"
    BY <1>8 DEF TableAdd
  <2>2. pc'[w] \notin {"rpend", "delp"}
    BY <1>0, <1>8 DEF TableAdd, Return, TypeOK
  <2>3. CASE alloc' = alloc \ {ptr[w]} /\ UNCHANGED table
    BY <2>1, <2>2, <2>3, AccountedFrame DEF CaredFor
  <2>4. CASE Link(key[w], ptr[w]) /\ UNCHANGED alloc
    <3>1. key[w] \in Uris /\ table[key[w]] = NULL /\ uri[ptr[w]] = key[w]
      BY <1>0, <2>1 DEF LocalsSet, KeyKnown, Private
    <3>2. table' = [table EXCEPT ![key[w]] = ptr[w]]
      BY <2>4 DEF Link
    <3>3. ASSUME NEW f \in alloc, Disk(f)
          PROVE  Placed(f)'
      <4>1. uri[f] \in Uris /\ f # NULL
        BY <1>0, <3>3 DEF LocalsSet, Disk
      <4>2. CASE f = ptr[w]
        BY <1>0, <2>1, <3>1, <3>2, <4>2 DEF Placed, TypeOK
      <4>3. CASE f # ptr[w]
        <5>1. Placed(f)
          BY <3>3, <4>3, PlacedOrCared DEF CaredFor
        <5>2. table[uri[f]] = f => uri[f] # key[w]
          BY <3>1, <4>1
        <5> QED
          BY <1>0, <2>1, <3>1, <3>2, <4>1, <5>1, <5>2 DEF Placed, Holders, TypeOK
      <4> QED
        BY <4>2, <4>3
    <3>4. \A f \in alloc' : Disk(f)' => Placed(f)'
      BY <2>1, <2>4, <3>3 DEF Disk
    <3> QED
      BY <1>0, <2>2, <3>4 DEF Accounted, Placed
  <2> QED
    BY <1>8, <2>3, <2>4 DEF TableAdd
\* The holders of one file grow or shrink.
<1>9. CASE Ref(w)
  <2>1. /\ UNCHANGED <<table, uri, zombie, evictable, alloc>> /\ pc[w] = "ref"
        /\ pc'[w] = "serve" /\ sock[w] \in Sockets /\ req[sock[w]] = NULL
        /\ req' = [req EXCEPT ![sock[w]] = ptr[w]]
    BY <1>0, <1>9 DEF Ref, SockSet, TypeOK
  <2>2. ASSUME NEW f \in alloc, Disk(f)
        PROVE  Placed(f)'
    <3>1. Placed(f)
      BY <2>1, <2>2, PlacedOrCared DEF CaredFor
    <3>2. Holders(f) \subseteq Holders(f)'
      BY <1>0, <2>1, <2>2 DEF Holders, Disk, TypeOK
    <3> QED
      BY <2>1, <3>1, <3>2 DEF Placed
  <2> QED
    BY <1>0, <2>1, <2>2 DEF Accounted, Placed, Disk
<1>10. CASE CacheReqDel(w)
  <2>1. /\ UNCHANGED <<table, uri, zombie, evictable, alloc, ptr>> /\ pc[w] = "del"
        /\ pc'[w] = "delz" /\ req[sock[w]] = ptr[w]
        /\ req' = [req EXCEPT ![sock[w]] = NULL]
    BY <1>0, <1>10 DEF CacheReqDel, SockSet, TypeOK
  <2>2. ASSUME NEW f \in alloc, Disk(f)
        PROVE  Placed(f)' \/ CaredFor(w, f)'
    <3>1. Placed(f)
      BY <2>1, <2>2, PlacedOrCared DEF CaredFor
    <3>2. CASE f = ptr[w]
      BY <2>1, <3>1, <3>2 DEF Placed, CaredFor
    <3>3. CASE f # ptr[w]
      <4>1. Holders(f)' = Holders(f)
        BY <1>0, <2>1, <2>2, <3>3 DEF Holders, Disk, TypeOK
      <4> QED
        BY <2>1, <3>1, <4>1 DEF Placed
    <3> QED
      BY <3>2, <3>3
  <2> QED
    BY <1>0, <2>1, <2>2 DEF Accounted, Placed, Disk
\* The file that leaves the table is the one that was fetched.
<1>11. CASE ResetDelete(w)
  <2>1. /\ UNCHANGED <<uri, zombie, evictable, alloc, req, ptr>> /\ pc[w] = "rdel"
        /\ key[w] \in Uris /\ ptr[w] = table[key[w]]
        /\ table' = [table EXCEPT ![key[w]] = NULL]
    BY <1>0, <1>11 DEF ResetDelete, Unlink, LocalsSet, KeyKnown
  <2>2. /\ pc'[w] \notin {"rpend", "delp"}
        /\ ptr[w] # NULL => pc'[w] = "rzombie"
    BY <1>0, <1>11 DEF ResetDelete, AfterReset, TypeOK
  <2>3. ASSUME NEW f \in alloc, Disk(f)
        PROVE  Placed(f)' \/ CaredFor(w, f)'
    <3>1. Placed(f) /\ uri[f] \in Uris /\ f # NULL
      BY <1>0, <2>1, <2>3, PlacedOrCared DEF CaredFor, LocalsSet, Disk
    <3>2. CASE f = ptr[w]
      BY <2>1, <2>2, <3>1, <3>2 DEF CaredFor
    <3>3. CASE f # ptr[w]
      BY <1>0, <2>1, <3>1, <3>3 DEF Placed, Holders, TypeOK
    <3> QED
      BY <3>2, <3>3
  <2> QED
    BY <1>0, <2>1, <2>2, <2>3 DEF Accounted, Placed, Disk
<1>12. CASE ResetZombie(w)
  <2>1. /\ UNCHANGED <<table, uri, evictable, alloc, req, ptr>> /\ pc[w] = "rzombie"
        /\ pc'[w] = "rpend" /\ zombie' = [zombie EXCEPT ![ptr[w]] = 1]
        /\ ptr[w] \in Files
    BY <1>0, <1>12 DEF ResetZombie, TypeOK, DerefLabels
  <2>2. ASSUME NEW f \in alloc, Disk(f)
        PROVE  Placed(f)' \/ CaredFor(w, f)'
    <3>1. CASE f = ptr[w]
      BY <2>1, <3>1 DEF CaredFor
    <3>2. CASE f # ptr[w]
      <4>1. Placed(f)
        BY <2>2, <3>2, PlacedOrCared DEF CaredFor
      <4> QED
        BY <1>0, <2>1, <2>2, <3>2, <4>1 DEF Placed, Holders, Disk, TypeOK
    <3> QED
      BY <3>1, <3>2
  <2>3. zombie'[ptr'[w]] # 0
    BY <1>0, <2>1 DEF TypeOK
  <2> QED
    BY <1>0, <2>1, <2>2, <2>3 DEF Accounted, Placed, Disk
<1> QED
  BY <1>1, <1>2, <1>3, <1>4, <1>5, <1>6, <1>7, <1>8, <1>9, <1>10, <1>11, <1>12
     DEF WorkerNext, Step

LEMMA OwnerStep ==
    ASSUME Alone, Known, NEW w \in Workers, WorkerNext(w)
    PROVE  KeyAlive'
<1>0. TypeOK /\ KeyAlive /\ \A v \in Workers : v = w
  BY DEF Known, AloneInv, IInv, Alone
<1> SUFFICES owner'[w] # NULL => /\ pc'[w] \in {"rfetch", "rdel"}
                                 /\ owner'[w] \in alloc'
  BY <1>0 DEF KeyAlive
<1>1. CASE Callback(w)
  <2>1. ptr[w] \in alloc
    BY <1>1 DEF WorkerNext, Undefined, Callback, DerefLabels
  <2>2. CASE owner' = [owner EXCEPT ![w] = ptr[w]] /\ Goto(w, "rfetch")
    BY <1>0, <1>1, <2>1, <2>2 DEF Callback, TypeOK
  <2>3. CASE UNCHANGED owner
    <3>1. owner'[w] = NULL
      BY <1>0, <1>1, <2>3 DEF Callback, KeyAlive
    <3> QED
      BY <3>1
  <2> QED
    BY <1>1, <2>2, <2>3 DEF Callback
<1>2. CASE ResetDelete(w)
  BY <1>0, <1>2 DEF ResetDelete, TypeOK
<1>3. CASE ResetFetch(w)
  BY <1>0, <1>3 DEF ResetFetch, KeyAlive, TypeOK
<1>4. CASE Event(w)
  <2>1. UNCHANGED owner /\ pc[w] \notin {"rfetch", "rdel"}
    BY <1>4 DEF Event, Stage30, EventWrite, EventDrop, ServeReset, ServeAdd,
       TableEach, Enter
  <2> QED
    BY <1>0, <2>1 DEF KeyAlive
<1>5. CASE Step(w) /\ ~Callback(w) /\ ~ResetDelete(w) /\ ~ResetFetch(w)
  <2>1. pc[w] \notin {"rfetch", "rdel"}
    BY <1>5 DEF Step, CacheFileGet, CacheFileTouch, CacheFileNew, CacheFileOpen,
       TableAdd, Ref, Serve, CacheReqDel, CacheReqDelZombie, CacheReqDelPending,
       ResetZombie, ResetPending, CacheFileFree, CacheFileTmpGet, CacheFileTmp,
       Ack, TableEachNext
  <2>2. UNCHANGED owner
    BY <1>5 DEF Step, CacheFileGet, CacheFileTouch, CacheFileNew, CacheFileOpen,
       TableAdd, Link, Ref, Serve, CacheReqDel, CacheReqDelZombie,
       CacheReqDelPending, ResetZombie, ResetPending, CacheFileFree,
       CacheFileTmpGet, CacheFileTmp, Ack, TableEachNext, Return
  <2> QED
    BY <1>0, <2>1, <2>2 DEF KeyAlive
<1> QED
  BY <1>1, <1>2, <1>3, <1>4, <1>5 DEF WorkerNext

(***************************************************************************)
(* The theorems.                                                           *)
(***************************************************************************)

LEMMA AloneInvariant == ASSUME Alone PROVE Spec => []Known
<1>1. Init => AloneInv
  <2> SUFFICES ASSUME Init PROVE AloneInv
    OBVIOUS
  <2>1. OpSet /\ KeyKnown /\ Accounted /\ ~bug
    BY DEF Init, OpSet, KeyKnown, Accounted
  <2>2. CursorApart
    BY ConstantsAssumption DEF Init, CursorApart
  <2>3. Alive
    BY ConstantsAssumption DEF Init, Alive, Disk, DerefLabels
  <2>4. KeyAlive
    BY DEF Init, KeyAlive
  <2> QED
    BY <2>1, <2>2, <2>3, <2>4 DEF AloneInv
<1>2. Known /\ [Next]_vars => AloneInv'
  <2> SUFFICES ASSUME Known, [Next]_vars
               PROVE  AloneInv'
    OBVIOUS
  <2>1. ASSUME NEW w \in Workers, WorkerNext(w)
        PROVE  AloneInv'
    BY <2>1, OpStep, CursorStep, KeyStep, AliveStep, OwnerStep,
       AccountedStep
       DEF Known, AloneInv
  <2>2. CASE \/ \E f \in Files : TimePasses(f)
             \/ UNCHANGED vars
    <3>1. UNCHANGED <<table, alloc, zombie, evictable, uri, bug, req, pc, op, key,
                      ptr, cur, todo, owner>>
      BY <2>2 DEF TimePasses, vars
    <3>2. AloneInv
      BY DEF Known
    <3> QED
      BY <3>1, <3>2 DEF AloneInv, OpSet, CursorApart, KeyKnown, Alive,
         KeyAlive, Accounted, CaredFor, Holders, Disk
  <2> QED
    BY <2>1, <2>2 DEF Next
<1> QED
  BY <1>1, <1>2, Inductive, Counting, PTL DEF Spec, Known

\* With one worker no step touches a file made from disk after it was freed,
\* nor frees it twice, whatever the order of requests, resets, additions,
\* ticks and timeouts (cache_file.h:45-49, cache_req.c:91-98).
THEOREM AloneAccessSafe == Alone => (Spec => []DiskAccessSafe)
<1> SUFFICES ASSUME Alone PROVE Spec => []DiskAccessSafe
  OBVIOUS
<1>1. Known => DiskAccessSafe
  <2> SUFFICES ASSUME Known, NEW w \in Workers, Disk(owner[w])
               PROVE  owner[w] \in alloc
    BY DEF Known, AloneInv, Alive, DiskAccessSafe
  <2> QED
    BY ConstantsAssumption DEF Known, AloneInv, KeyAlive, Disk
<1> QED
  BY <1>1, AloneInvariant, PTL

\* With one worker the eviction from inside table_each never deletes the
\* record under the cursor (unqlite_ht.c:46-56, cache_file.c:84-87).
THEOREM AloneCursorSafe == Alone => (Spec => []CursorSafe)
<1> SUFFICES ASSUME Alone PROVE Spec => []CursorSafe
  OBVIOUS
<1>1. Known => CursorSafe
  BY DEF Known, AloneInv, CursorApart, CursorSafe
<1> QED
  BY <1>1, AloneInvariant, PTL

\* With one worker no file made from disk is leaked: between events it is in
\* the table, or a zombie some request holds (cache_file.c:61-68,
\* cache_req.c:96-98).
THEOREM AloneNoOrphan == Alone => (Spec => []NoOrphan)
<1> SUFFICES ASSUME Alone PROVE Spec => []NoOrphan
  OBVIOUS
<1>1. Known => NoOrphan
  BY DEF Known, AloneInv, Accounted, CaredFor, NoOrphan
<1> QED
  BY <1>1, AloneInvariant, PTL

\* With one worker the assertion of cache_file_tmp (cache_file.c:102) does
\* not fire.
THEOREM AloneNoMkBug == Alone => (Spec => []NoMkBug)
<1> SUFFICES ASSUME Alone PROVE Spec => []NoMkBug
  OBVIOUS
<1>1. Known => NoMkBug
  BY DEF Known, AloneInv, NoMkBug
<1> QED
  BY <1>1, AloneInvariant, PTL
==============================================================================
