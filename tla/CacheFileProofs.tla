--------------------------- MODULE CacheFileProofs ---------------------------
(* Theorems about CacheFile, for any number of workers, connections, URIs   *)
(* and files.                                                               *)
EXTENDS CacheFile, FiniteSetTheorems, TLAPS

(***************************************************************************)
(* The inductive invariant.                                                *)
(***************************************************************************)

\* The locals a handler relies on at each place are set.
LocalsSet ==
    /\ \A w \in Workers :
         op[w] \in {"add", "reset"} => key[w] \in Uris
    /\ \A w \in Workers :
         pc[w] \in {"get", "touch", "new", "open", "add", "rfetch", "rdel",
                    "tmpget", "tmpopen", "rzombie", "rpend"} => key[w] \in Uris
    /\ \A f \in alloc : uri[f] \in Uris

\* A cursor stands on, and has ahead of it, records that exist, or knows
\* that its record is gone.
CursorOnRecords ==
    \A w \in Workers : /\ cur[w] \in Uris => table[cur[w]] # NULL
                       /\ \A u \in todo[w] : table[u] # NULL

\* A file is in the table under its own URI only.
UnderOwnUri ==
    /\ \A u \in Uris : table[u] # NULL => uri[table[u]] = u
    /\ \A w \in Workers :
         pc[w] = "rdel" /\ ptr[w] # NULL => uri[ptr[w]] = key[w]

\* A file that is about to be added is known to its creator only.
Private ==
    \A w \in Workers : pc[w] = "add" =>
        /\ ptr[w] \in alloc
        /\ uri[ptr[w]] = key[w]
        /\ evictable[ptr[w]] => zombie[ptr[w]] = 0
        /\ \A u \in Uris : table[u] # ptr[w]
        /\ \A s \in Sockets : req[s] # ptr[w]
        /\ \A v \in Workers \ {w} : ptr[v] # ptr[w]

\* A file that is being made a zombie, or freed, has left the table.
LeftTable ==
    \A w \in Workers :
        \/ pc[w] \in {"rzombie", "rpend"}
        \/ pc[w] \in {"delp", "free"} /\ Disk(ptr[w])
        => \A u \in Uris : table[u] # ptr[w]

IInv == /\ TypeOK
        /\ LocalsSet
        /\ CursorOnRecords
        /\ UnderOwnUri
        /\ Private
        /\ LeftTable
        /\ TableLive

USE DEF shared, fields, cursor, locals, Goto

LEMMA InductiveStep ==
    ASSUME IInv, NEW w \in Workers, WorkerNext(w)
    PROVE  IInv'
<1> USE ConstantsAssumption DEF IInv, TypeOK
<1>0. ~Undefined(w)
  BY DEF WorkerNext
<1>1. CASE CacheFileGet(w)
  BY <1>0, <1>1 DEF CacheFileGet, Undefined, Labels, Ops, DerefLabels,
     LocalsSet, CursorOnRecords, UnderOwnUri, Private, LeftTable, TableLive, Disk
<1>2. CASE CacheFileTouch(w)
  BY <1>0, <1>2 DEF CacheFileTouch, Undefined, Labels, Ops, DerefLabels,
     LocalsSet, CursorOnRecords, UnderOwnUri, Private, LeftTable, TableLive, Disk
<1>3. CASE CacheFileNew(w)
  <2>1. TypeOK'
    <3>1. pc' \in [Workers -> Labels]
      BY <1>3 DEF CacheFileNew, Return, Labels, DerefLabels
    <3>2. op' \in [Workers -> Ops]
      BY <1>3 DEF CacheFileNew, Return, Ops
    <3>3. /\ ptr' \in [Workers -> Files \cup {NULL}]
          /\ key' \in [Workers -> Uris \cup {NULL}]
      BY <1>0, <1>3 DEF CacheFileNew, Return, LocalsSet, Undefined, DerefLabels
    <3>4. \A v \in Workers : pc'[v] \in DerefLabels \cup {"add"} => ptr'[v] \in Files
      BY <1>0, <1>3, <3>3 DEF CacheFileNew, Return, CursorOnRecords, Undefined, LocalsSet, DerefLabels
    <3>5. /\ zombie' \in [Files -> Int]
          /\ pending_reqs' \in [Files -> Int]
      BY <1>3 DEF CacheFileNew, Return, DerefLabels
    <3>6. req' \in [Sockets -> Files \cup {NULL}]
      BY <1>3 DEF CacheFileNew, Return, DerefLabels
    <3> QED
      BY <1>0, <1>3, <3>1, <3>2, <3>3, <3>4, <3>5, <3>6 DEF CacheFileNew, Return, DerefLabels, Undefined
  <2>2. LocalsSet'
    <3>1. CASE Return(w)
      BY <1>3, <3>1 DEF CacheFileNew, Return, LocalsSet
    <3>2. CASE ~Return(w)
      BY <1>3, <3>2 DEF CacheFileNew, LocalsSet
    <3> QED
      BY <1>3, <3>1, <3>2 DEF CacheFileNew
  <2>3. CursorOnRecords'
    BY <1>0, <1>3, <2>1 DEF CacheFileNew, Return, CursorOnRecords, Disk, LocalsSet, Undefined, DerefLabels
  <2>4. UnderOwnUri'
    BY <1>0, <1>3, <2>1 DEF CacheFileNew, Return, UnderOwnUri, Private, Disk, LocalsSet, Undefined, DerefLabels
  <2>5. Private'
    BY <1>0, <1>3, <2>1 DEF CacheFileNew, Return, Private, Disk, LocalsSet, Undefined, DerefLabels
  <2>6. LeftTable'
    BY <1>0, <1>3, <2>1 DEF CacheFileNew, Return, LeftTable, UnderOwnUri, Private, TableLive, Disk, LocalsSet, Undefined, DerefLabels
  <2>7. TableLive'
    BY <1>0, <1>3, <2>1 DEF CacheFileNew, Return, TableLive, Private, LeftTable, Disk, LocalsSet, Undefined, DerefLabels
  <2> QED
    BY <2>1, <2>2, <2>3, <2>4, <2>5, <2>6, <2>7
<1>4. CASE CacheFileOpen(w)
  <2>1. TypeOK'
    <3>1. pc' \in [Workers -> Labels]
      BY <1>4 DEF CacheFileOpen, Return, Fresh, Labels, DerefLabels
    <3>2. op' \in [Workers -> Ops]
      BY <1>4 DEF CacheFileOpen, Return, Fresh, Ops
    <3>3. /\ ptr' \in [Workers -> Files \cup {NULL}]
          /\ key' \in [Workers -> Uris \cup {NULL}]
      BY <1>0, <1>4 DEF CacheFileOpen, Return, Fresh, LocalsSet, Undefined, DerefLabels
    <3>4. \A v \in Workers : pc'[v] \in DerefLabels \cup {"add"} => ptr'[v] \in Files
      BY <1>0, <1>4, <3>3 DEF CacheFileOpen, Return, Fresh, CursorOnRecords, Undefined, LocalsSet, DerefLabels
    <3>5. /\ zombie' \in [Files -> Int]
          /\ pending_reqs' \in [Files -> Int]
      BY <1>4 DEF CacheFileOpen, Return, Fresh, DerefLabels
    <3>7. evictable' \in [Files -> BOOLEAN]
      BY <1>4, ZenonT(60) DEF CacheFileOpen, Return, Fresh
    <3>8. stale' \in [Files -> BOOLEAN]
      BY <1>4 DEF CacheFileOpen, Return, Fresh
    <3>9. /\ uri' \in [Files -> Uris \cup {NULL}]
          /\ alloc' \subseteq Files
      BY <1>4 DEF CacheFileOpen, Return, Fresh
    <3>6. req' \in [Sockets -> Files \cup {NULL}]
      BY <1>4 DEF CacheFileOpen, Return, Fresh, DerefLabels
    <3> QED
      BY <1>0, <1>4, <3>1, <3>2, <3>3, <3>4, <3>5, <3>6, <3>7, <3>8, <3>9 DEF CacheFileOpen, Return, Fresh, DerefLabels, Undefined
  <2>2. LocalsSet'
    <3>1. CASE Return(w) /\ UNCHANGED <<alloc, uri>>
      BY <1>4, <3>1 DEF CacheFileOpen, Return, LocalsSet
    <3>2. CASE ~(Return(w) /\ UNCHANGED <<alloc, uri>>)
      <4>1. key[w] \in Uris
        BY <1>4 DEF CacheFileOpen, LocalsSet
      <4>2. PICK f \in Files : /\ alloc' = alloc \cup {f}
                             /\ uri' = [uri EXCEPT ![f] = key[w]]
                             /\ pc' = [pc EXCEPT ![w] = "add"]
                             /\ UNCHANGED <<op, key>>
        BY <1>4, <3>2 DEF CacheFileOpen
      <4> QED
        BY <1>4, <4>1, <4>2 DEF CacheFileOpen, LocalsSet
    <3> QED
      BY <3>1, <3>2
  <2>3. CursorOnRecords'
    BY <1>0, <1>4, <2>1 DEF CacheFileOpen, Return, Fresh, CursorOnRecords, Disk, Undefined, DerefLabels
  <2>4. UnderOwnUri'
    BY <1>0, <1>4, <2>1, SMTT(30) DEF CacheFileOpen, Return, Fresh, UnderOwnUri, Private, Disk, Undefined, DerefLabels
  <2>5. Private'
    BY <1>0, <1>4, <2>1 DEF CacheFileOpen, Return, Fresh, Private, Disk, Undefined, DerefLabels
  <2>6. LeftTable'
    BY <1>0, <1>4, <2>1 DEF CacheFileOpen, Return, Fresh, LeftTable, UnderOwnUri, Private, TableLive, Disk, Undefined, DerefLabels
  <2>7. TableLive'
    BY <1>0, <1>4, <2>1 DEF CacheFileOpen, Return, Fresh, TableLive, Private, LeftTable, Disk, Undefined, DerefLabels
  <2> QED
    BY <2>1, <2>2, <2>3, <2>4, <2>5, <2>6, <2>7
<1>5. CASE TableAdd(w)
  <2>1. TypeOK'
    <3>1. pc' \in [Workers -> Labels]
      BY <1>5 DEF TableAdd, Link, Return, Labels, DerefLabels
    <3>2. op' \in [Workers -> Ops]
      BY <1>5 DEF TableAdd, Link, Return, Ops
    <3>3. /\ ptr' \in [Workers -> Files \cup {NULL}]
          /\ key' \in [Workers -> Uris \cup {NULL}]
      BY <1>0, <1>5 DEF TableAdd, Link, Return, LocalsSet, Undefined, DerefLabels
    <3>4. \A v \in Workers : pc'[v] \in DerefLabels \cup {"add"} => ptr'[v] \in Files
      BY <1>0, <1>5, <3>3 DEF TableAdd, Link, Return, CursorOnRecords, Undefined, LocalsSet, DerefLabels
    <3>5. /\ zombie' \in [Files -> Int]
          /\ pending_reqs' \in [Files -> Int]
      BY <1>5 DEF TableAdd, Link, Return, DerefLabels
    <3>6. req' \in [Sockets -> Files \cup {NULL}]
      BY <1>5 DEF TableAdd, Link, Return, DerefLabels
    <3>7. key[w] \in Uris /\ ptr[w] \in Files
      BY <1>5 DEF TableAdd, LocalsSet
    <3>8. /\ table' \in [Uris -> Files \cup {NULL}]
          /\ todo' \in [Workers -> SUBSET Uris]
      BY <1>5, <3>7, SMTT(30) DEF TableAdd, Link, Return
    <3> QED
      BY <1>0, <1>5, <3>1, <3>2, <3>3, <3>4, <3>5, <3>6, <3>8 DEF TableAdd, Link, Return, DerefLabels, Undefined
  <2>2. LocalsSet'
    BY <1>0, <1>5, <2>1, SMTT(30) DEF TableAdd, Link, Return, LocalsSet, Disk, Undefined, DerefLabels
  <2>3. CursorOnRecords'
    BY <1>0, <1>5, <2>1 DEF TableAdd, Link, Return, CursorOnRecords, Disk, LocalsSet, Undefined, DerefLabels
  <2>4. UnderOwnUri'
    <3>1. \A u \in Uris : table'[u] # NULL => uri'[table'[u]] = u
      BY <1>5 DEF TableAdd, Link, Return, UnderOwnUri, Private, LocalsSet
    <3>2. \A v \in Workers : pc'[v] = "rdel" => pc[v] = "rdel" /\ v # w
      BY <1>5 DEF TableAdd, Return, Labels
    <3>3. \A v \in Workers \ {w} : ptr'[v] = ptr[v] /\ key'[v] = key[v]
      BY <1>5 DEF TableAdd, Return
    <3>4. uri' = uri
      BY <1>5 DEF TableAdd
    <3> QED
      BY <3>1, <3>2, <3>3, <3>4 DEF UnderOwnUri
  <2>5. Private'
    BY <1>0, <1>5, <2>1 DEF TableAdd, Link, Return, Private, Disk, LocalsSet, Undefined, DerefLabels
  <2>6. LeftTable'
    BY <1>0, <1>5, <2>1 DEF TableAdd, Link, Return, LeftTable, UnderOwnUri, Private, TableLive, Disk, LocalsSet, Undefined, DerefLabels
  <2>7. TableLive'
    BY <1>0, <1>5, <2>1 DEF TableAdd, Link, Return, TableLive, Private, LeftTable, Disk, LocalsSet, Undefined, DerefLabels
  <2> QED
    BY <2>1, <2>2, <2>3, <2>4, <2>5, <2>6, <2>7
<1>6. CASE Ref(w)
  <2>1. TypeOK'
    <3>1. pc' \in [Workers -> Labels]
      BY <1>6 DEF Ref, Labels, DerefLabels
    <3>2. op' \in [Workers -> Ops]
      BY <1>6 DEF Ref, Ops
    <3>3. /\ ptr' \in [Workers -> Files \cup {NULL}]
          /\ key' \in [Workers -> Uris \cup {NULL}]
      BY <1>0, <1>6 DEF Ref, LocalsSet, Undefined, DerefLabels
    <3>4. \A v \in Workers : pc'[v] \in DerefLabels \cup {"add"} => ptr'[v] \in Files
      BY <1>0, <1>6, <3>3 DEF Ref, CursorOnRecords, Undefined, LocalsSet, DerefLabels
    <3>5. /\ zombie' \in [Files -> Int]
          /\ pending_reqs' \in [Files -> Int]
      BY <1>6 DEF Ref, DerefLabels
    <3>6. req' \in [Sockets -> Files \cup {NULL}]
      BY <1>6 DEF Ref, DerefLabels
    <3> QED
      BY <1>0, <1>6, <3>1, <3>2, <3>3, <3>4, <3>5, <3>6 DEF Ref, DerefLabels, Undefined
  <2>2. LocalsSet'
    BY <1>0, <1>6, <2>1 DEF Ref, LocalsSet, Disk, Undefined, DerefLabels
  <2>3. CursorOnRecords'
    BY <1>0, <1>6, <2>1 DEF Ref, CursorOnRecords, Disk, Undefined, DerefLabels
  <2>4. UnderOwnUri'
    BY <1>0, <1>6, <2>1 DEF Ref, UnderOwnUri, Private, Disk, Undefined, DerefLabels
  <2>5. Private'
    BY <1>0, <1>6, <2>1 DEF Ref, Private, Disk, Undefined, DerefLabels
  <2>6. LeftTable'
    BY <1>0, <1>6, <2>1 DEF Ref, LeftTable, UnderOwnUri, Private, TableLive, Disk, Undefined, DerefLabels
  <2>7. TableLive'
    BY <1>0, <1>6, <2>1 DEF Ref, TableLive, Private, LeftTable, Disk, Undefined, DerefLabels
  <2> QED
    BY <2>1, <2>2, <2>3, <2>4, <2>5, <2>6, <2>7
<1>7. CASE Serve(w)
  <2>1. TypeOK'
    <3>1. pc' \in [Workers -> Labels]
      BY <1>7 DEF Serve, Return, Labels, DerefLabels
    <3>2. op' \in [Workers -> Ops]
      BY <1>7 DEF Serve, Return, Ops
    <3>3. /\ ptr' \in [Workers -> Files \cup {NULL}]
          /\ key' \in [Workers -> Uris \cup {NULL}]
      BY <1>0, <1>7 DEF Serve, Return, LocalsSet, Undefined, DerefLabels
    <3>4. \A v \in Workers : pc'[v] \in DerefLabels \cup {"add"} => ptr'[v] \in Files
      BY <1>0, <1>7, <3>3 DEF Serve, Return, CursorOnRecords, Undefined, LocalsSet, DerefLabels
    <3>5. /\ zombie' \in [Files -> Int]
          /\ pending_reqs' \in [Files -> Int]
      BY <1>7 DEF Serve, Return, DerefLabels
    <3>6. req' \in [Sockets -> Files \cup {NULL}]
      BY <1>7 DEF Serve, Return, DerefLabels
    <3> QED
      BY <1>0, <1>7, <3>1, <3>2, <3>3, <3>4, <3>5, <3>6 DEF Serve, Return, DerefLabels, Undefined
  <2>2. LocalsSet'
    BY <1>0, <1>7, <2>1 DEF Serve, Return, LocalsSet, Disk, Undefined, DerefLabels
  <2>3. CursorOnRecords'
    BY <1>0, <1>7, <2>1 DEF Serve, Return, CursorOnRecords, Disk, Undefined, DerefLabels
  <2>4. UnderOwnUri'
    BY <1>0, <1>7, <2>1 DEF Serve, Return, UnderOwnUri, Private, Disk, Undefined, DerefLabels
  <2>5. Private'
    BY <1>0, <1>7, <2>1 DEF Serve, Return, Private, Disk, Undefined, DerefLabels
  <2>6. LeftTable'
    BY <1>0, <1>7, <2>1 DEF Serve, Return, LeftTable, UnderOwnUri, Private, TableLive, Disk, Undefined, DerefLabels
  <2>7. TableLive'
    BY <1>0, <1>7, <2>1 DEF Serve, Return, TableLive, Private, LeftTable, Disk, Undefined, DerefLabels
  <2> QED
    BY <2>1, <2>2, <2>3, <2>4, <2>5, <2>6, <2>7
<1>8. CASE CacheReqDel(w)
  <2>1. TypeOK'
    <3>1. pc' \in [Workers -> Labels]
      BY <1>8 DEF CacheReqDel, Labels, DerefLabels
    <3>2. op' \in [Workers -> Ops]
      BY <1>8 DEF CacheReqDel, Ops
    <3>3. /\ ptr' \in [Workers -> Files \cup {NULL}]
          /\ key' \in [Workers -> Uris \cup {NULL}]
      BY <1>0, <1>8 DEF CacheReqDel, LocalsSet, Undefined, DerefLabels
    <3>4. \A v \in Workers : pc'[v] \in DerefLabels \cup {"add"} => ptr'[v] \in Files
      BY <1>0, <1>8, <3>3 DEF CacheReqDel, CursorOnRecords, Undefined, LocalsSet, DerefLabels
    <3>5. /\ zombie' \in [Files -> Int]
          /\ pending_reqs' \in [Files -> Int]
      BY <1>8 DEF CacheReqDel, DerefLabels
    <3>6. req' \in [Sockets -> Files \cup {NULL}]
      BY <1>8 DEF CacheReqDel, DerefLabels
    <3> QED
      BY <1>0, <1>8, <3>1, <3>2, <3>3, <3>4, <3>5, <3>6 DEF CacheReqDel, DerefLabels, Undefined
  <2>2. LocalsSet'
    BY <1>0, <1>8, <2>1 DEF CacheReqDel, LocalsSet, Disk, Undefined, DerefLabels
  <2>3. CursorOnRecords'
    BY <1>0, <1>8, <2>1 DEF CacheReqDel, CursorOnRecords, Disk, Undefined, DerefLabels
  <2>4. UnderOwnUri'
    BY <1>0, <1>8, <2>1 DEF CacheReqDel, UnderOwnUri, Private, Disk, Undefined, DerefLabels
  <2>5. Private'
    BY <1>0, <1>8, <2>1 DEF CacheReqDel, Private, Disk, Undefined, DerefLabels
  <2>6. LeftTable'
    BY <1>0, <1>8, <2>1 DEF CacheReqDel, LeftTable, UnderOwnUri, Private, TableLive, Disk, Undefined, DerefLabels
  <2>7. TableLive'
    BY <1>0, <1>8, <2>1 DEF CacheReqDel, TableLive, Private, LeftTable, Disk, Undefined, DerefLabels
  <2> QED
    BY <2>1, <2>2, <2>3, <2>4, <2>5, <2>6, <2>7
<1>9. CASE CacheReqDelZombie(w)
  <2>1. TypeOK'
    <3>1. pc' \in [Workers -> Labels]
      BY <1>9 DEF CacheReqDelZombie, Return, Labels, DerefLabels
    <3>2. op' \in [Workers -> Ops]
      BY <1>9 DEF CacheReqDelZombie, Return, Ops
    <3>3. /\ ptr' \in [Workers -> Files \cup {NULL}]
          /\ key' \in [Workers -> Uris \cup {NULL}]
      BY <1>0, <1>9 DEF CacheReqDelZombie, Return, LocalsSet, Undefined, DerefLabels
    <3>4. \A v \in Workers : pc'[v] \in DerefLabels \cup {"add"} => ptr'[v] \in Files
      BY <1>0, <1>9, <3>3 DEF CacheReqDelZombie, Return, CursorOnRecords, Undefined, LocalsSet, DerefLabels
    <3>5. /\ zombie' \in [Files -> Int]
          /\ pending_reqs' \in [Files -> Int]
      BY <1>9 DEF CacheReqDelZombie, Return, DerefLabels
    <3>6. req' \in [Sockets -> Files \cup {NULL}]
      BY <1>9 DEF CacheReqDelZombie, Return, DerefLabels
    <3> QED
      BY <1>0, <1>9, <3>1, <3>2, <3>3, <3>4, <3>5, <3>6 DEF CacheReqDelZombie, Return, DerefLabels, Undefined
  <2>2. LocalsSet'
    BY <1>0, <1>9, <2>1 DEF CacheReqDelZombie, Return, LocalsSet, Disk, Undefined, DerefLabels
  <2>3. CursorOnRecords'
    BY <1>0, <1>9, <2>1 DEF CacheReqDelZombie, Return, CursorOnRecords, Disk, Undefined, DerefLabels
  <2>4. UnderOwnUri'
    BY <1>0, <1>9, <2>1 DEF CacheReqDelZombie, Return, UnderOwnUri, Private, Disk, Undefined, DerefLabels
  <2>5. Private'
    BY <1>0, <1>9, <2>1 DEF CacheReqDelZombie, Return, Private, Disk, Undefined, DerefLabels
  <2>6. LeftTable'
    BY <1>0, <1>9, <2>1 DEF CacheReqDelZombie, Return, LeftTable, UnderOwnUri, Private, TableLive, Disk, Undefined, DerefLabels
  <2>7. TableLive'
    BY <1>0, <1>9, <2>1 DEF CacheReqDelZombie, Return, TableLive, Private, LeftTable, Disk, Undefined, DerefLabels
  <2> QED
    BY <2>1, <2>2, <2>3, <2>4, <2>5, <2>6, <2>7
<1>10. CASE CacheReqDelPending(w)
  <2>1. TypeOK'
    <3>1. pc' \in [Workers -> Labels]
      BY <1>10 DEF CacheReqDelPending, Return, Labels, DerefLabels
    <3>2. op' \in [Workers -> Ops]
      BY <1>10 DEF CacheReqDelPending, Return, Ops
    <3>3. /\ ptr' \in [Workers -> Files \cup {NULL}]
          /\ key' \in [Workers -> Uris \cup {NULL}]
      BY <1>0, <1>10 DEF CacheReqDelPending, Return, LocalsSet, Undefined, DerefLabels
    <3>4. \A v \in Workers : pc'[v] \in DerefLabels \cup {"add"} => ptr'[v] \in Files
      BY <1>0, <1>10, <3>3 DEF CacheReqDelPending, Return, CursorOnRecords, Undefined, LocalsSet, DerefLabels
    <3>5. /\ zombie' \in [Files -> Int]
          /\ pending_reqs' \in [Files -> Int]
      BY <1>10 DEF CacheReqDelPending, Return, DerefLabels
    <3>6. req' \in [Sockets -> Files \cup {NULL}]
      BY <1>10 DEF CacheReqDelPending, Return, DerefLabels
    <3> QED
      BY <1>0, <1>10, <3>1, <3>2, <3>3, <3>4, <3>5, <3>6 DEF CacheReqDelPending, Return, DerefLabels, Undefined
  <2>2. LocalsSet'
    BY <1>0, <1>10, <2>1 DEF CacheReqDelPending, Return, LocalsSet, Disk, Undefined, DerefLabels
  <2>3. CursorOnRecords'
    BY <1>0, <1>10, <2>1 DEF CacheReqDelPending, Return, CursorOnRecords, Disk, Undefined, DerefLabels
  <2>4. UnderOwnUri'
    BY <1>0, <1>10, <2>1 DEF CacheReqDelPending, Return, UnderOwnUri, Private, Disk, Undefined, DerefLabels
  <2>5. Private'
    BY <1>0, <1>10, <2>1 DEF CacheReqDelPending, Return, Private, Disk, Undefined, DerefLabels
  <2>6. LeftTable'
    BY <1>0, <1>10, <2>1 DEF CacheReqDelPending, Return, LeftTable, UnderOwnUri, Private, TableLive, Disk, Undefined, DerefLabels
  <2>7. TableLive'
    BY <1>0, <1>10, <2>1 DEF CacheReqDelPending, Return, TableLive, Private, LeftTable, Disk, Undefined, DerefLabels
  <2> QED
    BY <2>1, <2>2, <2>3, <2>4, <2>5, <2>6, <2>7
<1>11. CASE ResetFetch(w)
  BY <1>0, <1>11 DEF ResetFetch, Undefined, Labels, Ops, DerefLabels,
     LocalsSet, CursorOnRecords, UnderOwnUri, Private, LeftTable, TableLive, Disk
<1>12. CASE ResetDelete(w)
  BY <1>0, <1>12 DEF ResetDelete, AfterReset, Unlink, Undefined, Labels, Ops, DerefLabels,
     LocalsSet, CursorOnRecords, UnderOwnUri, Private, LeftTable, TableLive, Disk
<1>13. CASE ResetZombie(w)
  BY <1>0, <1>13 DEF ResetZombie, Undefined, Labels, Ops, DerefLabels,
     LocalsSet, CursorOnRecords, UnderOwnUri, Private, LeftTable, TableLive, Disk
<1>14. CASE ResetPending(w)
  BY <1>0, <1>14 DEF ResetPending, AfterReset, Undefined, Labels, Ops, DerefLabels,
     LocalsSet, CursorOnRecords, UnderOwnUri, Private, LeftTable, TableLive, Disk
<1>15. CASE CacheFileFree(w)
  <2>1. TypeOK'
    <3>1. pc' \in [Workers -> Labels]
      BY <1>15, SMTT(30) DEF CacheFileFree, Return, AfterReset, Labels, DerefLabels
    <3>2. op' \in [Workers -> Ops]
      BY <1>15 DEF CacheFileFree, Return, AfterReset, Ops
    <3>3. /\ ptr' \in [Workers -> Files \cup {NULL}]
          /\ key' \in [Workers -> Uris \cup {NULL}]
      BY <1>0, <1>15 DEF CacheFileFree, Return, AfterReset, LocalsSet, Undefined, DerefLabels
    <3>4. \A v \in Workers : pc'[v] \in DerefLabels \cup {"add"} => ptr'[v] \in Files
      BY <1>0, <1>15, <3>3 DEF CacheFileFree, Return, AfterReset, CursorOnRecords, Undefined, LocalsSet, DerefLabels
    <3>5. /\ zombie' \in [Files -> Int]
          /\ pending_reqs' \in [Files -> Int]
      BY <1>15 DEF CacheFileFree, Return, AfterReset, DerefLabels
    <3>6. req' \in [Sockets -> Files \cup {NULL}]
      BY <1>15 DEF CacheFileFree, Return, AfterReset, DerefLabels
    <3> QED
      BY <1>0, <1>15, <3>1, <3>2, <3>3, <3>4, <3>5, <3>6 DEF CacheFileFree, Return, AfterReset, DerefLabels, Undefined
  <2>2. LocalsSet'
    BY <1>0, <1>15, <2>1 DEF CacheFileFree, Return, AfterReset, LocalsSet, Disk, Undefined, DerefLabels
  <2>3. CursorOnRecords'
    BY <1>0, <1>15, <2>1 DEF CacheFileFree, Return, AfterReset, CursorOnRecords, Disk, Undefined, DerefLabels
  <2>4. UnderOwnUri'
    BY <1>0, <1>15, <2>1 DEF CacheFileFree, Return, AfterReset, UnderOwnUri, Private, Disk, Undefined, DerefLabels
  <2>5. Private'
    BY <1>0, <1>15, <2>1 DEF CacheFileFree, Return, AfterReset, Private, Disk, Undefined, DerefLabels
  <2>6. LeftTable'
    BY <1>0, <1>15, <2>1 DEF CacheFileFree, Return, AfterReset, LeftTable, UnderOwnUri, Private, TableLive, Disk, Undefined, DerefLabels
  <2>7. TableLive'
    BY <1>0, <1>15, <2>1 DEF CacheFileFree, Return, AfterReset, TableLive, Private, LeftTable, Disk, Undefined, DerefLabels
  <2> QED
    BY <2>1, <2>2, <2>3, <2>4, <2>5, <2>6, <2>7
<1>16. CASE CacheFileTmpGet(w)
  BY <1>0, <1>16 DEF CacheFileTmpGet, Undefined, Labels, Ops, DerefLabels,
     LocalsSet, CursorOnRecords, UnderOwnUri, Private, LeftTable, TableLive, Disk
<1>17. CASE CacheFileTmp(w)
  <2>1. TypeOK'
    <3>1. pc' \in [Workers -> Labels]
      BY <1>17 DEF CacheFileTmp, Fresh, Labels, DerefLabels
    <3>2. op' \in [Workers -> Ops]
      BY <1>17 DEF CacheFileTmp, Fresh, Ops
    <3>3. /\ ptr' \in [Workers -> Files \cup {NULL}]
          /\ key' \in [Workers -> Uris \cup {NULL}]
      BY <1>0, <1>17 DEF CacheFileTmp, Fresh, LocalsSet, Undefined, DerefLabels
    <3>4. \A v \in Workers : pc'[v] \in DerefLabels \cup {"add"} => ptr'[v] \in Files
      BY <1>0, <1>17, <3>3 DEF CacheFileTmp, Fresh, CursorOnRecords, Undefined, LocalsSet, DerefLabels
    <3>5. /\ zombie' \in [Files -> Int]
          /\ pending_reqs' \in [Files -> Int]
      BY <1>17 DEF CacheFileTmp, Fresh, DerefLabels
    <3>7. evictable' \in [Files -> BOOLEAN]
      BY <1>17 DEF CacheFileTmp, Fresh
    <3>8. stale' \in [Files -> BOOLEAN]
      BY <1>17 DEF CacheFileTmp, Fresh
    <3>9. /\ uri' \in [Files -> Uris \cup {NULL}]
          /\ alloc' \subseteq Files
      BY <1>17 DEF CacheFileTmp, Fresh
    <3>6. req' \in [Sockets -> Files \cup {NULL}]
      BY <1>17 DEF CacheFileTmp, Fresh, DerefLabels
    <3> QED
      BY <1>0, <1>17, <3>1, <3>2, <3>3, <3>4, <3>5, <3>6, <3>7, <3>8, <3>9 DEF CacheFileTmp, Fresh, DerefLabels, Undefined
  <2>2. LocalsSet'
    BY <1>0, <1>17, <2>1 DEF CacheFileTmp, Fresh, LocalsSet, Disk, Undefined, DerefLabels
  <2>3. CursorOnRecords'
    BY <1>0, <1>17, <2>1 DEF CacheFileTmp, Fresh, CursorOnRecords, Disk, Undefined, DerefLabels
  <2>4. UnderOwnUri'
    BY <1>0, <1>17, <2>1 DEF CacheFileTmp, Fresh, UnderOwnUri, Private, Disk, Undefined, DerefLabels
  <2>5. Private'
    BY <1>0, <1>17, <2>1 DEF CacheFileTmp, Fresh, Private, Disk, Undefined, DerefLabels
  <2>6. LeftTable'
    BY <1>0, <1>17, <2>1 DEF CacheFileTmp, Fresh, LeftTable, UnderOwnUri, Private, TableLive, Disk, Undefined, DerefLabels
  <2>7. TableLive'
    BY <1>0, <1>17, <2>1 DEF CacheFileTmp, Fresh, TableLive, Private, LeftTable, Disk, Undefined, DerefLabels
  <2> QED
    BY <2>1, <2>2, <2>3, <2>4, <2>5, <2>6, <2>7
<1>18. CASE Ack(w)
  BY <1>0, <1>18 DEF Ack, Return, Undefined, Labels, Ops, DerefLabels,
     LocalsSet, CursorOnRecords, UnderOwnUri, Private, LeftTable, TableLive, Disk
<1>19. CASE TableEachNext(w)
  <2>1. TypeOK'
    <3>1. pc' \in [Workers -> Labels]
      BY <1>19 DEF TableEachNext, Return, Advance, Labels, DerefLabels
    <3>2. op' \in [Workers -> Ops]
      BY <1>19 DEF TableEachNext, Return, Advance, Ops
    <3>3. /\ ptr' \in [Workers -> Files \cup {NULL}]
          /\ key' \in [Workers -> Uris \cup {NULL}]
      BY <1>0, <1>19 DEF TableEachNext, Return, Advance, LocalsSet, Undefined, DerefLabels
    <3>4. \A v \in Workers : pc'[v] \in DerefLabels \cup {"add"} => ptr'[v] \in Files
      BY <1>0, <1>19, <3>3 DEF TableEachNext, Return, Advance, CursorOnRecords, Undefined, LocalsSet, DerefLabels
    <3>5. /\ zombie' \in [Files -> Int]
          /\ pending_reqs' \in [Files -> Int]
      BY <1>19 DEF TableEachNext, Return, Advance, DerefLabels
    <3>6. req' \in [Sockets -> Files \cup {NULL}]
      BY <1>19 DEF TableEachNext, Return, Advance, DerefLabels
    <3> QED
      BY <1>0, <1>19, <3>1, <3>2, <3>3, <3>4, <3>5, <3>6, SMTT(30) DEF TableEachNext, Return, Advance, DerefLabels, Undefined
  <2>2. LocalsSet'
    BY <1>0, <1>19, <2>1, SMTT(30) DEF TableEachNext, Return, Advance, LocalsSet, Disk, Undefined, DerefLabels
  <2>3. CursorOnRecords'
    BY <1>0, <1>19, <2>1 DEF TableEachNext, Return, Advance, CursorOnRecords, Disk, Undefined, DerefLabels
  <2>4. UnderOwnUri'
    BY <1>0, <1>19, <2>1 DEF TableEachNext, Return, Advance, UnderOwnUri, Private, Disk, Undefined, DerefLabels
  <2>5. Private'
    BY <1>0, <1>19, <2>1 DEF TableEachNext, Return, Advance, Private, Disk, Undefined, DerefLabels
  <2>6. LeftTable'
    BY <1>0, <1>19, <2>1 DEF TableEachNext, Return, Advance, LeftTable, UnderOwnUri, Private, TableLive, Disk, Undefined, DerefLabels
  <2>7. TableLive'
    BY <1>0, <1>19, <2>1 DEF TableEachNext, Return, Advance, TableLive, Private, LeftTable, Disk, Undefined, DerefLabels
  <2> QED
    BY <2>1, <2>2, <2>3, <2>4, <2>5, <2>6, <2>7
<1>20. CASE Callback(w)
  <2>1. TypeOK'
    <3>1. pc' \in [Workers -> Labels]
      BY <1>20 DEF Callback, Labels, DerefLabels
    <3>2. op' \in [Workers -> Ops]
      BY <1>20 DEF Callback, Ops
    <3>3. /\ ptr' \in [Workers -> Files \cup {NULL}]
          /\ key' \in [Workers -> Uris \cup {NULL}]
      BY <1>0, <1>20 DEF Callback, LocalsSet, Undefined, DerefLabels
    <3>4. \A v \in Workers : pc'[v] \in DerefLabels \cup {"add"} => ptr'[v] \in Files
      BY <1>0, <1>20, <3>3 DEF Callback, CursorOnRecords, Undefined, LocalsSet, DerefLabels
    <3>5. /\ zombie' \in [Files -> Int]
          /\ pending_reqs' \in [Files -> Int]
      BY <1>20 DEF Callback, DerefLabels
    <3>6. req' \in [Sockets -> Files \cup {NULL}]
      BY <1>20 DEF Callback, DerefLabels
    <3> QED
      BY <1>0, <1>20, <3>1, <3>2, <3>3, <3>4, <3>5, <3>6 DEF Callback, DerefLabels, Undefined
  <2>2. LocalsSet'
    BY <1>0, <1>20, <2>1 DEF Callback, LocalsSet, Disk, Undefined, DerefLabels
  <2>3. CursorOnRecords'
    BY <1>0, <1>20, <2>1 DEF Callback, CursorOnRecords, Disk, Undefined, DerefLabels
  <2>4. UnderOwnUri'
    BY <1>0, <1>20, <2>1 DEF Callback, UnderOwnUri, Private, Disk, Undefined, DerefLabels
  <2>5. Private'
    BY <1>0, <1>20, <2>1 DEF Callback, Private, Disk, Undefined, DerefLabels
  <2>6. LeftTable'
    BY <1>0, <1>20, <2>1 DEF Callback, LeftTable, UnderOwnUri, Private, TableLive, Disk, Undefined, DerefLabels
  <2>7. TableLive'
    BY <1>0, <1>20, <2>1 DEF Callback, TableLive, Private, LeftTable, Disk, Undefined, DerefLabels
  <2> QED
    BY <2>1, <2>2, <2>3, <2>4, <2>5, <2>6, <2>7
<1>21. CASE TableEach(w)
  <2>1. TypeOK'
    <3>1. pc' \in [Workers -> Labels]
      BY <1>21 DEF TableEach, Advance, Enter, Keys, Labels, DerefLabels
    <3>2. op' \in [Workers -> Ops]
      BY <1>21 DEF TableEach, Advance, Enter, Keys, Ops
    <3>3. /\ ptr' \in [Workers -> Files \cup {NULL}]
          /\ key' \in [Workers -> Uris \cup {NULL}]
      BY <1>0, <1>21 DEF TableEach, Advance, Enter, Keys, LocalsSet, Undefined, DerefLabels
    <3>4. \A v \in Workers : pc'[v] \in DerefLabels \cup {"add"} => ptr'[v] \in Files
      BY <1>0, <1>21, <3>3 DEF TableEach, Advance, Enter, Keys, CursorOnRecords, Undefined, LocalsSet, DerefLabels
    <3>5. /\ zombie' \in [Files -> Int]
          /\ pending_reqs' \in [Files -> Int]
      BY <1>21 DEF TableEach, Advance, Enter, Keys, DerefLabels
    <3>6. req' \in [Sockets -> Files \cup {NULL}]
      BY <1>21 DEF TableEach, Advance, Enter, Keys, DerefLabels
    <3> QED
      BY <1>0, <1>21, <3>1, <3>2, <3>3, <3>4, <3>5, <3>6 DEF TableEach, Advance, Enter, Keys, DerefLabels, Undefined
  <2>2. LocalsSet'
    BY <1>0, <1>21, <2>1 DEF TableEach, Advance, Enter, Keys, LocalsSet, Disk, Undefined, DerefLabels
  <2>3. CursorOnRecords'
    BY <1>0, <1>21, <2>1 DEF TableEach, Advance, Enter, Keys, CursorOnRecords, Disk, Undefined, DerefLabels
  <2>4. UnderOwnUri'
    BY <1>0, <1>21, <2>1 DEF TableEach, Advance, Enter, Keys, UnderOwnUri, Private, Disk, Undefined, DerefLabels
  <2>5. Private'
    BY <1>0, <1>21, <2>1 DEF TableEach, Advance, Enter, Keys, Private, Disk, Undefined, DerefLabels
  <2>6. LeftTable'
    BY <1>0, <1>21, <2>1 DEF TableEach, Advance, Enter, Keys, LeftTable, UnderOwnUri, Private, TableLive, Disk, Undefined, DerefLabels
  <2>7. TableLive'
    BY <1>0, <1>21, <2>1 DEF TableEach, Advance, Enter, Keys, TableLive, Private, LeftTable, Disk, Undefined, DerefLabels
  <2> QED
    BY <2>1, <2>2, <2>3, <2>4, <2>5, <2>6, <2>7
<1>22. ASSUME NEW s \in Sockets, NEW u \in Uris, Stage30(w, s, u)
      PROVE  IInv'
  BY <1>22 DEF Stage30, Enter, Labels, Ops, DerefLabels, LocalsSet, CursorOnRecords, UnderOwnUri, Private, LeftTable, TableLive, Disk
<1>23. ASSUME NEW s \in Sockets, EventWrite(w, s)
      PROVE  IInv'
  BY <1>23 DEF EventWrite, Enter, Labels, Ops, DerefLabels, LocalsSet, CursorOnRecords, UnderOwnUri, Private, LeftTable, TableLive, Disk
<1>24. ASSUME NEW s \in Sockets, EventDrop(w, s)
      PROVE  IInv'
  BY <1>24 DEF EventDrop, Enter, Labels, Ops, DerefLabels, LocalsSet, CursorOnRecords, UnderOwnUri, Private, LeftTable, TableLive, Disk
<1>25. ASSUME NEW u \in Uris, ServeReset(w, u)
      PROVE  IInv'
  BY <1>25 DEF ServeReset, Enter, Labels, Ops, DerefLabels, LocalsSet, CursorOnRecords, UnderOwnUri, Private, LeftTable, TableLive, Disk
<1>26. ASSUME NEW u \in Uris, ServeAdd(w, u)
      PROVE  IInv'
  BY <1>26 DEF ServeAdd, Enter, Labels, Ops, DerefLabels, LocalsSet, CursorOnRecords, UnderOwnUri, Private, LeftTable, TableLive, Disk
<1>27. QED
  BY <1>1, <1>2, <1>3, <1>4, <1>5, <1>6, <1>7, <1>8, <1>9, <1>10, <1>11, <1>12, <1>13, <1>14, <1>15, <1>16, <1>17, <1>18, <1>19, <1>20, <1>21, <1>22, <1>23, <1>24, <1>25, <1>26 DEF WorkerNext, Event, Step

\* Time passing changes only when a file was last used.
LEMMA TimeStep ==
    ASSUME IInv, NEW f \in Files, TimePasses(f)
    PROVE  IInv'
<1>1. TypeOK'
  BY DEF IInv, TypeOK, TimePasses
<1>2. LocalsSet' /\ CursorOnRecords' /\ UnderOwnUri'
  BY DEF IInv, LocalsSet, CursorOnRecords, UnderOwnUri, TimePasses
<1>3. Private' /\ LeftTable' /\ TableLive'
  BY DEF IInv, Private, LeftTable, TableLive, Disk, TimePasses
<1> QED
  BY <1>1, <1>2, <1>3 DEF IInv

LEMMA InitInductive == Init => IInv
<1> SUFFICES ASSUME Init PROVE IInv
  OBVIOUS
<1>1. TypeOK
  <2>1. /\ pc \in [Workers -> Labels]
        /\ \A w \in Workers : pc[w] \notin DerefLabels \cup {"add"}
    BY DEF Init, Labels, DerefLabels
  <2>2. op \in [Workers -> Ops]
    BY DEF Init, Ops
  <2>3. /\ evictable \in [Files -> BOOLEAN] /\ stale \in [Files -> BOOLEAN]
        /\ bug \in BOOLEAN
    BY DEF Init
  <2>4. zombie \in [Files -> Int] /\ pending_reqs \in [Files -> Int]
    BY DEF Init
  <2> QED
    BY <2>1, <2>2, <2>3, <2>4 DEF Init, TypeOK
<1>2. LocalsSet /\ CursorOnRecords /\ UnderOwnUri
  BY ConstantsAssumption
     DEF Init, LocalsSet, CursorOnRecords, UnderOwnUri
<1>3. Private /\ LeftTable /\ TableLive
  BY ConstantsAssumption
     DEF Init, Private, LeftTable, TableLive, Disk
<1> QED
  BY <1>1, <1>2, <1>3 DEF IInv

LEMMA StutterInductive == ASSUME IInv, UNCHANGED vars PROVE IInv'
BY DEF IInv, TypeOK, LocalsSet, CursorOnRecords, UnderOwnUri, Private,
       LeftTable, TableLive, Disk, vars

\* The inductive invariant holds for every number of workers, whatever the
\* order of their steps.
THEOREM Inductive == Spec => []IInv
<1>1. IInv /\ [Next]_vars => IInv'
  BY InductiveStep, TimeStep, StutterInductive DEF Next
<1> QED
  BY <1>1, InitInductive, PTL DEF Spec

\* Every handler works on values of the right type; no null pointer is used
\* (cache.c:390-396, cache_file.c:61-68).
THEOREM TypeCorrect == Spec => []TypeOK
<1>1. IInv => TypeOK
  BY DEF IInv
<1> QED
  BY <1>1, Inductive, PTL

\* The table never hands out a freed file or a zombie made from a file on
\* disk, whatever the interleaving of any number of workers
\* (cache_file.c:61-68, cache_req.c:94-98).
THEOREM TableIsLive == Spec => []TableLive
<1>1. IInv => TableLive
  BY DEF IInv
<1> QED
  BY <1>1, Inductive, PTL

------------------------------------------------------------------------------
(* The reference count *)

\* Where a handler is about to enter its request in curr_reqs, the connection
\* has none; where it serves or ends the request, that is the one it holds.
SockSet ==
    \A w \in Workers :
        /\ \/ pc[w] \in {"get", "touch", "new", "open", "ref"}
           \/ pc[w] = "add" /\ op[w] # "add"
           => /\ sock[w] \in Sockets /\ WorkerOf[sock[w]] = w
              /\ req[sock[w]] = NULL
        /\ pc[w] \in {"serve", "del"} =>
              /\ sock[w] \in Sockets /\ WorkerOf[sock[w]] = w
              /\ req[sock[w]] = ptr[w]
        /\ pc[w] \in {"tmpget", "tmpopen"} => op[w] = "add"

LEMMA SockStep ==
    ASSUME IInv, SockSet, NEW w \in Workers, WorkerNext(w)
    PROVE  SockSet'
<1> USE ConstantsAssumption DEF SockSet
<1>0. TypeOK
  BY DEF IInv
<1>1. CASE Event(w)
  BY <1>0, <1>1 DEF Event, Stage30, EventWrite, EventDrop, ServeReset, ServeAdd,
     TableEach, Enter, TypeOK
<1>2. CASE CacheFileGet(w) \/ CacheFileTouch(w) \/ CacheFileNew(w)
           \/ CacheFileOpen(w) \/ TableAdd(w)
  BY <1>0, <1>2 DEF CacheFileGet, CacheFileTouch, CacheFileNew, CacheFileOpen,
     TableAdd, Return, TypeOK
<1>3. CASE Ref(w) \/ Serve(w) \/ CacheReqDel(w)
  BY <1>0, <1>3 DEF Ref, Serve, CacheReqDel, Return, TypeOK
<1>4. CASE CacheReqDelZombie(w) \/ CacheReqDelPending(w) \/ CacheFileFree(w)
  BY <1>0, <1>4 DEF CacheReqDelZombie, CacheReqDelPending, CacheFileFree,
     Return, AfterReset, TypeOK
<1>5. CASE ResetFetch(w) \/ ResetDelete(w) \/ ResetZombie(w) \/ ResetPending(w)
  BY <1>0, <1>5 DEF ResetFetch, ResetDelete, ResetZombie, ResetPending,
     AfterReset, TypeOK
<1>6. CASE CacheFileTmpGet(w) \/ Ack(w)
  BY <1>0, <1>6 DEF CacheFileTmpGet, Ack, Return, TypeOK
<1>7. CASE CacheFileTmp(w)
  <2>1. /\ pc[w] = "tmpopen" /\ op[w] = "add"
        /\ UNCHANGED <<req, sock, op>>
        /\ \E l \in {"ack", "add"} : pc' = [pc EXCEPT ![w] = l]
        /\ \A v \in Workers \ {w} : ptr'[v] = ptr[v]
    BY <1>0, <1>7 DEF CacheFileTmp, Goto, TypeOK
  <2> QED
    BY <1>0, <2>1 DEF TypeOK
<1>8. CASE TableEachNext(w)
  <2>1. /\ UNCHANGED req
        /\ \/ Return(w)
           \/ /\ Goto(w, "cb") /\ UNCHANGED <<op, sock>>
              /\ ptr' = [ptr EXCEPT ![w] = table[cur[w]]]
    BY <1>8 DEF TableEachNext
  <2> QED
    BY <1>0, <2>1 DEF Return, Goto, TypeOK
<1>9. CASE Callback(w)
  <2>1. /\ UNCHANGED <<req, op, sock>>
        /\ \E l \in {"rfetch", "each"} : Goto(w, l)
        /\ ptr' = [ptr EXCEPT ![w] = NULL]
    BY <1>9 DEF Callback
  <2> QED
    BY <1>0, <2>1 DEF Goto, TypeOK
<1> QED
  BY <1>1, <1>2, <1>3, <1>4, <1>5, <1>6, <1>7, <1>8, <1>9 DEF WorkerNext, Step

\* A step that leaves requests and counts alone keeps them in agreement.
LEMMA CountFrame ==
    ASSUME RefCount, UNCHANGED <<req, pending_reqs, evictable>>
    PROVE  RefCount'
BY DEF RefCount, Holders, Disk

LEMMA HoldersFinite ==
    ASSUME NEW f PROVE IsFiniteSet(Holders(f)) /\ Cardinality(Holders(f)) \in Nat
BY ConstantsAssumption, FS_Subset, FS_CardinalityType DEF Holders

LEMMA CountStep ==
    ASSUME IInv, SockSet, RefCount, NEW w \in Workers, WorkerNext(w)
    PROVE  RefCount'
<1> USE ConstantsAssumption
<1>0. TypeOK
  BY DEF IInv
<1>1. CASE Event(w)
  <2>1. UNCHANGED <<req, pending_reqs, evictable>>
    BY <1>1 DEF Event, Stage30, EventWrite, EventDrop, ServeReset, ServeAdd, TableEach
  <2> QED
    BY <2>1, CountFrame
\* A new file has no holders and no count.
<1>2. CASE CacheFileOpen(w)
  <2>1. CASE UNCHANGED <<req, pending_reqs, evictable>>
    BY <2>1, CountFrame
  <2>2. ASSUME NEW f \in Files, Fresh(f),
               pending_reqs' = [pending_reqs EXCEPT ![f] = 0],
               evictable' = [evictable EXCEPT ![f] = TRUE], UNCHANGED req
        PROVE  RefCount'
    <3>1. Holders(f) = {}
      BY <2>2 DEF Fresh, Holders
    <3>2. ASSUME NEW g \in Files, Disk(g)'
          PROVE  pending_reqs'[g] = Cardinality(Holders(g)')
      <4>1. Holders(g)' = Holders(g)
        BY <2>2 DEF Holders
      <4>2. CASE g = f
        BY <1>0, <2>2, <3>1, <4>1, <4>2, FS_EmptySet DEF TypeOK
      <4>3. CASE g # f
        BY <1>0, <2>2, <3>2, <4>1, <4>3 DEF RefCount, Disk, TypeOK
      <4> QED
        BY <4>2, <4>3
    <3> QED
      BY <3>2 DEF RefCount
  <2> QED
    BY <1>2, <2>1, <2>2 DEF CacheFileOpen
\* A file of the add API is not counted on.
<1>3. CASE CacheFileTmp(w)
  <2>1. CASE UNCHANGED <<req, pending_reqs, evictable>>
    BY <2>1, CountFrame
  <2>2. ASSUME NEW f \in Files, NEW p \in Garbage,
               pending_reqs' = [pending_reqs EXCEPT ![f] = p],
               evictable' = [evictable EXCEPT ![f] = FALSE], UNCHANGED req
        PROVE  RefCount'
    BY <1>0, <2>2 DEF RefCount, Disk, Holders, TypeOK
  <2> QED
    BY <1>3, <2>1, <2>2 DEF CacheFileTmp
\* The request enters curr_reqs as it is counted.
<1>4. CASE Ref(w)
  <2>1. /\ sock[w] \in Sockets /\ req[sock[w]] = NULL
        /\ ptr[w] \in Files
    BY <1>0, <1>4 DEF Ref, SockSet, TypeOK, DerefLabels
  <2>2. ASSUME NEW g \in Files, Disk(g)'
        PROVE  pending_reqs'[g] = Cardinality(Holders(g)')
    <3>1. Disk(g)
      BY <1>4, <2>2 DEF Ref, Disk
    <3>2. CASE g = ptr[w]
      <4>1. Holders(g)' = Holders(g) \cup {sock[w]} /\ sock[w] \notin Holders(g)
        BY <1>0, <1>4, <2>1, <3>2 DEF Ref, Holders, TypeOK
      <4>2. Cardinality(Holders(g)') = Cardinality(Holders(g)) + 1
        BY <4>1, HoldersFinite, FS_AddElement
      <4> QED
        BY <1>0, <1>4, <2>1, <3>1, <3>2, <4>2 DEF Ref, RefCount, TypeOK
    <3>3. CASE g # ptr[w]
      <4>1. Holders(g)' = Holders(g)
        BY <1>0, <1>4, <2>1, <3>3 DEF Ref, Holders, TypeOK
      <4> QED
        BY <1>0, <1>4, <3>1, <3>3, <4>1 DEF Ref, RefCount, TypeOK
    <3> QED
      BY <3>2, <3>3
  <2> QED
    BY <2>2 DEF RefCount
\* It leaves curr_reqs as the count goes down.
<1>5. CASE CacheReqDel(w)
  <2>1. /\ sock[w] \in Sockets /\ req[sock[w]] = ptr[w]
        /\ ptr[w] \in Files
    BY <1>0, <1>5 DEF CacheReqDel, SockSet, TypeOK, DerefLabels
  <2>2. ASSUME NEW g \in Files, Disk(g)'
        PROVE  pending_reqs'[g] = Cardinality(Holders(g)')
    <3>1. Disk(g)
      BY <1>5, <2>2 DEF CacheReqDel, Disk
    <3>2. CASE g = ptr[w]
      <4>1. Holders(g)' = Holders(g) \ {sock[w]} /\ sock[w] \in Holders(g)
        BY <1>0, <1>5, <2>1, <3>2 DEF CacheReqDel, Holders, TypeOK
      <4>2. Cardinality(Holders(g)') = Cardinality(Holders(g)) - 1
        <5>1. IsFiniteSet(Holders(g)) /\ sock[w] \in Holders(g)
          BY <4>1, HoldersFinite
        <5>2. Cardinality(Holders(g) \ {sock[w]}) = Cardinality(Holders(g)) - 1
          BY <5>1, FS_RemoveElement
        <5> QED
          BY <5>2, <4>1
      <4> QED
        BY <1>0, <1>5, <2>1, <3>1, <3>2, <4>2 DEF CacheReqDel, RefCount, TypeOK
    <3>3. CASE g # ptr[w]
      <4>1. Holders(g)' = Holders(g)
        BY <1>0, <1>5, <2>1, <3>3 DEF CacheReqDel, Holders, TypeOK
      <4> QED
        BY <1>0, <1>5, <3>1, <3>3, <4>1 DEF CacheReqDel, RefCount, TypeOK
    <3> QED
      BY <3>2, <3>3
  <2> QED
    BY <2>2 DEF RefCount
<1>6. CASE Step(w) /\ ~CacheFileOpen(w) /\ ~CacheFileTmp(w) /\ ~Ref(w)
           /\ ~CacheReqDel(w)
  <2>1. UNCHANGED <<req, pending_reqs, evictable>>
    BY <1>6 DEF Step, CacheFileGet, CacheFileTouch, CacheFileNew, TableAdd,
       Serve, CacheReqDelZombie, CacheReqDelPending, ResetFetch, ResetDelete,
       ResetZombie, ResetPending, CacheFileFree, CacheFileTmpGet, Ack,
       TableEachNext, Callback
  <2> QED
    BY <2>1, CountFrame
<1> QED
  BY <1>1, <1>2, <1>3, <1>4, <1>5, <1>6 DEF WorkerNext

LEMMA Counting == Spec => [](SockSet /\ RefCount)
<1>1. Init => SockSet /\ RefCount
  BY DEF Init, SockSet, RefCount, Disk
<1>2. IInv /\ SockSet /\ RefCount /\ [Next]_vars => (SockSet /\ RefCount)'
  <2> SUFFICES ASSUME IInv, SockSet, RefCount, [Next]_vars
               PROVE  (SockSet /\ RefCount)'
    OBVIOUS
  <2>1. ASSUME NEW w \in Workers, WorkerNext(w)
        PROVE  (SockSet /\ RefCount)'
    BY <2>1, SockStep, CountStep
  <2>2. ASSUME NEW f \in Files, TimePasses(f)
        PROVE  (SockSet /\ RefCount)'
    BY <2>2, CountFrame DEF TimePasses, SockSet
  <2>3. CASE UNCHANGED vars
    BY <2>3, CountFrame DEF vars, SockSet
  <2> QED
    BY <2>1, <2>2, <2>3 DEF Next
<1> QED
  BY <1>1, <1>2, Inductive, PTL DEF Spec

\* pending_reqs of a disk file counts its holders exactly, whatever the
\* interleaving of any number of workers (cache.c:407, cache_req.c:94).
THEOREM RefCountExact == Spec => []RefCount
  BY Counting, PTL

(***************************************************************************)
(* The table as a component of its own.                                    *)
(***************************************************************************)

\* A step of a worker that is none of the table's leaves the table alone.
LEMMA OtherSteps ==
    ASSUME IInv, NEW w \in Workers, WorkerNext(w),
           ~TableAdd(w), ~ResetDelete(w), ~TableEach(w), ~TableEachNext(w)
    PROVE  UNCHANGED <<table, cur, todo>>
<1>1. CASE Event(w)
  BY <1>1 DEF Event, Stage30, EventWrite, EventDrop, ServeReset, ServeAdd
<1>2. CASE CacheFileGet(w) \/ CacheFileTouch(w) \/ CacheFileNew(w)
           \/ CacheFileOpen(w) \/ Ref(w) \/ Serve(w)
  BY <1>2 DEF CacheFileGet, CacheFileTouch, CacheFileNew, CacheFileOpen,
     Ref, Serve, Return
<1>3. CASE CacheReqDel(w) \/ CacheReqDelZombie(w) \/ CacheReqDelPending(w)
           \/ CacheFileFree(w) \/ CacheFileTmpGet(w) \/ CacheFileTmp(w) \/ Ack(w)
  BY <1>3 DEF CacheReqDel, CacheReqDelZombie, CacheReqDelPending,
     CacheFileFree, CacheFileTmpGet, CacheFileTmp, Ack, Return
<1>4. CASE ResetFetch(w) \/ ResetZombie(w) \/ ResetPending(w) \/ Callback(w)
  BY <1>4 DEF ResetFetch, ResetZombie, ResetPending, Callback
<1> QED
  BY <1>1, <1>2, <1>3, <1>4 DEF WorkerNext, Step

\* Each of the others is one call of Table.
LEMMA TableSteps ==
    ASSUME IInv, NEW w \in Workers, WorkerNext(w)
    PROVE  [Tbl!Next]_(Tbl!vars)
<1> USE DEF Tbl!vars
<1>1. CASE TableAdd(w)
  <2>1. key[w] \in Uris /\ ptr[w] \in Files
    BY <1>1 DEF TableAdd, IInv, TypeOK, LocalsSet
  <2>2. CASE Link(key[w], ptr[w])
    <3>1. Tbl!Store(key[w], ptr[w])
      BY <2>2 DEF Link, Tbl!Store
    <3> QED
      BY <2>1, <3>1 DEF Tbl!Next
  <2>3. CASE UNCHANGED <<table, cur, todo>>
    BY <2>3
  <2> QED
    BY <1>1, <2>2, <2>3 DEF TableAdd, Return
<1>2. CASE ResetDelete(w)
  <2>1. key[w] \in Uris /\ Unlink(key[w])
    BY <1>2 DEF ResetDelete, IInv, LocalsSet
  <2>2. CASE table[key[w]] # NULL
    <3>1. Tbl!Delete(key[w])
      BY <2>1, <2>2 DEF Unlink, Tbl!Delete
    <3> QED
      BY <2>1, <3>1 DEF Tbl!Next
  <2>3. CASE table[key[w]] = NULL
    <3>1. table' = table /\ cur' = cur
      BY <2>1, <2>3 DEF Unlink, IInv, TypeOK
    <3>2. \A v \in Workers : todo[v] \ {key[w]} = todo[v]
      BY <2>1, <2>3 DEF IInv, CursorOnRecords
    <3>3. todo' = todo
      BY <2>1, <2>3, <3>2 DEF Unlink, IInv, TypeOK
    <3> QED
      BY <3>1, <3>3
  <2> QED
    BY <2>2, <2>3
<1>3. CASE TableEach(w)
  <2>1. Tbl!First(w)
    BY <1>3 DEF TableEach, Advance, Keys, Tbl!First, Tbl!MoveTo, Tbl!Present
  <2> QED
    BY <2>1 DEF Tbl!Next
<1>4. CASE TableEachNext(w)
  <2>1. CASE cur[w] = NULL
    BY <1>4, <2>1 DEF TableEachNext, Return
  <2>2. CASE cur[w] # NULL
    <3>1. cur[w] # Dangling
      BY <1>4 DEF TableEachNext, WorkerNext, Undefined
    <3>2. Tbl!Advance(w)
      BY <1>4, <2>2, <3>1 DEF TableEachNext, Advance, Tbl!Advance, Tbl!MoveTo
    <3> QED
      BY <3>2 DEF Tbl!Next
  <2> QED
    BY <2>1, <2>2
<1> QED
  BY <1>1, <1>2, <1>3, <1>4, OtherSteps

\* What all workers together do to the table, and what their iterations meet
\* in it, is what Table allows, for any number of workers and URIs: CacheFile
\* relies on nothing else of the table (unqlite_ht.c:34-89).
THEOREM UsesTable == Spec => TableSpec
<1>1. Init => Tbl!Init
  BY DEF Init, Tbl!Init
<1>2. IInv /\ [Next]_vars => [Tbl!Next]_(Tbl!vars)
  <2> SUFFICES ASSUME IInv, [Next]_vars
               PROVE  [Tbl!Next]_(Tbl!vars)
    OBVIOUS
  <2>1. ASSUME NEW w \in Workers, WorkerNext(w)
        PROVE  [Tbl!Next]_(Tbl!vars)
    BY <2>1, TableSteps
  <2>2. ASSUME NEW f \in Files, TimePasses(f)
        PROVE  [Tbl!Next]_(Tbl!vars)
    BY <2>2 DEF TimePasses, Tbl!vars
  <2>3. CASE UNCHANGED vars
    BY <2>3 DEF vars, Tbl!vars
  <2> QED
    BY <2>1, <2>2, <2>3 DEF Next
<1> QED
  BY <1>1, <1>2, Inductive, PTL DEF Spec, TableSpec, Tbl!Spec
==============================================================================
