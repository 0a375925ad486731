------------------------- MODULE ServeReqAloneProofs -------------------------
(* Theorems about ServeReq with one worker, for any number of connections,  *)
(* any sizes of files, pages, pipes and headers: what the races of several  *)
(* workers for a pipe of the cache break.                                   *)
EXTENDS ServeReqProofs

(***************************************************************************)
(* The inductive invariant, next to IInv.                                  *)
(***************************************************************************)

\* There is one worker.
Alone == \A v, w \in Workers : v = w

\* A pipe has more than one buffer; PIPE_SIZE is 128 pages of 4096 bytes
\* (constants.h:18).
MoreBuffers == Slots >= 2

\* The part of the file [From(i), To(i)) that pipe i of the cache is for.
From(i) == (i - 1) * Cap
To(i) == Least(i * Cap, size)
Full(i) == Part(From(i), To(i))
IsFull(i) == cache[i].data = Full(i)

\* Behind the headers are the first bytes of a file that fits there whole.
HeadersTail ==
    headers.data = <<>> \/ \E n \in 0 .. size :
        /\ headers.data = Stream(n)
        /\ n # 0 => size + HeaderLen < Cap /\ IsFull(1)

\* A request from stage_30 on, until it is answered.
Early(c) == conn[WorkerOf[c]] = c /\ early[WorkerOf[c]]
Fresh(r) ==
    r.bytes_offset = 0 /\ r.bytes_to_send = size /\ r.curr = 1 /\ r.filled = 0

\* Where a request has come to: it wants all of the pipe it is at, or none of
\* the first, some of which it got with the headers, or it is past the last.
Place(r) ==
    /\ r.curr = 0 => Off(r) = size
    /\ r.curr # 0 => \/ Off(r) = From(r.curr)
                     \/ r.curr = 1 /\ 0 < Off(r) /\ size < Cap /\ IsFull(1)

Placed(r) ==
    /\ -HeaderLen <= r.bytes_offset /\ Off(r) <= size /\ r.filled <= Cap
    /\ r.buf = Part(r.bytes_offset, Off(r))
    /\ r.bytes_offset + r.bytes_to_send = size
    /\ Place(r)

ConnOk(c) ==
    req[c] # NoReq =>
        IF Early(c) THEN Fresh(req[c]) /\ rcvd[c] = <<>>
        ELSE Placed(req[c]) /\ rcvd[c] = Stream(req[c].bytes_offset)

\* A request that waits for its socket has more to send.
Waiting(c) ==
    /\ req[c] # NoReq
    /\ ~(conn[WorkerOf[c]] = c /\ pc[WorkerOf[c]] # "idle")
    => req[c].bytes_to_send > 0

WorkerAlone(w) ==
    LET i == Req(w).curr
    IN  /\ pc[w] = "vmsplice" => /\ cache[i].data = <<>>
                                 /\ want[w][1] = From(i) /\ want[w][2] = To(i)
        /\ pc[w] \in {"filled", "tee"} => IsFull(i)
        /\ pc[w] \in {"vmsplice", "filled", "tee"} => Off(Req(w)) = From(i)
        /\ pc[w] = "end" => ret[w] \in {"sent", "failed"}
        /\ Len(pool[w]) <= PoolMax

AloneInv ==
    /\ CacheExact /\ HeadersTail
    /\ \A c \in Conns : ConnOk(c) /\ Waiting(c)
    /\ \A w \in Workers : WorkerAlone(w)

(***************************************************************************)
(* Where the pipes of the cache begin and end.                             *)
(***************************************************************************)

LEMMA SizesAre ==
    ASSUME Types
    PROVE  size \in Nat \ {0} /\ Cap \in Nat \ {0} /\ HeaderLen \in Nat \ {0} /\ HeaderLen <= Cap
<1>1. Page \in Nat \ {0} /\ Slots \in Nat \ {0} /\ HeaderLen \in 1 .. Page
  BY SlotsAre
<1>2. Page <= Page * Slots /\ Page * Slots \in Nat \ {0}
  BY <1>1
<1>3. Page <= Cap /\ Cap \in Nat \ {0}
  BY <1>2 DEF Cap
<1> HIDE DEF Cap
<1>4. HeaderLen \in Nat \ {0} /\ HeaderLen <= Cap
  BY <1>1, <1>3
<1> QED
  BY <1>3, <1>4 DEF Types

LEMMA IsPipe ==
    ASSUME Types, NEW i \in Int
    PROVE  i \in Pipes <=> 1 <= i /\ From(i) < size
<1> DEFINE n == size + Cap - 1
           d == n \div Cap
           a == From(i)
<1>1. size \in Nat \ {0} /\ Cap \in Nat \ {0}
  BY SizesAre
<1> HIDE DEF Cap
<1>2. n \in Nat
  BY <1>1
<1>3. d \in Nat /\ d * Cap <= n /\ n < d * Cap + Cap /\ d * Cap \in Nat
  <2> HIDE DEF n
  <2>1. d \in Nat /\ d * Cap <= n /\ n < d * Cap + Cap
    BY <1>1, <1>2
  <2> HIDE DEF d
  <2> QED
    BY <1>1, <2>1
<1>4. Pipes = 1 .. d
  BY DEF Pipes
<1> HIDE DEF d
<1>5. a = i * Cap - Cap /\ i * Cap \in Int
  <2>1. (i - 1) * Cap = i * Cap - Cap
    BY <1>1
  <2> QED
    BY <1>1, <2>1 DEF From
<1> HIDE DEF a
<1>6. ASSUME i <= d
      PROVE  a < size
  <2>1. i * Cap <= d * Cap
    BY <1>1, <1>3, <1>6
  <2> QED
    BY <1>1, <1>3, <1>5, <2>1
<1>7. ASSUME d < i
      PROVE  ~(a < size)
  <2>1. (d + 1) * Cap <= i * Cap
    BY <1>1, <1>3, <1>7
  <2>2. (d + 1) * Cap = d * Cap + Cap
    BY <1>1, <1>3
  <2> QED
    BY <1>1, <1>3, <1>5, <2>1, <2>2
<1> QED
  BY <1>3, <1>4, <1>6, <1>7 DEF a

LEMMA PipePlaces ==
    ASSUME Types, NEW i \in Pipes
    PROVE  /\ i \in Nat \ {0} /\ From(i) \in Nat /\ To(i) \in Nat
           /\ From(i) < To(i) /\ To(i) <= size
           /\ To(i) = IF From(i) + Cap > size THEN size ELSE From(i) + Cap
           /\ i = 1 => From(i) = 0
           /\ IF i + 1 \in Pipes THEN To(i) = From(i + 1) ELSE To(i) = size
<1> DEFINE a == From(i)
           b == From(i + 1)
<1>1. size \in Nat \ {0} /\ Cap \in Nat \ {0}
  BY SizesAre
<1>2. i \in Nat \ {0} /\ a < size
  <2>1. i \in Nat \ {0} /\ i \in Int
    BY FirstPipe
  <2> QED
    BY <2>1, IsPipe
<1> HIDE DEF Cap
<1>3. a \in Nat /\ b = a + Cap /\ b = i * Cap
  <2>1. (i - 1) * Cap \in Nat
    <3>1. i - 1 \in Nat
      BY <1>2
    <3> QED
      BY <1>1, <3>1
  <2>2. i * Cap = (i - 1) * Cap + Cap /\ i + 1 - 1 = i
    BY <1>1, <1>2
  <2>3. a = (i - 1) * Cap
    BY DEF From
  <2> DEFINE j == i + 1
  <2>4. j - 1 = i
    BY <1>2
  <2> HIDE DEF j
  <2>5. From(j) = i * Cap
    BY <2>4 DEF From
  <2> HIDE DEF a, b
  <2> QED
    BY <2>1, <2>2, <2>3, <2>5 DEF j, b
<1>4. i = 1 => a = 0
  <2>1. i = 1 => (i - 1) * Cap = 0
    BY <1>1
  <2> QED
    BY <2>1 DEF From
<1>5. i + 1 \in Pipes <=> b < size
  <2>1. i + 1 \in Int /\ 1 <= i + 1
    BY <1>2
  <2> DEFINE j == i + 1
  <2> HIDE DEF j
  <2>2. j \in Pipes <=> 1 <= j /\ From(j) < size
    BY <2>1, IsPipe DEF j
  <2> QED
    BY <2>1, <2>2 DEF j
<1>6. To(i) = IF b <= size THEN b ELSE size
  BY <1>1, <1>3 DEF To, Least
<1> HIDE DEF a, b
<1>7. /\ To(i) \in Nat /\ a < To(i) /\ To(i) <= size
      /\ To(i) = IF a + Cap > size THEN size ELSE a + Cap
      /\ IF i + 1 \in Pipes THEN To(i) = b ELSE To(i) = size
  BY <1>1, <1>2, <1>3, <1>5, <1>6
<1> QED
  BY <1>2, <1>3, <1>4, <1>7 DEF a, b

LEMMA FullIs ==
    ASSUME Types, NEW i \in Pipes
    PROVE  /\ PipeHas(Full(i)) /\ Full(i) \in Seq(Int) /\ Full(i) # <<>>
           /\ Len(Full(i)) = To(i) - From(i) /\ Len(Full(i)) \in Nat \ {0}
           /\ Len(Full(i)) <= Cap
<1> DEFINE a == From(i)
           b == To(i)
           q == (i - 1) * Slots
<1>1. /\ a \in Nat /\ b \in Nat /\ a < b /\ b <= a + Cap /\ i \in Nat \ {0}
      /\ Cap \in Nat \ {0}
  <2>1. Cap \in Nat \ {0} /\ size \in Nat
    BY SizesAre
  <2> HIDE DEF a, b, Cap
  <2> QED
    BY <2>1, PipePlaces DEF a, b
<1>2. q \in Int /\ q * Page = a
  <2>1. Page \in Nat /\ Slots \in Nat /\ i - 1 \in Nat
    BY <1>1, SlotsAre
  <2>2. ((i - 1) * Slots) * Page = (i - 1) * (Page * Slots) /\ (i - 1) * Slots \in Int
    BY <2>1
  <2> QED
    BY <2>2 DEF From, Cap
<1> HIDE DEF a, b, q, Cap
<1>3. PipeHas(Part(q * Page, b))
  BY <1>1, <1>2, PagesFit
<1>4. Part(a, b) \in Seq(Int) /\ Len(Part(a, b)) = b - a
  <2>1. a \in Int /\ b \in Int /\ a <= b
    BY <1>1
  <2> QED
    BY <2>1, PartIs
<1>5. Full(i) = Part(a, b)
  BY DEF Full, a, b
<1>6. Part(a, b) # <<>>
  BY <1>1, <1>4, EmptySeq
<1> QED
  BY <1>1, <1>2, <1>3, <1>4, <1>5, <1>6 DEF a, b

(***************************************************************************)
(* What a step changes.                                                    *)
(***************************************************************************)

\* Each worker has a result.
RetIs == DOMAIN ret = Workers

Known == IInv /\ RetIs /\ AloneInv

LEMMA RetStays ==
    ASSUME RetIs, [Next]_vars
    PROVE  RetIs'
<1>1. ASSUME NEW w \in Workers, Leave(w)
      PROVE  RetIs'
  BY <1>1 DEF Leave, RetIs
<1>2. ASSUME NEW w \in Workers, NEW result, ServeReturns(w, result)
      PROVE  RetIs'
  BY <1>1, <1>2 DEF ServeReturns, RetIs
<1>3. ASSUME NEW w \in Workers, Step(w)
      PROVE  RetIs'
  <2>1. CASE Loop(w) \/ SendNothing(w) \/ SendFails(w)
    BY <1>2, <2>1 DEF Loop, SendNothing, SendFails, locals, RetIs
  <2>2. CASE EndReq(w)
    BY <1>1, <2>2 DEF EndReq
  <2>3. CASE \/ Headers(w) \/ LockHeaders(w) \/ FillHeaders(w) \/ FillFirst(w)
             \/ AnswerDirect(w) \/ AnswerCached(w)
    BY <2>3 DEF Headers, LockHeaders, FillHeaders, FillFirst, AnswerDirect, AnswerCached,
       locals, RetIs
  <2>4. CASE Fill(w) \/ Vmsplice(w) \/ Filled(w) \/ TeeCurr(w) \/ SendSome(w)
    BY <2>4 DEF Fill, Vmsplice, Filled, TeeCurr, SendSome, locals, RetIs
  <2> QED
    BY <1>3, <2>1, <2>2, <2>3, <2>4 DEF Step
<1>4. ASSUME NEW w \in Workers, Event(w)
      PROVE  RetIs'
  BY <1>4 DEF Event, Stage30, EventWrite, EventDrop, RetIs
<1> QED
  BY <1>3, <1>4 DEF Next, vars, locals, RetIs

\* The first pipe of the cache stays full.
FirstStays == IsFull(1) => IsFull(1)'

LEMMA InitAlone == Init => AloneInv
<1> SUFFICES ASSUME Init
             PROVE  AloneInv
  OBVIOUS
<1>1. Len(<<>>) = 0 /\ PoolMax \in Nat /\ EmptyPipe.data = <<>> /\ EmptyPipe.filled = 0
      /\ ~EmptyPipe.locked
  BY EmptySeq, ServeAssumption DEF EmptyPipe
<1>2. CacheExact /\ HeadersTail
  BY <1>1 DEF Init, CacheExact, HeadersTail
<1>3. \A c \in Conns : ConnOk(c) /\ Waiting(c)
  BY DEF Init, ConnOk, Waiting
<1>4. \A w \in Workers : WorkerAlone(w)
  BY <1>1 DEF Init, WorkerAlone
<1> QED
  BY <1>2, <1>3, <1>4 DEF AloneInv

LEMMA OneWorker ==
    ASSUME Alone, NEW w \in Workers
    PROVE  \A c \in Conns : WorkerOf[c] = w
  BY ServeAssumption DEF Alone

LEMMA StepAlone ==
    ASSUME Alone, NEW w \in Workers, CacheExact', HeadersTail', WorkerAlone(w)',
           \A c \in Conns : ConnOk(c)' /\ Waiting(c)'
    PROVE  AloneInv'
<1>1. \A v \in Workers : WorkerAlone(v)'
  BY DEF Alone
<1> QED
  BY <1>1 DEF AloneInv

\* A request that is answered, and does not move, is where it was.
LEMMA StillPlaced ==
    ASSUME Known, NEW c \in Conns, ~Early(c), ~Early(c)', UNCHANGED size, FirstStays,
           req'[c] = req[c], rcvd'[c] = rcvd[c]
    PROVE  ConnOk(c)'
<1>1. CASE req[c] = NoReq
  BY <1>1 DEF ConnOk
<1>2. CASE req[c] # NoReq
  <2> DEFINE r == req[c]
  <2>1. Placed(r) /\ rcvd[c] = Stream(r.bytes_offset)
    BY <1>2 DEF Known, AloneInv, ConnOk
  <2>2. Placed(r)'
    BY <2>1 DEF Placed, Place, Off, From, FirstStays
  <2>3. rcvd'[c] = Stream(req'[c].bytes_offset)
    BY <2>1
  <2> QED
    BY <2>2, <2>3 DEF ConnOk
<1> QED
  BY <1>1, <1>2

\* The connections that the worker does not serve.
LEMMA OtherConn ==
    ASSUME Alone, Known, NEW w \in Workers, NEW c \in Conns,
           c # conn[w] \/ pc[w] = "idle", c # conn'[w],
           UNCHANGED size, FirstStays, req'[c] = req[c], rcvd'[c] = rcvd[c]
    PROVE  ConnOk(c)' /\ Waiting(c)'
<1>1. WorkerOf[c] = w /\ WorkerOk(w)
  BY OneWorker DEF Known, IInv
<1>2. ~Early(c) /\ ~Early(c)'
  BY <1>1 DEF Early, WorkerOk, Afterwards
<1>3. req[c] # NoReq => req[c].bytes_to_send > 0
  BY <1>1 DEF Known, AloneInv, Waiting
<1> QED
  BY <1>2, <1>3, StillPlaced DEF Waiting

\* A step that only moves the worker, or changes the headers or the cache.
LEMMA SameConns ==
    ASSUME Alone, Known, NEW w \in Workers, pc'[w] # "idle",
           UNCHANGED <<size, req, rcvd, conn, early>>, FirstStays, NEW c \in Conns
    PROVE  ConnOk(c)' /\ Waiting(c)'
<1>1. WorkerOf[c] = w
  BY OneWorker
<1>2. CASE Early(c)
  <2>1. ConnOk(c)'
    BY <1>2 DEF Known, AloneInv, ConnOk, Early, Fresh
  <2>2. Waiting(c)'
    BY <1>1, <1>2 DEF Early, Waiting
  <2> QED
    BY <2>1, <2>2
<1>3. CASE ~Early(c)
  <2>1. ~Early(c)'
    BY <1>3 DEF Early
  <2>2. ConnOk(c)'
    BY <1>3, <2>1, StillPlaced
  <2>3. Waiting(c)'
    BY <1>1 DEF Known, AloneInv, Waiting
  <2> QED
    BY <2>2, <2>3
<1> QED
  BY <1>2, <1>3

\* The places of the worker at which nothing is asked of the cache.
LEMMA Quiet ==
    ASSUME Known, NEW w \in Workers, pc'[w] \notin {"vmsplice", "filled", "tee", "end"},
           pool'[w] = pool[w]
    PROVE  WorkerAlone(w)'
  BY DEF Known, AloneInv, WorkerAlone

LEMMA KeepCacheExact ==
    ASSUME Known, UNCHANGED <<size, cache>>
    PROVE  CacheExact' /\ FirstStays /\ \A i : IsFull(i) <=> IsFull(i)'
  BY DEF Known, AloneInv, CacheExact, Pipes, FirstStays, IsFull, Full, From, To

LEMMA KeepHeadersTail ==
    ASSUME Known, UNCHANGED <<size, headers>>, FirstStays
    PROVE  HeadersTail'
  BY DEF Known, AloneInv, HeadersTail, FirstStays

\* A step that changes neither the headers nor the cache.
LEMMA FileStays ==
    ASSUME Known, UNCHANGED file
    PROVE  /\ UNCHANGED <<size, cache, headers>> /\ CacheExact' /\ HeadersTail' /\ FirstStays
           /\ \A i : IsFull(i) <=> IsFull(i)'
  BY KeepCacheExact, KeepHeadersTail DEF file

\* The request a worker serves.
LEMMA ServingAlone ==
    ASSUME Alone, Known, NEW w \in Workers, pc[w] # "idle"
    PROVE  /\ conn[w] \in Conns /\ Req(w) = req[conn[w]] /\ Req(w) # NoReq
           /\ WorkerOf[conn[w]] = w /\ (Early(conn[w]) <=> early[w])
           /\ early[w] => Fresh(Req(w)) /\ rcvd[conn[w]] = <<>>
           /\ ~early[w] => /\ Placed(Req(w))
                           /\ rcvd[conn[w]] = Stream(Req(w).bytes_offset)
<1>1. conn[w] \in Conns /\ Req(w) = req[conn[w]] /\ Req(w) # NoReq /\ WorkerOf[conn[w]] = w
  BY Serving DEF Known
<1>2. Early(conn[w]) <=> early[w]
  BY <1>1 DEF Early
<1>3. ConnOk(conn[w])
  BY <1>1 DEF Known, AloneInv
<1> QED
  BY <1>1, <1>2, <1>3 DEF ConnOk

(***************************************************************************)
(* The steps.                                                              *)
(***************************************************************************)

LEMMA HeadersAlone ==
    ASSUME Alone, Known, IInv', NEW w \in Workers, Headers(w) \/ LockHeaders(w) \/ FillHeaders(w)
    PROVE  AloneInv'
<1>1. PICK l \in {"hlock", "hcheck", "hfile", "answer"} : Goto(w, l)
  BY DEF Headers, LockHeaders, FillHeaders
<1>2. UNCHANGED <<size, cache, req, rcvd, pool, conn, early>> /\ Types
  BY DEF Headers, LockHeaders, FillHeaders, file, locals, Known, IInv
<1>3. pc'[w] = l
  BY <1>1, <1>2 DEF Types, Goto
<1>4. CacheExact' /\ FirstStays
  BY <1>2, KeepCacheExact
<1>5. HeadersTail'
  <2>1. CASE headers'.data = headers.data
    BY <1>2, <1>4, <2>1 DEF Known, AloneInv, HeadersTail, FirstStays
  <2>2. CASE headers'.data # headers.data
    <3>1. pc'[w] = "hfile"
      BY <1>1, <1>2, <2>2 DEF Headers, LockHeaders, FillHeaders, file, Types, Goto
    <3>2. headers'.data = Header
      BY <3>1 DEF IInv, WorkerOk
    <3>3. headers'.data = Stream(0) /\ 0 \in 0 .. size
      BY <1>2, <3>2 DEF Stream, Header, Types
    <3> QED
      BY <1>2, <3>3 DEF HeadersTail
  <2> QED
    BY <2>1, <2>2
<1>6. WorkerAlone(w)'
  BY <1>2, <1>3, Quiet
<1>7. \A c \in Conns : ConnOk(c)' /\ Waiting(c)'
  BY <1>2, <1>3, <1>4, SameConns
<1> QED
  BY <1>4, <1>5, <1>6, <1>7, StepAlone

\* The headers and a first byte of the file take two buffers.
LEMMA OneMoreFits == Buffers(Stream(1)) \in Nat /\ Buffers(Stream(1)) <= 2
<1> DEFINE h == -HeaderLen
           s == Part(h, 1)
           S == Starts(s)
           T == {1} \cup {HeaderLen + 1}
<1>1. /\ h \in Int /\ h <= 1 /\ HeaderLen \in 1 .. Page /\ Page \in Nat
      /\ 1 - h = HeaderLen + 1
  BY SlotsAre
<1>2. /\ s \in Seq(Int) /\ Len(s) = HeaderLen + 1 /\ DOMAIN s = 1 .. HeaderLen + 1
      /\ \A i \in 1 .. HeaderLen + 1 : s[i] = h + i - 1
  <2> HIDE DEF h
  <2>1. /\ s \in Seq(Int) /\ Len(s) = 1 - h /\ \A i \in 1 .. 1 - h : s[i] = h + i - 1
    BY <1>1, PartIs
  <2> HIDE DEF s
  <2> QED
    BY <1>1, <2>1, LenProperties
<1> HIDE DEF s
<1>3. ASSUME NEW i \in S
      PROVE  i \in T
  <2>1. i \in 1 .. HeaderLen + 1 /\ (i = 1 \/ s[i] % Page = 0 \/ s[i] # s[i - 1] + 1)
    BY <1>2 DEF Starts
  <2>2. CASE i \in 2 .. HeaderLen
    <3> DEFINE x == h + i - 1
    <3>1. s[i] = x /\ s[i - 1] = x - 1 /\ x \in Int /\ -Page < x /\ x < 0
      <4>1. i - 1 \in 1 .. HeaderLen + 1 /\ h + (i - 1) - 1 = x - 1
        BY <1>1, <2>2
      <4>2. x \in Int /\ -Page < x /\ x < 0
        BY <1>1, <2>2
      <4> QED
        BY <1>2, <2>1, <4>1, <4>2
    <3> HIDE DEF x
    <3>2. x % Page # 0 /\ x - 1 + 1 = x
      BY <3>1, NoPage
    <3>3. i # 1
      BY <1>1, <2>2
    <3> QED
      BY <2>1, <3>1, <3>2, <3>3
  <2>3. i = 1 \/ i = HeaderLen + 1 \/ i \in 2 .. HeaderLen
    BY <1>1, <2>1
  <2> QED
    BY <2>2, <2>3
<1>4. IsFiniteSet(T) /\ Cardinality(T) <= 2
  <2>1. IsFiniteSet({1}) /\ Cardinality({1}) = 1
    BY FS_Singleton
  <2> QED
    BY <2>1, FS_AddElement
<1> HIDE DEF S, T
<1>5. Cardinality(S) <= Cardinality(T) /\ Cardinality(S) \in Nat /\ Cardinality(T) \in Nat
  <2>1. S \in SUBSET T
    BY <1>3
  <2> QED
    BY <1>4, <2>1, FS_Subset, FS_CardinalityType
<1>6. Cardinality(S) \in Nat /\ Cardinality(S) <= 2
  BY <1>4, <1>5
<1> QED
  BY <1>6 DEF Buffers, Stream, S, s, h

\* The first bytes of the file come right behind the headers.
LEMMA FirstBytes ==
    ASSUME Types, NEW m \in 0 .. To(1)
    PROVE  /\ m \in 0 .. size /\ Len(Full(1)) = To(1) /\ Full(1) \in Seq(Int)
           /\ Len(SubSeq(Full(1), 1, m)) = m
           /\ Header \o SubSeq(Full(1), 1, m) = Stream(m)
<1> DEFINE b == To(1)
           h == -HeaderLen
<1>1. /\ size \in Nat /\ b \in Nat /\ b <= size /\ From(1) = 0 /\ Len(Full(1)) = b - From(1)
      /\ Full(1) \in Seq(Int) /\ h \in Int /\ h <= 0
  BY SizesAre, FirstPipe, PipePlaces, FullIs
<1>2. Full(1) = Part(0, b)
  BY <1>1 DEF Full
<1> HIDE DEF h
<1>3. m \in Nat /\ m <= b
  BY <1>1
<1> HIDE DEF b
<1>4. SubSeq(Part(0, b), 1, m) = Part(0, m)
  <2>1. 0 + m = m /\ 0 + m <= b /\ 0 \in Int /\ b \in Int
    BY <1>1, <1>3
  <2>2. SubSeq(Part(0, b), 1, m) = Part(0, 0 + m)
    BY <1>3, <2>1, PartCut
  <2> QED
    BY <2>1, <2>2
<1>5. Part(h, 0) \o Part(0, m) = Part(h, m)
  <2>1. h \in Int /\ 0 \in Int /\ m \in Int /\ h <= 0 /\ 0 <= m
    BY <1>1, <1>3
  <2> QED
    BY <2>1, PartConcat
<1>6. Header \o SubSeq(Full(1), 1, m) = Stream(m)
  BY <1>2, <1>4, <1>5 DEF Header, Stream, h
<1>7. Len(Part(0, m)) = m
  <2>1. 0 \in Int /\ m \in Int /\ 0 <= m /\ m - 0 = m
    BY <1>3
  <2>2. Len(Part(0, m)) = m - 0
    BY <2>1, PartIs
  <2> QED
    BY <2>1, <2>2
<1>8. m \in 0 .. size /\ Len(Full(1)) = b
  BY <1>1, <1>3
<1> QED
  BY <1>1, <1>2, <1>4, <1>6, <1>7, <1>8 DEF b

\* What is put behind the headers: nothing, or as much as there are buffers
\* for of a file that fits there, and some of it when there is a buffer left.
LEMMA TailIs ==
    ASSUME Known, NEW w \in Workers, FillFirst(w)
    PROVE  /\ \E n \in 0 .. size : /\ headers'.data = Stream(n)
                                   /\ n # 0 => size + HeaderLen < Cap /\ IsFull(1)
           /\ MoreBuffers => bug' = bug
<1> DEFINE first == cache[1]
           fits == Cap - headers.filled > first.filled /\ first.filled # 0
           some == IF fits THEN Tee(first.data, headers.data, first.filled) ELSE <<>>
<1>1. /\ headers' = Push(headers, some, FALSE) /\ headers.data = Header /\ Types
      /\ 1 \in Pipes /\ MkBugUnless(fits => some # <<>>, "nofile")
  BY FirstPipe DEF FillFirst, Known, IInv, WorkerOk
<1>2. headers'.data = Header \o some
  BY <1>1 DEF Push
<1>3. /\ first.data \in {<<>>, Full(1)} /\ first.filled = Len(first.data) /\ PipeIs(first)
      /\ headers.filled = HeaderLen
  BY <1>1, HeaderFits DEF Known, AloneInv, CacheExact, Full, From, To, IInv, CacheOk,
     HeadersOk, PipeIs
<1>4. size \in Nat \ {0} /\ Cap \in Nat \ {0} /\ HeaderLen \in Nat \ {0}
  BY <1>1, SizesAre
<1>5. CASE fits
  <2>1. first.data = Full(1) /\ some = Fitting(Header, first.data)
    <3>1. Len(<<>>) = 0
      BY EmptySeq
    <3> QED
      BY <1>1, <1>3, <1>5, <3>1, TeeAll DEF Tee
  <2> DEFINE s == Full(1)
             b == To(1)
  <2>2. Len(s) = b /\ b \in Nat \ {0} /\ b <= size /\ s \in Seq(Int)
        /\ b = IF 0 + Cap > size THEN size ELSE 0 + Cap
    <3>1. /\ From(1) = 0 /\ b \in Nat /\ From(1) < b /\ b <= size
          /\ b = IF From(1) + Cap > size THEN size ELSE From(1) + Cap
      BY <1>1, PipePlaces
    <3>2. s \in Seq(Int) /\ Len(s) = b - From(1)
      BY <1>1, FullIs
    <3> HIDE DEF s, b, Cap
    <3> QED
      BY <3>1, <3>2
  <2>3. size + HeaderLen < Cap
    <3>1. b + HeaderLen < Cap
      <4> HIDE DEF Cap
      <4> QED
        BY <1>3, <1>4, <1>5, <2>1, <2>2
    <3> HIDE DEF b, Cap
    <3> QED
      BY <1>4, <2>2, <3>1
  <2>4. \A k \in 0 .. b : /\ k \in 0 .. size /\ Len(SubSeq(s, 1, k)) = k
                          /\ Header \o SubSeq(s, 1, k) = Stream(k)
    BY <1>1, FirstBytes
  <2> HIDE DEF s, b, some
  <2>5. PICK m \in 0 .. Len(s) :
          /\ Fitting(Header, s) = SubSeq(s, 1, m)
          /\ \A k \in 0 .. Len(s) : Buffers(Header \o SubSeq(s, 1, k)) <= Slots => k <= m
    BY <2>2, HeaderFits, FitsAre DEF PipeHas
  <2>6. some = SubSeq(s, 1, m) /\ m \in 0 .. b
    BY <2>1, <2>2, <2>5 DEF s
  <2>7. headers'.data = Stream(m) /\ m \in 0 .. size
    BY <1>2, <2>4, <2>6
  <2>8. MoreBuffers => some # <<>>
    <3> SUFFICES ASSUME MoreBuffers
                 PROVE  some # <<>>
      OBVIOUS
    <3>1. 1 \in 0 .. b /\ Slots >= 2 /\ Slots \in Nat
      BY <2>2, SlotsAre DEF MoreBuffers
    <3>2. Buffers(Stream(1)) <= Slots
      BY <3>1, OneMoreFits
    <3>3. 1 <= m
      <4>1. Buffers(Header \o SubSeq(s, 1, 1)) <= Slots
        BY <2>4, <3>1, <3>2
      <4> QED
        BY <2>2, <2>5, <3>1, <4>1
    <3>4. Len(some) = m
      BY <2>4, <2>6
    <3> QED
      BY <2>6, <3>3, <3>4, EmptySeq
  <2> QED
    BY <1>1, <2>1, <2>3, <2>7, <2>8 DEF IsFull, MkBugUnless
<1>6. CASE ~fits
  <2>1. some = <<>>
    BY <1>6
  <2>2. Header \o <<>> = Header
    BY HeaderFits, ConcatEmptySeq DEF PipeHas
  <2>3. Header = Stream(0)
    BY DEF Header, Stream
  <2>4. Header \o some = Stream(0)
    BY <2>1, <2>2, <2>3
  <2>5. headers'.data = Stream(0)
    <3> HIDE DEF some
    <3> QED
      BY <1>2, <2>4
  <2>6. 0 \in 0 .. size
    BY <1>4
  <2> QED
    BY <1>1, <1>6, <2>5, <2>6 DEF MkBugUnless
<1> QED
  BY <1>5, <1>6

LEMMA FillFirstAlone ==
    ASSUME Alone, Known, NEW w \in Workers, FillFirst(w)
    PROVE  AloneInv'
<1>1. UNCHANGED <<size, cache, req, rcvd, pool, conn, early>> /\ Types /\ pc'[w] = "answer"
  BY DEF FillFirst, locals, Known, IInv, Types, Goto
<1>2. CacheExact' /\ FirstStays
  BY <1>1, KeepCacheExact
<1>3. HeadersTail'
  BY <1>1, <1>2, TailIs DEF HeadersTail, FirstStays
<1>4. WorkerAlone(w)'
  BY <1>1, Quiet
<1>5. \A c \in Conns : ConnOk(c)' /\ Waiting(c)'
  BY <1>1, <1>2, SameConns
<1> QED
  BY <1>2, <1>3, <1>4, <1>5, StepAlone

\* What cache_req_fill_curr finds: the request is at the start of its pipe,
\* which has nothing or all that it is to have, or it is inside the first.
LEMMA AtPlace ==
    ASSUME Alone, Known, NEW w \in Workers, pc[w] \in AtPipe
    PROVE  LET r == Req(w)
               i == r.curr
           IN  /\ i \in Pipes /\ Types /\ Curr(w) = cache[i]
               /\ cache[i].data = <<>> \/ IsFull(i)
               /\ cache[i].filled = Len(cache[i].data) /\ ~cache[i].locked /\ PipeIs(cache[i])
               /\ Off(r) \in Nat /\ Off(r) <= size /\ FillLen(r) \in Nat
               /\ \/ Off(r) = From(i) /\ FillLen(r) = To(i) - From(i)
                  \/ IsFull(i) /\ FillLen(r) < cache[i].filled
<1> DEFINE r == Req(w)
           i == r.curr
<1>1. /\ i \in Pipes /\ Types /\ Off(r) \in Nat /\ CacheExact /\ PipeIs(cache[i])
      /\ pc[w] # "idle"
  <2>1. pc[w] # "idle" /\ IInv
    BY DEF AtPipe, Known
  <2>2. i \in Pipes /\ Off(r) \in Nat
    BY <2>1, Serving DEF WorkerOk
  <2> QED
    BY <2>1, <2>2 DEF Known, AloneInv, IInv, CacheOk
<1>2. Curr(w) = cache[i]
  BY DEF Curr
<1>3. /\ cache[i].data = <<>> \/ IsFull(i)
      /\ cache[i].filled = Len(cache[i].data) /\ ~cache[i].locked
  BY <1>1 DEF CacheExact, IsFull, Full, From, To
<1>4. /\ size \in Nat \ {0} /\ Cap \in Nat \ {0} /\ From(i) \in Nat /\ To(i) \in Nat
      /\ From(i) < To(i) /\ To(i) <= size
      /\ To(i) = IF From(i) + Cap > size THEN size ELSE From(i) + Cap
      /\ i = 1 => From(i) = 0
      /\ Len(Full(i)) = To(i) - From(i) /\ i \in Nat \ {0}
  BY <1>1, SizesAre, PipePlaces, FullIs
<1>5. \/ Off(r) = From(i)
      \/ i = 1 /\ 0 < Off(r) /\ Off(r) <= size /\ size < Cap /\ IsFull(1)
  <2>1. CASE early[w]
    <3>1. Fresh(r)
      BY <1>1, <2>1, ServingAlone
    <3> QED
      BY <1>4, <3>1 DEF Fresh, Off
  <2>2. CASE ~early[w]
    <3>1. Placed(r)
      BY <1>1, <2>2, ServingAlone
    <3> QED
      BY <1>4, <3>1 DEF Placed, Place
  <2> QED
    BY <2>1, <2>2
<1>6. CASE Off(r) = From(i)
  <2>1. FillLen(r) = To(i) - From(i)
    <3> HIDE DEF r, i, Cap
    <3> QED
      BY <1>4, <1>6 DEF FillLen
  <2> QED
    BY <1>1, <1>2, <1>3, <1>4, <1>6, <2>1
<1>7. CASE i = 1 /\ 0 < Off(r) /\ Off(r) <= size /\ size < Cap /\ IsFull(1)
  <2>1. IsFull(i) /\ cache[i].filled = size
    BY <1>3, <1>4, <1>7 DEF IsFull
  <2>2. FillLen(r) = size - Off(r)
    <3> HIDE DEF r, i, Cap
    <3> QED
      BY <1>1, <1>4, <1>7 DEF FillLen
  <2> HIDE DEF r, i
  <2>3. FillLen(r) \in Nat /\ FillLen(r) < cache[i].filled
    BY <1>1, <1>4, <1>7, <2>1, <2>2
  <2> QED
    BY <1>1, <1>2, <1>3, <1>7, <2>1, <2>3 DEF r, i
<1> QED
  BY <1>5, <1>6, <1>7

LEMMA FillReturnsAlone ==
    ASSUME Alone, Known, NEW w \in Workers, pc[w] \in {"fill", "filled"},
           FillReturns(w, Curr(w).filled = FillLen(Req(w))),
           UNCHANGED <<file, req, rcvd, pool, locals>>
    PROVE  AloneInv'
<1> DEFINE r == Req(w)
           i == r.curr
<1>1. PICK l \in {"headers", "tee", "send"} :
            /\ Goto(w, l)
            /\ l = "tee" => Curr(w).filled = FillLen(r)
  BY DEF FillReturns
<1>2. pc'[w] = l /\ Types /\ UNCHANGED <<size, req, rcvd, conn, early>> /\ pc[w] \in AtPipe
      /\ UNCHANGED file
  BY <1>1 DEF file, locals, Known, IInv, Types, Goto, AtPipe
<1>3. CacheExact' /\ HeadersTail' /\ FirstStays
  BY <1>2, FileStays
<1>4. WorkerAlone(w)'
  <2>1. CASE l # "tee"
    BY <1>2, <2>1, Quiet
  <2>2. CASE l = "tee"
    <3>1. IsFull(i) /\ Off(r) = From(i)
      <4>1. /\ i \in Pipes /\ Types /\ Curr(w) = cache[i]
            /\ cache[i].data = <<>> \/ IsFull(i)
            /\ cache[i].filled = Len(cache[i].data) /\ FillLen(r) \in Nat
            /\ \/ Off(r) = From(i) /\ FillLen(r) = To(i) - From(i)
               \/ IsFull(i) /\ FillLen(r) < cache[i].filled
        BY <1>2, AtPlace
      <4>2. cache[i].filled = FillLen(r)
        BY <1>1, <2>2, <4>1
      <4>3. To(i) - From(i) \in Nat \ {0} /\ Len(<<>>) = 0
        BY <4>1, FullIs, EmptySeq
      <4> HIDE DEF r, i
      <4>4. ~(FillLen(r) < cache[i].filled)
        BY <4>1, <4>2
      <4>5. Off(r) = From(i) /\ FillLen(r) \in Nat \ {0}
        BY <4>1, <4>3, <4>4
      <4>6. cache[i].data # <<>>
        BY <4>1, <4>2, <4>3, <4>5
      <4> QED
        BY <4>1, <4>5, <4>6
    <3>2. Req(w)' = r /\ IsFull(i)' /\ From(i)' = From(i)
      BY <1>2, <3>1, FileStays DEF Req, From
    <3> QED
      BY <1>2, <2>2, <3>1, <3>2 DEF WorkerAlone, Off, Known, AloneInv
  <2> QED
    BY <2>1, <2>2
<1>5. \A c \in Conns : ConnOk(c)' /\ Waiting(c)'
  BY <1>1, <1>2, <1>3, SameConns
<1> QED
  BY <1>3, <1>4, <1>5, StepAlone

LEMMA FilledAlone ==
    ASSUME Alone, Known, NEW w \in Workers, Filled(w)
    PROVE  AloneInv'
<1>1. /\ pc[w] \in {"fill", "filled"} /\ FillReturns(w, Curr(w).filled = FillLen(Req(w)))
      /\ UNCHANGED <<file, req, rcvd, pool, locals>>
  BY DEF Filled
<1> QED
  BY <1>1, FillReturnsAlone

LEMMA FillAlone ==
    ASSUME Alone, Known, NEW w \in Workers, Fill(w)
    PROVE  AloneInv'
<1> DEFINE r == Req(w)
           i == r.curr
           from == Off(r) + Curr(w).filled
           to == Off(r) + FillLen(r)
<1>1. pc[w] = "fill" /\ UNCHANGED <<file, req, rcvd, pool, conn, early, ret>> /\ pc[w] \in AtPipe
  BY DEF Fill, AtPipe
<1>2. CASE ~(Curr(w).filled < FillLen(r))
  <2>1. /\ pc[w] \in {"fill", "filled"} /\ FillReturns(w, Curr(w).filled = FillLen(Req(w)))
        /\ UNCHANGED <<file, req, rcvd, pool, locals>>
    BY <1>1, <1>2 DEF Fill, locals
  <2> QED
    BY <2>1, FillReturnsAlone
<1>3. CASE Curr(w).filled < FillLen(r)
  <2>1. want' = [want EXCEPT ![w] = <<from, to>>] /\ Goto(w, "vmsplice")
    BY <1>3 DEF Fill
  <2>2. pc'[w] = "vmsplice" /\ want'[w] = <<from, to>> /\ Types
    BY <2>1 DEF Known, IInv, Types, Goto
  <2>3. /\ i \in Pipes /\ Curr(w) = cache[i]
        /\ cache[i].data = <<>> \/ IsFull(i)
        /\ cache[i].filled = Len(cache[i].data)
        /\ Off(r) \in Nat /\ FillLen(r) \in Nat
        /\ \/ Off(r) = From(i) /\ FillLen(r) = To(i) - From(i)
           \/ IsFull(i) /\ FillLen(r) < cache[i].filled
    BY <1>1, AtPlace
  <2> HIDE DEF r, i
  <2>4. /\ Len(Full(i)) = To(i) - From(i) /\ Len(Full(i)) \in Nat /\ From(i) \in Nat
        /\ To(i) \in Nat /\ Len(<<>>) = 0
    <3>1. i \in Pipes /\ Types
      BY <2>2, <2>3
    <3> QED
      BY <3>1, FullIs, PipePlaces, EmptySeq
  <2>5. cache[i].data = <<>> /\ from = From(i) /\ to = To(i) /\ Off(r) = From(i)
    <3> DEFINE n == cache[i].filled
    <3>1. n = Len(cache[i].data) /\ n < FillLen(r) /\ Curr(w).filled = n
      BY <1>3, <2>3
    <3> HIDE DEF n
    <3>2. ~(IsFull(i) /\ FillLen(r) < cache[i].filled)
      <4>1. ASSUME IsFull(i), FillLen(r) < cache[i].filled
            PROVE  FALSE
        <5>1. n \in Nat /\ FillLen(r) < n
          BY <2>4, <3>1, <4>1 DEF IsFull, n
        <5> QED
          BY <2>3, <3>1, <5>1
      <4> QED
        BY <4>1
    <3>3. Off(r) = From(i) /\ FillLen(r) = To(i) - From(i)
      BY <2>3, <3>2
    <3>4. ~IsFull(i)
      <4>1. ASSUME IsFull(i)
            PROVE  FALSE
        <5>1. n = To(i) - From(i)
          BY <2>4, <3>1, <4>1 DEF IsFull
        <5> QED
          BY <2>3, <3>1, <3>3, <5>1
      <4> QED
        BY <4>1
    <3>5. cache[i].data = <<>> /\ n = 0
      BY <2>3, <2>4, <3>1, <3>4
    <3>6. from = From(i) /\ to = To(i)
      BY <2>4, <3>1, <3>3, <3>5
    <3> QED
      BY <3>3, <3>5, <3>6
  <2>6. CacheExact' /\ HeadersTail' /\ FirstStays
    BY <1>1, FileStays
  <2>7. WorkerAlone(w)'
    <3>1. Req(w)' = r /\ cache' = cache /\ From(i)' = From(i) /\ To(i)' = To(i)
      BY <1>1 DEF Req, From, To, file, r, i
    <3>2. want'[w][1] = From(i) /\ want'[w][2] = To(i)
      <4> HIDE DEF from, to
      <4> QED
        BY <2>2, <2>5
    <3>3. Len(pool'[w]) <= PoolMax
      BY <1>1 DEF Known, AloneInv, WorkerAlone
    <3> HIDE DEF from, to
    <3> QED
      BY <2>2, <2>5, <3>1, <3>2, <3>3 DEF WorkerAlone, Off, r, i
  <2>8. \A c \in Conns : ConnOk(c)' /\ Waiting(c)'
    BY <1>1, <2>2, <2>6, SameConns DEF file
  <2> QED
    BY <2>6, <2>7, <2>8, StepAlone
<1> QED
  BY <1>2, <1>3

\* The current pipe gets just its part of the file, all at once.
LEMMA VmspliceAlone ==
    ASSUME Alone, Known, NEW w \in Workers, Vmsplice(w)
    PROVE  AloneInv' /\ bug' = bug
<1> DEFINE i == Req(w).curr
           from == want[w][1]
           to == want[w][2]
           room == Cap - cache[i].filled >= to - from
           bs == IF room THEN Fitting(cache[i].data, Part(from, to)) ELSE <<>>
           p == Push(cache[i], bs, Len(bs) < to - from)
<1>1. /\ pc[w] = "vmsplice" /\ Goto(w, "filled") /\ MkBugUnless(room, "space")
      /\ cache' = [cache EXCEPT ![i] = p]
      /\ UNCHANGED <<size, headers, header_len, req, rcvd, pool, conn, early, ret>>
      /\ pc[w] \in AtPipe
  BY DEF Vmsplice, AtPipe
<1>2. pc'[w] = "filled" /\ Types /\ CacheExact
  BY <1>1 DEF Known, IInv, AloneInv, Types, Goto
<1>3. /\ i \in Pipes /\ cache[i].data = <<>> /\ cache[i].filled = 0
      /\ from = From(i) /\ to = To(i) /\ Off(Req(w)) = From(i)
  <2>1. i \in Pipes /\ cache[i].filled = Len(cache[i].data)
    BY <1>1, AtPlace
  <2>2. cache[i].data = <<>> /\ from = From(i) /\ to = To(i) /\ Off(Req(w)) = From(i)
    BY <1>1 DEF Known, AloneInv, WorkerAlone
  <2> QED
    BY <2>1, <2>2, EmptySeq
<1> HIDE DEF from, to, i
<1>4. /\ Full(i) \in Seq(Int) /\ Buffers(Full(i)) <= Slots /\ Len(Full(i)) = to - from
      /\ Len(Full(i)) <= Cap /\ Len(Full(i)) \in Nat /\ Cap \in Nat
  BY <1>2, <1>3, FullIs, SizesAre DEF PipeHas
<1>5. room
  <2> HIDE DEF Cap
  <2> QED
    BY <1>3, <1>4
<1>6. bs = Full(i)
  <2>1. Part(from, to) = Full(i)
    BY <1>3 DEF Full
  <2> QED
    BY <1>3, <1>4, <1>5, <2>1, FitsEmpty
<1> HIDE DEF room, bs
<1>7. p.data = Full(i) /\ p.filled = Len(Full(i)) /\ ~p.locked
  <2>1. <<>> \o Full(i) = Full(i) /\ ~(Len(bs) < to - from)
    BY <1>4, <1>6, ConcatEmptySeq
  <2>2. p = [data |-> cache[i].data \o bs, filled |-> cache[i].filled + Len(bs),
             locked |-> Len(bs) < to - from]
    BY DEF Push
  <2> HIDE DEF p
  <2>3. p.data = Full(i)
    BY <1>3, <1>6, <2>1, <2>2
  <2>4. p.filled = Len(Full(i))
    BY <1>3, <1>4, <1>6, <2>2
  <2>5. ~p.locked
    BY <2>1, <2>2
  <2> QED
    BY <2>3, <2>4, <2>5
<1> HIDE DEF p
<1>8. /\ Pipes' = Pipes /\ \A j \in Pipes : cache'[j] = IF j = i THEN p ELSE cache[j]
      /\ \A j : From(j)' = From(j) /\ To(j)' = To(j) /\ Full(j)' = Full(j)
  <2>1. DOMAIN cache = Pipes
    BY DEF Known, IInv, CacheOk
  <2> QED
    BY <1>1, <1>3, <2>1 DEF Pipes, From, To, Full
<1>9. CacheExact'
  <2>1. ASSUME NEW j \in Pipes
        PROVE  /\ cache'[j].data \in {<<>>, Full(j)} /\ cache'[j].filled = Len(cache'[j].data)
               /\ ~cache'[j].locked
    <3>1. CASE j = i
      BY <1>7, <1>8, <3>1
    <3>2. CASE j # i
      BY <1>2, <1>8, <3>2 DEF CacheExact, Full, From, To
    <3> QED
      BY <3>1, <3>2
  <2> QED
    BY <1>1, <1>8, <2>1 DEF CacheExact, Full, From, To
<1>10. IsFull(i)' /\ FirstStays
  <2>1. 1 \in Pipes
    BY <1>2, FirstPipe
  <2>2. cache'[i].data = Full(i)
    BY <1>3, <1>7, <1>8
  <2>3. \A j \in Pipes : IsFull(j)' <=> cache'[j].data = Full(j)
    BY <1>8 DEF IsFull
  <2>4. i' = i
    BY <1>1 DEF i, Req
  <2>5. IsFull(i)'
    BY <1>3, <1>8, <2>2, <2>4 DEF IsFull
  <2>6. FirstStays
    BY <1>7, <1>8, <2>1, <2>3 DEF IsFull, FirstStays
  <2> QED
    BY <2>5, <2>6
<1>11. HeadersTail'
  BY <1>1, <1>10, KeepHeadersTail
<1>12. WorkerAlone(w)'
  <2>1. Req(w)' = Req(w) /\ i' = i
    BY <1>1 DEF Req, i
  <2>2. Len(pool'[w]) <= PoolMax
    BY <1>1 DEF Known, AloneInv, WorkerAlone
  <2>3. Off(Req(w))' = From(i)'
    BY <1>3, <1>8, <2>1 DEF Off
  <2>4. IsFull(Req(w).curr)' /\ Off(Req(w))' = From(Req(w).curr)'
    BY <1>10, <2>3 DEF i
  <2> QED
    BY <1>2, <2>2, <2>4 DEF WorkerAlone
<1>13. \A c \in Conns : ConnOk(c)' /\ Waiting(c)'
  BY <1>1, <1>2, <1>10, SameConns
<1>14. bug' = bug
  BY <1>1, <1>5 DEF MkBugUnless
<1> QED
  BY <1>9, <1>11, <1>12, <1>13, <1>14, StepAlone

\* A step in one request.
LEMMA OwnConn ==
    ASSUME Alone, Known, NEW w \in Workers, UNCHANGED file, NEW c \in Conns,
           conn[w] = c \/ pc[w] = "idle", conn'[w] \in {c, NoReq},
           \A d \in Conns : d # c => req'[d] = req[d] /\ rcvd'[d] = rcvd[d],
           ConnOk(c)', Waiting(c)', WorkerAlone(w)'
    PROVE  AloneInv'
<1>1. UNCHANGED size /\ CacheExact' /\ HeadersTail' /\ FirstStays
  BY FileStays
<1>2. ASSUME NEW d \in Conns
      PROVE  ConnOk(d)' /\ Waiting(d)'
  <2>1. CASE d = c
    BY <2>1
  <2>2. CASE d # c
    <3>1. (d # conn[w] \/ pc[w] = "idle") /\ d # conn'[w]
      <4>1. NoReq \notin Conns
        BY ServeAssumption
      <4> QED
        BY <2>2, <4>1
    <3> QED
      BY <1>1, <2>2, <3>1, OtherConn
  <2> QED
    BY <2>1, <2>2
<1> QED
  BY <1>1, <1>2, StepAlone

\* The same, when the request is answered.
LEMMA OwnPlaced ==
    ASSUME Alone, Known, NEW w \in Workers, UNCHANGED file, NEW c \in Conns,
           conn[w] = c \/ pc[w] = "idle", conn'[w] \in {c, NoReq}, ~early'[w],
           NEW x, x # NoReq, req'[c] = x, Placed(x), rcvd'[c] = Stream(x.bytes_offset),
           \A d \in Conns : d # c => req'[d] = req[d] /\ rcvd'[d] = rcvd[d],
           (conn'[w] = c /\ pc'[w] # "idle") \/ x.bytes_to_send > 0,
           WorkerAlone(w)'
    PROVE  AloneInv'
<1>1. UNCHANGED size /\ FirstStays /\ WorkerOf[c] = w
  BY FileStays, OneWorker
<1>2. Placed(x)'
  BY <1>1 DEF Placed, Place, Off, From, FirstStays
<1>3. ConnOk(c)'
  BY <1>1, <1>2 DEF ConnOk, Early
<1>4. Waiting(c)'
  BY <1>1 DEF Waiting
<1> QED
  BY <1>3, <1>4, OwnConn

LEMMA AnswerDirectAlone ==
    ASSUME Alone, Known, NEW w \in Workers, AnswerDirect(w)
    PROVE  AloneInv'
<1>1. PICK c, r : c = conn[w] /\ r = Req(w)
  OBVIOUS
<1>2. /\ pc[w] = "answer" /\ Goto(w, "loop") /\ early' = [early EXCEPT ![w] = FALSE]
      /\ rcvd' = [rcvd EXCEPT ![c] = @ \o Header] /\ conn'[w] = c
      /\ UNCHANGED <<file, req, pool>>
  BY <1>1 DEF AnswerDirect
<1>3. /\ c \in Conns /\ r = req[c] /\ r # NoReq /\ Fresh(r) /\ rcvd[c] = <<>>
  BY <1>1, <1>2, ServingAlone DEF Known, IInv, WorkerOk, AtHeaders
<1>4. pc'[w] = "loop" /\ ~early'[w] /\ rcvd'[c] = <<>> \o Header /\ Types
  BY <1>2, <1>3 DEF Known, IInv, Types, Goto
<1>5. r.buf \in Seq(Int) /\ r.filled = Len(r.buf)
  BY <1>1, <1>2, Serving DEF Known
<1>6. Placed(r)
  <2>1. r.buf = <<>>
    BY <1>3, <1>5, EmptyBuf DEF Fresh
  <2>2. Part(0, 0) = <<>> /\ From(1) = 0
    BY <1>4, FirstPipe, PipePlaces, PartEmpty
  <2>3. size \in Nat /\ Cap \in Nat /\ HeaderLen \in Nat
    BY <1>4, SizesAre
  <2> HIDE DEF Cap
  <2>4. Off(r) = 0
    BY <1>3 DEF Fresh, Off
  <2> QED
    BY <1>3, <2>1, <2>2, <2>3, <2>4 DEF Placed, Place, Fresh
<1>7. rcvd'[c] = Stream(r.bytes_offset)
  <2>1. <<>> \o Header = Header
    BY HeaderFits, ConcatEmptySeq DEF PipeHas
  <2> QED
    BY <1>3, <1>4, <2>1 DEF Fresh, Stream, Header
<1>8. WorkerAlone(w)'
  BY <1>2, <1>4, Quiet
<1>9. \A d \in Conns : d # c => req'[d] = req[d] /\ rcvd'[d] = rcvd[d]
  BY <1>2, <1>4 DEF Types
<1>10. req'[c] = r
  BY <1>2, <1>3
<1> QED
  BY <1>1, <1>2, <1>3, <1>4, <1>6, <1>7, <1>8, <1>9, <1>10, OwnPlaced

LEMMA ServeReturnsAlone ==
    ASSUME Alone, Known, NEW w \in Workers, pc[w] \in {"loop", "send"},
           NEW result \in {"more", "sent", "failed"}, ServeReturns(w, result),
           result = "more" => Req(w).bytes_to_send > 0, UNCHANGED <<file, req, rcvd, pool>>
    PROVE  AloneInv'
<1>1. PICK c, r : c = conn[w] /\ r = Req(w)
  OBVIOUS
<1>2. /\ c \in Conns /\ r = req[c] /\ r # NoReq /\ ~early[w]
      /\ Placed(r) /\ rcvd[c] = Stream(r.bytes_offset)
  BY <1>1, ServingAlone DEF Known, IInv, WorkerOk, Afterwards
<1>3. /\ Types /\ ~early'[w] /\ pool'[w] = pool[w] /\ req'[c] = r
      /\ rcvd'[c] = Stream(r.bytes_offset) /\ UNCHANGED file
      /\ \A d \in Conns : d # c => req'[d] = req[d] /\ rcvd'[d] = rcvd[d]
  BY <1>2 DEF ServeReturns, Leave, Known, IInv
<1>4. CASE result = "more"
  <2>1. pc'[w] = "idle" /\ conn'[w] = NoReq /\ r.bytes_to_send > 0
    BY <1>1, <1>3, <1>4 DEF ServeReturns, Leave, Types, Goto
  <2>2. WorkerAlone(w)'
    BY <1>3, <2>1, Quiet
  <2> QED
    BY <1>1, <1>2, <1>3, <2>1, <2>2, OwnPlaced
<1>5. CASE result # "more"
  <2>1. pc'[w] = "end" /\ conn'[w] = c /\ ret' = [ret EXCEPT ![w] = result]
    BY <1>1, <1>3, <1>5 DEF ServeReturns, Types, Goto
  <2>2. WorkerAlone(w)'
    <3>1. ret'[w] \in {"sent", "failed"}
      BY <1>5, <2>1 DEF Known, RetIs
    <3> QED
      BY <1>3, <2>1, <3>1 DEF WorkerAlone, Known, AloneInv
  <2> QED
    BY <1>1, <1>2, <1>3, <2>1, <2>2, OwnPlaced
<1> QED
  BY <1>4, <1>5

LEMMA SendNothingAlone ==
    ASSUME Alone, Known, NEW w \in Workers, SendNothing(w) \/ SendFails(w)
    PROVE  AloneInv'
<1>1. pc[w] \in {"loop", "send"} /\ UNCHANGED <<file, req, rcvd, pool>>
  BY DEF SendNothing, SendFails
<1>2. PICK result \in {"more", "sent", "failed"} :
            /\ ServeReturns(w, result)
            /\ result = "more" => Req(w).bytes_to_send > 0
  BY DEF SendNothing, SendFails
<1> QED
  BY <1>1, <1>2, ServeReturnsAlone

LEMMA LoopAlone ==
    ASSUME Alone, Known, NEW w \in Workers, Loop(w)
    PROVE  AloneInv'
<1> DEFINE r == Req(w)
           goes == r.bytes_to_send > 0 /\ (r.curr # 0 \/ r.filled # 0)
<1>1. pc[w] = "loop" /\ UNCHANGED <<file, req, rcvd, pool>>
  BY DEF Loop
<1>2. CASE ~goes
  <2>1. PICK result \in {"more", "sent", "failed"} :
              /\ ServeReturns(w, result)
              /\ result = "more" => r.bytes_to_send > 0
    BY <1>2 DEF Loop
  <2> QED
    BY <1>1, <2>1, ServeReturnsAlone
<1>3. CASE goes
  <2>1. PICK l \in {"fill", "send"} : Goto(w, l)
    BY <1>3 DEF Loop
  <2>2. UNCHANGED locals
    BY <1>3 DEF Loop
  <2>3. pc'[w] = l /\ UNCHANGED <<size, req, rcvd, conn, early>> /\ pool'[w] = pool[w]
    BY <1>1, <2>1, <2>2 DEF file, locals, Known, IInv, Types, Goto
  <2>4. CacheExact' /\ HeadersTail' /\ FirstStays
    BY <1>1, FileStays
  <2>5. WorkerAlone(w)'
    BY <2>3, Quiet
  <2>6. \A c \in Conns : ConnOk(c)' /\ Waiting(c)'
    BY <2>3, <2>4, SameConns
  <2> QED
    BY <2>4, <2>5, <2>6, StepAlone
<1> QED
  BY <1>2, <1>3

LEMMA EventAlone ==
    ASSUME Alone, Known, NEW w \in Workers, NEW c \in Conns, EventWrite(w, c) \/ EventDrop(w, c)
    PROVE  AloneInv'
<1>1. PICK r : r = req[c]
  OBVIOUS
<1>2. /\ pc[w] = "idle" /\ conn' = [conn EXCEPT ![w] = c] /\ r # NoReq
      /\ UNCHANGED <<file, req, rcvd, pool, early>> /\ Types
  BY <1>1 DEF EventWrite, EventDrop, Enter, Known, IInv
<1>3. /\ conn'[w] = c /\ pc'[w] \in {"loop", "end"}
      /\ pc'[w] = "end" => ret'[w] = "failed"
  BY <1>2 DEF EventWrite, EventDrop, Enter, Goto, Known, RetIs, Types
<1>4. ~early[w] /\ WorkerOf[c] = w
  BY <1>2, OneWorker DEF Known, IInv, WorkerOk, Afterwards
<1>5. Placed(r) /\ rcvd[c] = Stream(r.bytes_offset)
  BY <1>1, <1>2, <1>4 DEF Known, AloneInv, ConnOk, Early
<1>6. WorkerAlone(w)'
  BY <1>2, <1>3 DEF WorkerAlone, Known, AloneInv
<1>7. /\ UNCHANGED file /\ ~early'[w] /\ req'[c] = r /\ rcvd'[c] = Stream(r.bytes_offset)
      /\ conn'[w] \in {c, NoReq}
      /\ (conn'[w] = c /\ pc'[w] # "idle") \/ r.bytes_to_send > 0
      /\ \A d \in Conns : d # c => req'[d] = req[d] /\ rcvd'[d] = rcvd[d]
  BY <1>1, <1>2, <1>3, <1>4, <1>5
<1> QED
  BY <1>2, <1>5, <1>6, <1>7, OwnPlaced

LEMMA EndReqAlone ==
    ASSUME Alone, Known, NEW w \in Workers, EndReq(w)
    PROVE  AloneInv'
<1>1. PICK c : c = conn[w]
  OBVIOUS
<1> DEFINE s == pool[w]
           p == [data |-> Req(w).buf, filled |-> Req(w).filled]
           q == IF Len(s) < PoolMax THEN Append(s, p) ELSE s
<1>2. /\ pc[w] = "end" /\ Goto(w, "idle") /\ conn' = [conn EXCEPT ![w] = NoReq]
      /\ req' = [req EXCEPT ![c] = NoReq] /\ pool' = [pool EXCEPT ![w] = q]
      /\ UNCHANGED <<file, rcvd>>
  BY <1>1 DEF EndReq, Leave
<1>3. /\ c \in Conns /\ Types /\ s \in Seq(Pooled) /\ Req(w).buf \in Seq(Int)
      /\ Req(w).filled \in Nat
  BY <1>1, <1>2, Serving DEF Known, IInv, Types
<1>4. Len(q) <= PoolMax
  <2>1. Len(s) <= PoolMax /\ PoolMax \in Nat
    BY ServeAssumption DEF Known, AloneInv, WorkerAlone
  <2> HIDE DEF s
  <2>2. p \in Pooled
    BY <1>3 DEF Pooled
  <2> HIDE DEF p
  <2>3. Len(Append(s, p)) = Len(s) + 1 /\ Len(s) \in Nat
    BY <1>3, <2>2, AppendProperties, LenProperties
  <2> QED
    BY <2>1, <2>3
<1> HIDE DEF q
<1>5. /\ pc'[w] = "idle" /\ conn'[w] = NoReq /\ req'[c] = NoReq /\ pool'[w] = q
      /\ \A d \in Conns : d # c => req'[d] = req[d] /\ rcvd'[d] = rcvd[d]
  BY <1>2, <1>3 DEF Types, Goto
<1>6. ConnOk(c)' /\ Waiting(c)' /\ WorkerAlone(w)'
  BY <1>4, <1>5 DEF ConnOk, Waiting, WorkerAlone
<1> QED
  BY <1>1, <1>2, <1>3, <1>5, <1>6, OwnConn

LEMMA Stage30Alone ==
    ASSUME Alone, Known, IInv', NEW w \in Workers, NEW c \in Conns, Stage30(w, c)
    PROVE  AloneInv' /\ bug' = bug
<1>1. /\ pc[w] = "idle" /\ Goto(w, "fill") /\ conn' = [conn EXCEPT ![w] = c]
      /\ rcvd' = [rcvd EXCEPT ![c] = <<>>] /\ early' = [early EXCEPT ![w] = TRUE]
      /\ UNCHANGED file /\ Types /\ pool[w] \in Seq(Pooled)
      /\ pool' = [pool EXCEPT ![w] = IF pool[w] # <<>> THEN Tail(pool[w]) ELSE pool[w]]
  BY DEF Stage30, Enter, Known, IInv, Types
<1>2. PICK x : /\ req' = [req EXCEPT ![c] = x]
               /\ x.bytes_offset = 0 /\ x.bytes_to_send = size /\ x.curr = 1
               /\ MkBugUnless(x.filled = 0, "stale")
  <2> DEFINE old == IF pool[w] # <<>> THEN Head(pool[w]) ELSE EmptyPipe
             rest == DropBytes(old.data, old.filled)
             left == old.filled - (Len(old.data) - Len(rest))
             y == [bytes_offset |-> 0, bytes_to_send |-> size, curr |-> 1,
                   buf |-> rest, filled |-> left]
  <2>1. req' = [req EXCEPT ![c] = y] /\ MkBugUnless(left = 0, "stale")
    BY DEF Stage30
  <2> HIDE DEF rest, left
  <2>2. y.bytes_offset = 0 /\ y.bytes_to_send = size /\ y.curr = 1 /\ y.filled = left
    OBVIOUS
  <2> HIDE DEF y
  <2> QED
    BY <2>1, <2>2
<1>3. /\ pc'[w] = "fill" /\ conn'[w] = c /\ early'[w] /\ req'[c] = x /\ rcvd'[c] = <<>>
      /\ \A d \in Conns : d # c => req'[d] = req[d] /\ rcvd'[d] = rcvd[d]
  BY <1>1, <1>2 DEF Types, Goto
<1>4. Fresh(x) /\ UNCHANGED size /\ bug' = bug
  <2>1. x.filled = 0
    BY <1>3 DEF IInv, WorkerOk, Req
  <2> QED
    BY <1>1, <1>2, <2>1 DEF Fresh, file, MkBugUnless
<1>5. WorkerOf[c] = w
  BY OneWorker
<1>6. ConnOk(c)' /\ Waiting(c)'
  BY <1>3, <1>4, <1>5 DEF ConnOk, Waiting, Early, Fresh
<1>7. WorkerAlone(w)'
  <2> DEFINE s == pool[w]
             q == IF s # <<>> THEN Tail(s) ELSE s
  <2>1. Len(s) <= PoolMax /\ s \in Seq(Pooled) /\ PoolMax \in Nat
    BY <1>1, ServeAssumption DEF Known, AloneInv, WorkerAlone
  <2>2. pool'[w] = q
    BY <1>1 DEF Types
  <2> HIDE DEF s
  <2>3. Len(q) <= PoolMax
    <3>1. CASE s # <<>>
      <4>1. Len(Tail(s)) = Len(s) - 1 /\ Len(s) \in Nat
        BY <2>1, <3>1, HeadTailProperties, LenProperties
      <4> QED
        BY <2>1, <3>1, <4>1
    <3>2. CASE s = <<>>
      BY <2>1, <3>2
    <3> QED
      BY <3>1, <3>2
  <2> QED
    BY <1>3, <2>2, <2>3 DEF WorkerAlone
<1> QED
  BY <1>1, <1>3, <1>4, <1>6, <1>7, OwnConn

LEMMA SendSomeAlone ==
    ASSUME Alone, Known, IInv', NEW w \in Workers, SendSome(w)
    PROVE  AloneInv' /\ bug' = bug
<1>1. PICK c, r : c = conn[w] /\ r = Req(w)
  OBVIOUS
<1>2. PICK n \in 1 .. Least(r.filled, Len(r.buf)) :
        /\ req' = [req EXCEPT ![c] =
                     [bytes_offset |-> r.bytes_offset + n,
                      bytes_to_send |-> r.bytes_to_send - n, curr |-> r.curr,
                      buf |-> DropBytes(r.buf, n), filled |-> r.filled - n]]
        /\ rcvd' = [rcvd EXCEPT ![c] = @ \o TakeBytes(r.buf, n)]
        /\ MkBugUnless(r.bytes_to_send >= n, "over")
  BY <1>1 DEF SendSome
<1>3. PICK x : x = [bytes_offset |-> r.bytes_offset + n,
                    bytes_to_send |-> r.bytes_to_send - n, curr |-> r.curr,
                    buf |-> DropBytes(r.buf, n), filled |-> r.filled - n]
  OBVIOUS
<1>4. pc[w] = "send" /\ Goto(w, "loop") /\ UNCHANGED <<file, pool, locals>> /\ Types
  BY DEF SendSome, Known, IInv
<1>5. /\ c \in Conns /\ r = req[c] /\ ~early[w]
      /\ Placed(r) /\ rcvd[c] = Stream(r.bytes_offset)
  BY <1>1, <1>4, ServingAlone DEF Known, IInv, WorkerOk, Afterwards
<1>6. /\ r.bytes_offset \in Int /\ r.bytes_to_send \in Int /\ r.filled \in Nat
      /\ r.buf \in Seq(Int) /\ r.filled = Len(r.buf)
  BY <1>1, <1>4, Serving DEF Known
<1> DEFINE a == r.bytes_offset
           b == Off(r)
           h == -HeaderLen
           m == a + n
<1>7. /\ a \in Int /\ b \in Int /\ h \in Int /\ h <= a /\ b <= size /\ size \in Nat
      /\ b = a + r.filled /\ n \in Nat \ {0} /\ n <= r.filled /\ n <= Len(r.buf)
      /\ m \in Int /\ a <= m /\ m <= b
      /\ r.buf = Part(a, b) /\ r.filled <= Cap /\ Cap \in Nat /\ a + r.bytes_to_send = size
  <2>1. /\ a \in Int /\ h \in Int /\ h <= a /\ b <= size /\ size \in Nat
        /\ b = a + r.filled /\ r.buf = Part(a, b) /\ r.filled <= Cap /\ Cap \in Nat
        /\ a + r.bytes_to_send = size
    BY <1>4, <1>5, <1>6, SizesAre DEF Placed, Off
  <2>2. n \in Nat \ {0} /\ n <= r.filled /\ n <= Len(r.buf)
    BY <1>6 DEF Least
  <2> HIDE DEF a, b, h, Cap
  <2> QED
    BY <1>6, <2>1, <2>2
<1> HIDE DEF a, b, h, m, Cap
<1>8. DropBytes(r.buf, n) = Part(m, b) /\ TakeBytes(r.buf, n) = Part(a, m)
  <2>1. /\ SubSeq(Part(a, b), 1, n) = Part(a, m)
        /\ SubSeq(Part(a, b), n + 1, Len(Part(a, b))) = Part(m, b)
    <3>1. a + n <= b /\ n \in Nat /\ a \in Int /\ b \in Int
      BY <1>7 DEF m
    <3>2. /\ SubSeq(Part(a, b), 1, n) = Part(a, a + n)
          /\ SubSeq(Part(a, b), n + 1, Len(Part(a, b))) = Part(a + n, b)
      BY <3>1, PartCut
    <3> QED
      BY <3>2 DEF m
  <2>2. Least(n, Len(r.buf)) = n
    BY <1>6, <1>7 DEF Least
  <2> QED
    BY <1>7, <2>1, <2>2 DEF DropBytes, TakeBytes
<1>9. rcvd'[c] = Stream(m)
  <2>1. Part(h, a) \o Part(a, m) = Part(h, m)
    BY <1>7, PartConcat
  <2>2. rcvd'[c] = rcvd[c] \o TakeBytes(r.buf, n)
    BY <1>2, <1>4, <1>5 DEF Types
  <2> QED
    BY <1>5, <1>8, <2>1, <2>2 DEF Stream, a, h
<1>10. /\ x.bytes_offset = m /\ x.bytes_to_send = r.bytes_to_send - n /\ x.curr = r.curr
       /\ x.buf = Part(m, b) /\ x.filled = r.filled - n
  BY <1>3, <1>8 DEF a, m
<1> DEFINE f == r.filled
           l == r.bytes_to_send
<1>11. f \in Nat /\ l \in Int /\ b = a + f /\ f <= Cap /\ n <= f /\ a + l = size
  BY <1>6, <1>7
<1> HIDE DEF f, l
<1>12. m + (f - n) = b /\ m + (l - n) = size /\ f - n <= Cap
  BY <1>7, <1>11 DEF m
<1>13. Off(x) = b
  <2>1. Off(x) = m + (f - n)
    BY <1>10 DEF Off, f
  <2> QED
    BY <1>12, <2>1
<1>14. Placed(x)
  <2>1. Place(x)
    BY <1>5, <1>10, <1>13 DEF Placed, Place, b
  <2>2. h <= m /\ b <= size /\ f - n <= Cap /\ m + (l - n) = size
    BY <1>7, <1>12
  <2> QED
    BY <1>10, <1>13, <2>1, <2>2 DEF Placed, h, f, l
<1>15. bug' = bug
  <2>1. r.bytes_to_send >= n
    BY <1>6, <1>7
  <2> QED
    BY <1>2, <2>1 DEF MkBugUnless
<1>16. /\ req'[c] = x /\ pc'[w] = "loop" /\ conn'[w] = c /\ ~early'[w] /\ pool'[w] = pool[w]
       /\ \A d \in Conns : d # c => req'[d] = req[d] /\ rcvd'[d] = rcvd[d]
  BY <1>1, <1>2, <1>3, <1>4, <1>5 DEF Types, Goto, locals
<1>17. x # NoReq
  BY <1>16 DEF IInv, WorkerOk, Req
<1>18. WorkerAlone(w)'
  BY <1>16, Quiet
<1> QED
  BY <1>1, <1>4, <1>5, <1>9, <1>10, <1>14, <1>15, <1>16, <1>17, <1>18, OwnPlaced

LEMMA TeeCurrAlone ==
    ASSUME Alone, Known, IInv', NEW w \in Workers, TeeCurr(w)
    PROVE  AloneInv'
<1>1. PICK c, r : c = conn[w] /\ r = Req(w)
  OBVIOUS
<1>2. PICK i : i = r.curr
  OBVIOUS
<1> DEFINE some == Tee(Curr(w).data, r.buf, Curr(w).filled)
           a == From(i)
           b == To(i)
<1>3. pc[w] = "tee" /\ Goto(w, "send") /\ UNCHANGED <<file, rcvd, pool, locals>> /\ Types
  BY DEF TeeCurr, Known, IInv
<1>4. /\ c \in Conns /\ r = req[c] /\ ~early[w] /\ r.filled = 0
      /\ Placed(r) /\ rcvd[c] = Stream(r.bytes_offset)
  BY <1>1, <1>3, ServingAlone DEF Known, IInv, WorkerOk, Afterwards
<1>5. /\ i \in Pipes /\ Curr(w) = cache[i] /\ PipeIs(cache[i])
      /\ r.bytes_offset \in Int /\ r.bytes_to_send \in Int /\ r.buf = <<>>
  <2>1. r.bytes_offset \in Int /\ r.bytes_to_send \in Int
        /\ r.buf \in Seq(Int) /\ r.filled = Len(r.buf)
    BY <1>1, <1>3, Serving DEF Known
  <2>2. i \in Pipes /\ Curr(w) = cache[i] /\ PipeIs(cache[i])
    BY <1>1, <1>2, <1>3, AtPlace DEF AtPipe
  <2> QED
    BY <1>4, <2>1, <2>2, EmptyBuf
<1>6. IsFull(i) /\ Off(r) = a
  BY <1>1, <1>2, <1>3 DEF Known, AloneInv, WorkerAlone
<1>7. some = Full(i)
  BY <1>5, <1>6, TeeAll DEF IsFull
<1>8. /\ a \in Nat /\ b \in Nat /\ a < b /\ b <= size /\ size \in Nat
      /\ IF i + 1 \in Pipes THEN b = From(i + 1) ELSE b = size
      /\ i \in Nat \ {0} /\ Full(i) # <<>> /\ Full(i) \in Seq(Int)
      /\ Len(Full(i)) = b - a /\ Len(Full(i)) <= Cap /\ Full(i) = Part(a, b)
  BY <1>3, <1>5, SizesAre, PipePlaces, FullIs DEF Full
<1>9. PICK x : /\ req' = [req EXCEPT ![c] = x]
               /\ x.bytes_offset = r.bytes_offset /\ x.bytes_to_send = r.bytes_to_send
               /\ x.curr = (IF i + 1 \in Pipes THEN i + 1 ELSE 0)
               /\ x.buf = r.buf \o some /\ x.filled = r.filled + Len(some)
  <2> DEFINE y == [bytes_offset |-> r.bytes_offset, bytes_to_send |-> r.bytes_to_send,
                   curr |-> IF i + 1 \in Pipes THEN i + 1 ELSE 0,
                   buf |-> r.buf \o some, filled |-> r.filled + Len(some)]
             eagain == some = <<>> /\ Curr(w).filled # 0
  <2>1. req' = IF eagain THEN req ELSE [req EXCEPT ![c] = y]
    BY <1>1, <1>2 DEF TeeCurr
  <2>2. ~eagain
    BY <1>7, <1>8
  <2> HIDE DEF some, eagain
  <2>3. /\ y.bytes_offset = r.bytes_offset /\ y.bytes_to_send = r.bytes_to_send
        /\ y.curr = (IF i + 1 \in Pipes THEN i + 1 ELSE 0)
        /\ y.buf = r.buf \o some /\ y.filled = r.filled + Len(some)
    OBVIOUS
  <2> HIDE DEF y
  <2> QED
    BY <2>1, <2>2, <2>3
<1> HIDE DEF a, b, some, Cap
<1>10. r.bytes_offset = a
  BY <1>4, <1>5, <1>6, <1>8 DEF Off
<1>11. x.buf = Part(a, b) /\ x.filled = b - a
  <2>1. <<>> \o Full(i) = Full(i)
    BY <1>8, ConcatEmptySeq
  <2> QED
    BY <1>4, <1>5, <1>7, <1>8, <1>9, <2>1
<1>12. Off(x) = b
  BY <1>8, <1>9, <1>10, <1>11 DEF Off
<1>13. Place(x)
  <2>1. CASE i + 1 \in Pipes
    <3>1. x.curr = i + 1 /\ x.curr # 0 /\ b = From(i + 1)
      BY <1>8, <1>9, <2>1
    <3> QED
      BY <1>12, <3>1 DEF Place
  <2>2. CASE i + 1 \notin Pipes
    BY <1>8, <1>9, <1>12, <2>2 DEF Place
  <2> QED
    BY <2>1, <2>2
<1>14. Placed(x)
  BY <1>4, <1>8, <1>9, <1>10, <1>11, <1>12, <1>13 DEF Placed
<1>15. /\ req'[c] = x /\ pc'[w] = "send" /\ conn'[w] = c /\ ~early'[w] /\ pool'[w] = pool[w]
       /\ rcvd'[c] = Stream(x.bytes_offset)
       /\ \A d \in Conns : d # c => req'[d] = req[d] /\ rcvd'[d] = rcvd[d]
  BY <1>1, <1>3, <1>4, <1>9 DEF Types, Goto, locals
<1>16. x # NoReq
  BY <1>15 DEF IInv, WorkerOk, Req
<1>17. WorkerAlone(w)'
  BY <1>15, Quiet
<1> QED
  BY <1>1, <1>3, <1>4, <1>14, <1>15, <1>16, <1>17, OwnPlaced

LEMMA AnswerCachedAlone ==
    ASSUME Alone, Known, IInv', NEW w \in Workers, AnswerCached(w)
    PROVE  AloneInv' /\ bug' = bug
<1>1. PICK c, r : c = conn[w] /\ r = Req(w)
  OBVIOUS
<1> DEFINE some == Tee(headers.data, r.buf, headers.filled)
           h == -HeaderLen
<1>2. /\ pc[w] = "answer" /\ Goto(w, "loop") /\ early' = [early EXCEPT ![w] = FALSE]
      /\ headers.filled # 0 /\ UNCHANGED <<file, rcvd, pool, conn, want>> /\ Types
      /\ MkBugUnless(Len(some) >= header_len, "short")
  BY <1>1 DEF AnswerCached, Known, IInv
<1>3. /\ c \in Conns /\ r = req[c] /\ Fresh(r) /\ rcvd[c] = <<>>
  BY <1>1, <1>2, ServingAlone DEF Known, IInv, WorkerOk, AtHeaders
<1>4. PICK x : /\ req' = [req EXCEPT ![c] = x]
               /\ x.bytes_offset = r.bytes_offset - header_len
               /\ x.bytes_to_send = r.bytes_to_send + header_len
               /\ x.curr = r.curr /\ x.buf = r.buf \o some
               /\ x.filled = r.filled + Len(some)
  <2> DEFINE y == [bytes_offset |-> r.bytes_offset - header_len,
                   bytes_to_send |-> r.bytes_to_send + header_len, curr |-> r.curr,
                   buf |-> r.buf \o some, filled |-> r.filled + Len(some)]
  <2>1. req' = [req EXCEPT ![c] = y]
    BY <1>1 DEF AnswerCached
  <2> HIDE DEF some
  <2>2. /\ y.bytes_offset = r.bytes_offset - header_len
        /\ y.bytes_to_send = r.bytes_to_send + header_len
        /\ y.curr = r.curr /\ y.buf = r.buf \o some
        /\ y.filled = r.filled + Len(some)
    OBVIOUS
  <2> HIDE DEF y
  <2> QED
    BY <2>1, <2>2
<1>5. r.buf = <<>>
  BY <1>1, <1>2, <1>3, Serving, EmptyBuf DEF Known, Fresh
<1>6. /\ header_len = HeaderLen /\ PipeIs(headers) /\ headers.data # <<>>
      /\ HeadersFirst(headers.data)
  <2>1. Len(<<>>) = 0
    BY EmptySeq
  <2> QED
    BY <1>2, <2>1 DEF Known, IInv, HeadersOk, PipeIs
<1>7. some = headers.data
  BY <1>5, <1>6, TeeAll
<1>8. PICK n \in 0 .. size : /\ headers.data = Stream(n)
                             /\ n # 0 => size + HeaderLen < Cap /\ IsFull(1)
  BY <1>6 DEF Known, AloneInv, HeadersTail
<1>9. /\ size \in Nat \ {0} /\ Cap \in Nat \ {0} /\ HeaderLen \in Nat \ {0}
      /\ HeaderLen <= Cap /\ h \in Int /\ h <= n /\ n \in Nat /\ n <= size /\ From(1) = 0
  BY <1>2, <1>8, SizesAre, FirstPipe, PipePlaces
<1>10. Stream(n) \in Seq(Int) /\ Len(Stream(n)) = n + HeaderLen
  <2> HIDE DEF h
  <2>1. Part(h, n) \in Seq(Int) /\ Len(Part(h, n)) = n - h
    <3>1. h \in Int /\ n \in Int /\ h <= n
      BY <1>9
    <3> QED
      BY <3>1, PartIs
  <2>2. n - h = n + HeaderLen
    BY <1>9 DEF h
  <2> QED
    BY <2>1, <2>2 DEF Stream, h
<1> HIDE DEF some, Cap
<1>11. /\ x.bytes_offset = h /\ x.bytes_to_send = size + HeaderLen /\ x.curr = 1
       /\ x.buf = Stream(n) /\ x.filled = n + HeaderLen
  <2>1. <<>> \o Stream(n) = Stream(n)
    BY <1>10, ConcatEmptySeq
  <2> QED
    BY <1>3, <1>4, <1>5, <1>6, <1>7, <1>8, <1>9, <1>10, <2>1 DEF Fresh
<1>12. Off(x) = n
  BY <1>9, <1>11 DEF Off
<1>13. Place(x)
  BY <1>8, <1>9, <1>11, <1>12 DEF Place
<1>14. Placed(x)
  <2>1. x.buf = Part(x.bytes_offset, Off(x))
    BY <1>11, <1>12 DEF Stream
  <2>2. h <= x.bytes_offset /\ x.filled <= Cap /\ x.bytes_offset + x.bytes_to_send = size
    BY <1>8, <1>9, <1>11
  <2> QED
    BY <1>9, <1>12, <1>13, <2>1, <2>2 DEF Placed
<1>15. /\ req'[c] = x /\ pc'[w] = "loop" /\ conn'[w] = c /\ ~early'[w] /\ pool'[w] = pool[w]
       /\ rcvd'[c] = <<>>
       /\ \A d \in Conns : d # c => req'[d] = req[d] /\ rcvd'[d] = rcvd[d]
  BY <1>1, <1>2, <1>3, <1>4 DEF Types, Goto
<1>16. rcvd'[c] = Stream(x.bytes_offset)
  BY <1>9, <1>11, <1>15, PartEmpty DEF Stream
<1>17. x # NoReq
  BY <1>15 DEF IInv, WorkerOk, Req
<1>18. WorkerAlone(w)'
  BY <1>15, Quiet
<1>19. bug' = bug
  <2>1. Len(some) >= header_len
    BY <1>6, <1>7, <1>8, <1>9, <1>10
  <2> QED
    BY <1>2, <2>1 DEF MkBugUnless
<1>20. AloneInv'
  BY <1>1, <1>2, <1>3, <1>14, <1>15, <1>16, <1>17, <1>18, OwnPlaced
<1> QED
  BY <1>19, <1>20

LEMMA AloneKeeps ==
    ASSUME Alone, Known, [Next]_vars
    PROVE  Known'
<1>1. IInv' /\ RetIs'
  BY NextKeeps, RetStays DEF Known
<1>2. ASSUME Next
      PROVE  AloneInv'
  <2>1. PICK w \in Workers : Event(w) \/ Step(w)
    BY <1>2 DEF Next
  <2>2. CASE Event(w)
    BY <1>1, <2>2, Stage30Alone, EventAlone DEF Event
  <2>3. CASE Step(w)
    <3>1. CASE Fill(w) \/ Vmsplice(w) \/ Filled(w)
      BY <3>1, FillAlone, VmspliceAlone, FilledAlone
    <3>2. CASE Headers(w) \/ LockHeaders(w) \/ FillHeaders(w) \/ FillFirst(w)
      BY <1>1, <3>2, HeadersAlone, FillFirstAlone
    <3>3. CASE AnswerDirect(w) \/ AnswerCached(w)
      BY <1>1, <3>3, AnswerDirectAlone, AnswerCachedAlone
    <3>4. CASE \/ Loop(w) \/ TeeCurr(w) \/ SendNothing(w) \/ SendFails(w) \/ SendSome(w)
               \/ EndReq(w)
      BY <1>1, <3>4, LoopAlone, TeeCurrAlone, SendNothingAlone, SendSomeAlone, EndReqAlone
    <3> QED
      BY <2>3, <3>1, <3>2, <3>3, <3>4 DEF Step
  <2> QED
    BY <2>1, <2>2, <2>3
<1>3. ASSUME UNCHANGED vars
      PROVE  AloneInv'
  <2>1. UNCHANGED <<file, req, rcvd, pool, pc, conn, early, want, ret>>
    BY <1>3 DEF vars, locals
  <2>2. CacheExact' /\ HeadersTail' /\ FirstStays /\ \A i : IsFull(i) <=> IsFull(i)'
    BY <2>1, FileStays
  <2>3. ASSUME NEW c \in Conns
        PROVE  ConnOk(c)' /\ Waiting(c)'
    <3>1. CASE Early(c)
      BY <2>1, <3>1 DEF Known, AloneInv, ConnOk, Waiting, Early, Fresh, file
    <3>2. CASE ~Early(c)
      <4>1. ~Early(c)' /\ UNCHANGED size
        BY <2>1, <3>2 DEF Early, file
      <4>2. ConnOk(c)'
        BY <2>1, <2>2, <3>2, <4>1, StillPlaced
      <4> QED
        BY <2>1, <4>2 DEF Known, AloneInv, Waiting
    <3> QED
      BY <3>1, <3>2
  <2>4. ASSUME NEW w \in Workers
        PROVE  WorkerAlone(w)'
    <3>1. WorkerAlone(w) /\ UNCHANGED <<size, cache>> /\ Req(w)' = Req(w)
      BY <2>1 DEF Known, AloneInv, file, Req
    <3> QED
      BY <2>1, <2>2, <3>1 DEF WorkerAlone, From, To, Off
  <2> QED
    BY <2>2, <2>3, <2>4 DEF AloneInv
<1> QED
  BY <1>1, <1>2, <1>3 DEF Known

\* With one worker a request is where Placed has it, and the pipes of the cache
\* and its headers have what they are to have, whatever sockets take and
\* whatever connections come and go (cache_req.c:51-89, socket.c:19-111).
THEOREM AloneInvariant == Alone => (Spec => []Known)
<1> SUFFICES ASSUME Alone
             PROVE  Spec => []Known
  OBVIOUS
<1>1. Init => Known
  BY InitIInv, InitAlone DEF Known, Init, RetIs
<1>2. Known /\ [Next]_vars => Known'
  BY AloneKeeps
<1> QED
  BY <1>1, <1>2, PTL DEF Spec

\* No assertion of the byte path fires when there is one worker.
LEMMA NoBug ==
    ASSUME Alone, MoreBuffers, Known, NoMkBug, [Next]_vars
    PROVE  NoMkBug'
<1>1. CASE Next
  <2>1. PICK w \in Workers : Event(w) \/ Step(w)
    BY <1>1 DEF Next
  <2>2. IInv'
    BY NextKeeps DEF Known
  <2>3. CASE Event(w)
    BY <2>2, <2>3, Stage30Alone DEF Event, EventWrite, EventDrop, NoMkBug
  <2>4. CASE Headers(w) \/ LockHeaders(w) \/ FillHeaders(w) \/ AnswerDirect(w) \/ Filled(w)
    BY <2>4 DEF Headers, LockHeaders, FillHeaders, AnswerDirect, Filled, NoMkBug
  <2>5. CASE TeeCurr(w) \/ SendNothing(w) \/ SendFails(w) \/ EndReq(w)
    BY <2>5 DEF TeeCurr, SendNothing, SendFails, EndReq, NoMkBug
  <2>6. CASE Vmsplice(w) \/ SendSome(w) \/ AnswerCached(w) \/ FillFirst(w)
    BY <2>2, <2>6, VmspliceAlone, SendSomeAlone, AnswerCachedAlone, TailIs DEF NoMkBug
  <2>7. CASE Fill(w)
    <3>1. Off(Req(w)) <= size /\ FillLen(Req(w)) \in Nat
      BY <2>7, AtPlace DEF Fill, AtPipe
    <3>2. FillLen(Req(w)) >= 0
      BY <3>1
    <3> QED
      BY <2>7, <3>1, <3>2 DEF Fill, MkBugUnless, NoMkBug
  <2>8. CASE Loop(w)
    <3>1. Placed(Req(w))
      BY <2>8, ServingAlone DEF Loop, Known, IInv, WorkerOk, Afterwards
    <3> QED
      BY <2>8, <3>1 DEF Loop, Placed, MkBugUnless, NoMkBug
  <2> QED
    BY <2>1, <2>3, <2>4, <2>5, <2>6, <2>7, <2>8 DEF Step
<1>2. CASE UNCHANGED vars
  BY <1>2 DEF vars, NoMkBug
<1> QED
  BY <1>1, <1>2

\* With one worker no assertion of the byte path fires (pipe_buf.c:67,74;
\* cache_req.c:47,72-73; cache.c:108,215,415; socket.c:36,103), as long as a
\* pipe has more than one buffer.
THEOREM AloneNoMkBug == Alone /\ MoreBuffers => (Spec => []NoMkBug)
<1> SUFFICES ASSUME Alone, MoreBuffers
             PROVE  Spec => []NoMkBug
  OBVIOUS
<1>1. Init => NoMkBug
  BY DEF Init, NoMkBug
<1>2. Known /\ NoMkBug /\ [Next]_vars => NoMkBug'
  BY NoBug
<1>3. Spec => []Known
  BY AloneInvariant
<1> QED
  BY <1>1, <1>2, <1>3, PTL DEF Spec

(***************************************************************************)
(* What the invariant says.                                                *)
(***************************************************************************)

\* With one worker a pipe of the cache has nothing or just its part of the
\* file, all of it, whoever was served from it (cache_req.c:75-88).
THEOREM AloneCacheExact == Alone => (Spec => []CacheExact)
<1> SUFFICES ASSUME Alone
             PROVE  Spec => []CacheExact
  OBVIOUS
<1>1. Known => CacheExact
  BY DEF Known, AloneInv
<1> QED
  BY <1>1, AloneInvariant, PTL

\* With one worker what the code counts of a response is what its client got
\* and what is in the pipe of the request (cache.c:111-115, socket.c:97-99).
THEOREM AloneAccounting == Alone => (Spec => []Accounting)
<1> SUFFICES ASSUME Alone
             PROVE  Spec => []Accounting
  OBVIOUS
<1>1. Known => Accounting
  BY DEF Known, AloneInv, ConnOk, Early, Placed, Stream, Accounting
<1> QED
  BY <1>1, AloneInvariant, PTL

LEMMA SizeStays ==
    ASSUME [Next]_vars
    PROVE  UNCHANGED size
<1>1. ASSUME NEW w \in Workers, Event(w)
      PROVE  UNCHANGED size
  BY <1>1 DEF Event, Stage30, EventWrite, EventDrop, file
<1>2. ASSUME NEW w \in Workers, Step(w)
      PROVE  UNCHANGED size
  <2>1. CASE Fill(w) \/ Filled(w) \/ Headers(w) \/ AnswerDirect(w) \/ AnswerCached(w)
    BY <2>1 DEF Fill, Filled, Headers, AnswerDirect, AnswerCached, file
  <2>2. CASE Vmsplice(w) \/ LockHeaders(w) \/ FillHeaders(w) \/ FillFirst(w)
    BY <2>2 DEF Vmsplice, LockHeaders, FillHeaders, FillFirst
  <2>3. CASE \/ Loop(w) \/ TeeCurr(w) \/ SendNothing(w) \/ SendFails(w) \/ SendSome(w)
             \/ EndReq(w)
    BY <2>3 DEF Loop, TeeCurr, SendNothing, SendFails, SendSome, EndReq, file
  <2> QED
    BY <1>2, <2>1, <2>2, <2>3 DEF Step
<1> QED
  BY <1>1, <1>2 DEF Next, vars, file

LEMMA SizeIsOne == Spec => [](size \in Sizes)
<1>1. Init => size \in Sizes
  BY DEF Init
<1>2. size \in Sizes /\ [Next]_vars => (size \in Sizes)'
  BY SizeStays
<1> QED
  BY <1>1, <1>2, PTL DEF Spec

\* The request of a connection.
LEMMA ConnTypes ==
    ASSUME Known, NEW c \in Conns, req[c] # NoReq
    PROVE  /\ req[c].curr \in Pipes \cup {0}
           /\ req[c].bytes_offset \in -HeaderLen .. size
           /\ req[c].bytes_to_send \in 0 .. size + HeaderLen
           /\ req[c].filled \in 0 .. Cap
<1>1. PICK r : r = req[c]
  OBVIOUS
<1>2. /\ size \in Nat \ {0} /\ Cap \in Nat \ {0} /\ HeaderLen \in Nat \ {0}
      /\ Types /\ ReqOk(r) /\ ConnOk(c)
  BY <1>1, SizesAre DEF Known, IInv, AloneInv
<1>3. r \in Requests
  BY <1>1, <1>2 DEF Types
<1>4. /\ r.bytes_offset \in Int /\ r.bytes_to_send \in Int /\ r.filled \in Nat
      /\ r.curr \in Pipes \cup {0}
  <2>1. r.filled = Len(r.buf) /\ r.curr \in Pipes \cup {0}
    BY <1>1, <1>2 DEF ReqOk
  <2>2. r.buf \in Seq(Int)
    BY <1>3 DEF Requests
  <2> QED
    BY <1>3, <2>1, <2>2, LenProperties DEF Requests
<1>5. Fresh(r) \/ Placed(r)
  BY <1>1, <1>2 DEF ConnOk
<1> HIDE DEF Cap
<1>6. CASE Fresh(r)
  BY <1>1, <1>2, <1>4, <1>6 DEF Fresh
<1>7. CASE Placed(r)
  <2> DEFINE a == r.bytes_offset
             l == r.bytes_to_send
             f == r.filled
  <2>1. /\ a \in Int /\ l \in Int /\ f \in Nat
        /\ -HeaderLen <= a /\ a + f <= size /\ f <= Cap /\ a + l = size
    BY <1>4, <1>7 DEF Placed, Off
  <2> HIDE DEF a, l, f
  <2>2. a \in -HeaderLen .. size /\ l \in 0 .. size + HeaderLen /\ f \in 0 .. Cap
    BY <1>2, <2>1
  <2> QED
    BY <1>1, <1>4, <2>2 DEF a, l, f
<1> QED
  BY <1>5, <1>6, <1>7

\* With one worker the head of an empty list of pipes is never used as a pipe
\* (cache_req.c:52-59, socket.c:30-71), and no count is negative.
THEOREM AloneTypes == Alone => (Spec => []TypeOK)
<1> SUFFICES ASSUME Alone
             PROVE  Spec => []TypeOK
  OBVIOUS
<1>1. Known /\ size \in Sizes => TypeOK
  <2> SUFFICES ASSUME Known, size \in Sizes
               PROVE  TypeOK
    OBVIOUS
  <2>1. IInv /\ Types /\ CacheOk /\ HeadersOk
    BY DEF Known, IInv
  <2>2. DOMAIN cache = Pipes
    BY <2>1 DEF CacheOk
  <2>3. \A p \in {cache[i] : i \in Pipes} \cup {headers} : p.filled \in Nat /\ p.locked \in BOOLEAN
    BY <2>1, LenProperties DEF CacheOk, HeadersOk, PipeIs
  <2>4. ASSUME NEW w \in Workers
        PROVE  /\ pc[w] \in Labels
               /\ pc[w] # "idle" => conn[w] \in Conns /\ Req(w) # NoReq
               /\ pc[w] \in {"fill", "vmsplice", "filled", "tee"} => Req(w).curr # 0
               /\ Len(pool[w]) <= PoolMax
    BY <2>1 DEF Known, AloneInv, WorkerAlone, IInv, WorkerOk, AtPipe, Types
  <2> QED
    BY <2>1, <2>2, <2>3, <2>4, ConnTypes DEF TypeOK, Types
<1> QED
  BY <1>1, AloneInvariant, SizeIsOne, PTL

(***************************************************************************)
(* With one worker ServeReq implements Response.                           *)
(***************************************************************************)

LEMMA OnePhase ==
    ASSUME Alone, NEW w \in Workers, NEW c \in Conns
    PROVE  Phase(c) = IF req[c] = NoReq THEN "none"
                      ELSE IF conn[w] = c /\ pc[w] = "end" THEN ret[w]
                      ELSE "active"
  BY OneWorker DEF Phase

LEMMA OnePhaseNext ==
    ASSUME Alone, NEW w \in Workers, NEW c \in Conns
    PROVE  Phase(c)' = IF req'[c] = NoReq THEN "none"
                       ELSE IF conn'[w] = c /\ pc'[w] = "end" THEN ret'[w]
                       ELSE "active"
  BY OneWorker DEF Phase

\* A connection whose request neither begins nor ends, and is not over.
LEMMA SamePhase ==
    ASSUME Alone, NEW w \in Workers, NEW c \in Conns,
           conn[w] # c \/ pc[w] # "end", conn'[w] # c \/ pc'[w] # "end",
           req'[c] = NoReq <=> req[c] = NoReq
    PROVE  Phase(c)' = Phase(c)
  BY OnePhase, OnePhaseNext

\* A step that ends no request and begins none.
LEMMA SamePhases ==
    ASSUME Alone, NEW w \in Workers, pc[w] # "end", pc'[w] # "end",
           \A c \in Conns : req'[c] = NoReq <=> req[c] = NoReq
    PROVE  [c \in Conns |-> Phase(c)]' = [c \in Conns |-> Phase(c)]
<1>1. \A c \in Conns : Phase(c)' = Phase(c)
  BY SamePhase
<1> QED
  BY <1>1

LEMMA Stutters ==
    ASSUME Alone, NEW w \in Workers, pc[w] # "end", pc'[w] # "end",
           \A c \in Conns : req'[c] = NoReq <=> req[c] = NoReq,
           UNCHANGED <<size, rcvd>>
    PROVE  UNCHANGED Resp!vars
<1>1. [c \in Conns |-> Phase(c)]' = [c \in Conns |-> Phase(c)]
  BY SamePhases
<1>2. Stream(size)' = Stream(size)
  BY DEF Stream, Part
<1> QED
  BY <1>1, <1>2 DEF Resp!vars

\* A step that changes the phase of one connection.
LEMMA PhaseOf ==
    ASSUME NEW c \in Conns, \A d \in Conns : d # c => Phase(d)' = Phase(d)
    PROVE  [d \in Conns |-> Phase(d)]' =
             [[d \in Conns |-> Phase(d)] EXCEPT ![c] = Phase(c)']
<1> DEFINE f == [d \in Conns |-> Phase(d)]
<1>1. f' = [d \in Conns |-> Phase(d)']
  OBVIOUS
<1>2. \A d \in Conns : Phase(d)' = [f EXCEPT ![c] = Phase(c)'][d]
  BY DEF f
<1>3. [f EXCEPT ![c] = Phase(c)'] = [d \in Conns |-> [f EXCEPT ![c] = Phase(c)'][d]]
  OBVIOUS
<1> QED
  BY <1>1, <1>2, <1>3

\* The first bytes of a response.
LEMMA FirstOf ==
    ASSUME Types, NEW a \in Int, -HeaderLen <= a, a <= size
    PROVE  /\ Stream(a) = SubSeq(Stream(size), 1, a + HeaderLen)
           /\ Stream(a) \in Seq(Int) /\ Len(Stream(a)) = a + HeaderLen
<1> DEFINE h == -HeaderLen
           n == a + HeaderLen
<1>1. /\ HeaderLen \in Nat /\ size \in Nat /\ h \in Int /\ n \in Nat /\ h + n = a
      /\ h + n <= size /\ a - h = n /\ h <= a
  BY SizesAre
<1> HIDE DEF h, n
<1>2. SubSeq(Part(h, size), 1, n) = Part(h, h + n)
  BY <1>1, PartCut
<1>3. Part(h, a) \in Seq(Int) /\ Len(Part(h, a)) = n
  BY <1>1, PartIs
<1> QED
  BY <1>1, <1>2, <1>3 DEF Stream, h, n

LEMMA Delivers ==
    ASSUME Types, NEW c \in Conns, NEW a \in Int, NEW b \in Int,
           -HeaderLen <= a, a < b, b <= size,
           rcvd[c] = Stream(a), rcvd' = [rcvd EXCEPT ![c] = Stream(b)], UNCHANGED size,
           Phase(c) = "active",
           [d \in Conns |-> Phase(d)]' = [d \in Conns |-> Phase(d)]
    PROVE  Resp!Deliver(c)
<1>1. size \in Nat /\ HeaderLen \in Nat
  BY SizesAre
<1> DEFINE n == b + HeaderLen
           m == a + HeaderLen
           k == size + HeaderLen
<1>2. Len(rcvd[c]) = m /\ Len(Stream(size)) = k /\ Stream(b) = SubSeq(Stream(size), 1, n)
  <2>1. a <= size /\ -HeaderLen <= b /\ -HeaderLen <= size /\ size <= size
    BY <1>1
  <2> QED
    BY <1>1, <2>1, FirstOf
<1>3. n \in m + 1 .. k
  BY <1>1
<1>4. n \in Len(rcvd[c]) + 1 .. Len(Stream(size))
  <2> HIDE DEF n, m, k
  <2> QED
    BY <1>2, <1>3
<1>5. rcvd' = [rcvd EXCEPT ![c] = SubSeq(Stream(size), 1, n)]
  BY <1>2
<1>6. Stream(size)' = Stream(size)
  BY DEF Stream, Part
<1>7. [d \in Conns |-> Phase(d)][c] = "active"
  OBVIOUS
<1> HIDE DEF n, m, k
<1> QED
  BY <1>4, <1>5, <1>6, <1>7 DEF Resp!Deliver

\* The request of a connection that is over: as served, or not.
LEMMA Ends ==
    ASSUME Alone, Known, NEW w \in Workers, NEW c \in Conns, req[c] # NoReq,
           conn[w] # c \/ pc[w] # "end", conn'[w] = c, pc'[w] = "end",
           conn[w] = c \/ pc[w] = "idle",
           UNCHANGED <<size, req, rcvd>>, ~Early(c),
           \/ ret'[w] = "sent" /\ ~(req[c].bytes_to_send > 0)
           \/ ret'[w] = "failed" /\ (req[c].filled # 0 \/ req[c].bytes_to_send > 0)
    PROVE  Resp!Complete(c) \/ Resp!Abort(c)
<1>1. PICK r : r = req[c]
  OBVIOUS
<1>2. Types /\ ReqOk(r) /\ Placed(r) /\ rcvd[c] = Stream(r.bytes_offset)
  BY <1>1 DEF Known, IInv, AloneInv, ConnOk
<1>3. r.bytes_offset \in Int /\ r.bytes_to_send \in Int /\ r.filled \in Nat /\ size \in Nat
  <2>1. r \in Requests
    BY <1>1, <1>2 DEF Types
  <2>2. r.filled = Len(r.buf) /\ r.buf \in Seq(Int)
    BY <1>1, <1>2, <2>1 DEF ReqOk, Requests
  <2> QED
    BY <1>2, <2>1, <2>2, LenProperties DEF Requests, Types
<1>4. /\ -HeaderLen <= r.bytes_offset /\ r.bytes_offset + r.filled <= size
      /\ r.bytes_offset + r.bytes_to_send = size
  BY <1>2 DEF Placed, Off
<1>5. r.bytes_to_send > 0 => rcvd[c] # Stream(size)
  <2> SUFFICES ASSUME r.bytes_to_send > 0
               PROVE  rcvd[c] # Stream(size)
    OBVIOUS
  <2> DEFINE a == r.bytes_offset
  <2>1. a \in Int /\ a < size /\ -HeaderLen <= a
    BY <1>3, <1>4
  <2> HIDE DEF a
  <2>2. HeaderLen \in Nat
    BY <1>2, SizesAre
  <2>3. a <= size /\ -HeaderLen <= size /\ size <= size /\ size \in Int
    BY <1>3, <2>1, <2>2
  <2>4. Len(Stream(a)) = a + HeaderLen /\ Len(Stream(size)) = size + HeaderLen
    BY <1>2, <2>1, <2>3, FirstOf
  <2>5. a + HeaderLen # size + HeaderLen
    BY <1>3, <2>1, <2>2
  <2> QED
    BY <1>2, <2>4, <2>5 DEF a
<1>6. ~(r.bytes_to_send > 0) => rcvd[c] = Stream(size)
  <2> SUFFICES ASSUME ~(r.bytes_to_send > 0)
               PROVE  rcvd[c] = Stream(size)
    OBVIOUS
  <2>1. r.bytes_offset = size
    BY <1>3, <1>4
  <2> QED
    BY <1>2, <2>1
<1>7. r.filled # 0 => r.bytes_to_send > 0
  BY <1>3, <1>4
<1>8. Phase(c) = "active" /\ Phase(c)' = ret'[w]
  BY OnePhase, OnePhaseNext
<1>9. [d \in Conns |-> Phase(d)]' = [[d \in Conns |-> Phase(d)] EXCEPT ![c] = Phase(c)']
  <2>1. \A d \in Conns : d # c => Phase(d)' = Phase(d)
    BY SamePhase
  <2> QED
    BY <2>1, PhaseOf
<1>10. Stream(size)' = Stream(size)
  BY DEF Stream, Part
<1>11. [d \in Conns |-> Phase(d)][c] = "active"
  BY <1>8
<1>12. CASE ret'[w] = "sent" /\ ~(r.bytes_to_send > 0)
  BY <1>6, <1>8, <1>9, <1>10, <1>11, <1>12 DEF Resp!Complete
<1>13. CASE ret'[w] = "failed" /\ r.bytes_to_send > 0
  BY <1>5, <1>8, <1>9, <1>10, <1>11, <1>13 DEF Resp!Abort
<1> QED
  BY <1>1, <1>7, <1>12, <1>13

LEMMA Begins ==
    ASSUME Alone, Known, IInv', NEW w \in Workers, NEW c \in Conns, Stage30(w, c)
    PROVE  Resp!Begin(c)
<1>1. /\ pc[w] = "idle" /\ pc'[w] = "fill" /\ conn'[w] = c /\ req[c] = NoReq
      /\ rcvd' = [rcvd EXCEPT ![c] = <<>>] /\ UNCHANGED size
      /\ \A d \in Conns : d # c => req'[d] = req[d]
  BY DEF Stage30, Enter, Goto, Known, IInv, Types, file
<1>2. req'[c] # NoReq
  BY <1>1 DEF IInv, WorkerOk, Req
<1>3. Phase(c) = "none" /\ Phase(c)' = "active"
  BY <1>1, <1>2, OnePhase, OnePhaseNext
<1>4. [d \in Conns |-> Phase(d)]' = [[d \in Conns |-> Phase(d)] EXCEPT ![c] = Phase(c)']
  <2>1. \A d \in Conns : d # c => Phase(d)' = Phase(d)
    BY <1>1, SamePhase
  <2> QED
    BY <2>1, PhaseOf
<1>5. Stream(size)' = Stream(size)
  BY <1>1 DEF Stream, Part
<1>6. [d \in Conns |-> Phase(d)][c] = "none"
  BY <1>3
<1> QED
  BY <1>1, <1>3, <1>4, <1>5, <1>6 DEF Resp!Begin

LEMMA ServeReturnsMaps ==
    ASSUME Alone, Known, NEW w \in Workers, pc[w] \in {"loop", "send"}, NEW result,
           ServeReturns(w, result), UNCHANGED <<size, req, rcvd>>,
           \/ result = "more"
           \/ result = "sent" /\ ~(Req(w).bytes_to_send > 0)
           \/ result = "failed" /\ Req(w).filled # 0
    PROVE  [Resp!Next]_Resp!vars
<1>1. CASE result = "more"
  <2>1. pc'[w] = "idle"
    BY <1>1 DEF ServeReturns, Leave, Goto, Known, IInv, Types
  <2> QED
    BY <2>1, Stutters
<1>2. CASE result # "more"
  <2>1. /\ pc'[w] = "end" /\ ret'[w] = result /\ conn'[w] = conn[w]
    BY <1>2 DEF ServeReturns, Goto, Known, IInv, Types, RetIs
  <2>2. PICK c \in Conns : c = conn[w] /\ Req(w) = req[c] /\ req[c] # NoReq /\ ~Early(c)
    BY ServingAlone DEF Known, IInv, WorkerOk, Afterwards
  <2>3. Resp!Complete(c) \/ Resp!Abort(c)
    BY <1>2, <2>1, <2>2, Ends
  <2> QED
    BY <2>3 DEF Resp!Next
<1> QED
  BY <1>1, <1>2

LEMMA EventMaps ==
    ASSUME Alone, Known, IInv', NEW w \in Workers, Event(w)
    PROVE  [Resp!Next]_Resp!vars
<1>1. PICK c \in Conns : Stage30(w, c) \/ EventWrite(w, c) \/ EventDrop(w, c)
  BY DEF Event
<1>2. CASE Stage30(w, c)
  BY <1>2, Begins DEF Resp!Next
<1>3. CASE EventWrite(w, c)
  <2>1. pc[w] # "end" /\ pc'[w] # "end" /\ UNCHANGED <<size, req, rcvd>>
    BY <1>3 DEF EventWrite, Enter, Goto, Known, IInv, Types, file
  <2> QED
    BY <2>1, Stutters
<1>4. CASE EventDrop(w, c)
  <2>1. /\ pc[w] = "idle" /\ pc'[w] = "end" /\ conn'[w] = c /\ ret'[w] = "failed"
        /\ req[c] # NoReq /\ UNCHANGED <<size, req, rcvd>>
    BY <1>4 DEF EventDrop, Enter, Goto, Known, IInv, Types, RetIs, file
  <2>2. ~Early(c) /\ req[c].bytes_to_send > 0
    <3>1. WorkerOf[c] = w
      BY OneWorker
    <3> QED
      BY <2>1, <3>1 DEF Known, AloneInv, Waiting, Early, IInv, WorkerOk, Afterwards
  <2>3. Resp!Complete(c) \/ Resp!Abort(c)
    BY <2>1, <2>2, Ends
  <2> QED
    BY <2>3 DEF Resp!Next
<1> QED
  BY <1>1, <1>2, <1>3, <1>4

LEMMA AnswerDirectMaps ==
    ASSUME Alone, Known, NEW w \in Workers, AnswerDirect(w)
    PROVE  [Resp!Next]_Resp!vars
<1>1. PICK c \in Conns : c = conn[w] /\ rcvd[c] = <<>> /\ req[c] # NoReq
  BY ServingAlone DEF AnswerDirect, Known, IInv, WorkerOk, AtHeaders
<1>2. /\ pc[w] = "answer" /\ pc'[w] = "loop" /\ UNCHANGED <<size, req>> /\ Types
      /\ rcvd' = [rcvd EXCEPT ![c] = <<>> \o Header]
  BY <1>1 DEF AnswerDirect, Goto, Known, IInv, Types, file
<1>3. PICK a, b : a = -HeaderLen /\ b = 0
  OBVIOUS
<1>4. /\ a \in Int /\ b \in Int /\ -HeaderLen <= a /\ a < b /\ b <= size
  BY <1>2, <1>3, SizesAre
<1>5. rcvd[c] = Stream(a)
  BY <1>1, <1>3, <1>4, PartEmpty DEF Stream
<1>6. <<>> \o Header = Stream(b)
  BY <1>3, HeaderFits, ConcatEmptySeq DEF PipeHas, Header, Stream
<1>7. Phase(c) = "active"
  BY <1>1, <1>2, OnePhase
<1>8. [d \in Conns |-> Phase(d)]' = [d \in Conns |-> Phase(d)]
  BY <1>2, SamePhases
<1>9. Resp!Deliver(c)
  <2>1. rcvd' = [rcvd EXCEPT ![c] = Stream(b)]
    BY <1>2, <1>6
  <2> QED
    BY <1>2, <1>4, <1>5, <1>7, <1>8, <2>1, Delivers
<1> QED
  BY <1>9 DEF Resp!Next

LEMMA SendSomeMaps ==
    ASSUME Alone, Known, Known', NEW w \in Workers, SendSome(w)
    PROVE  [Resp!Next]_Resp!vars
<1>1. PICK c \in Conns : c = conn[w] /\ Req(w) = req[c] /\ req[c] # NoReq
  BY ServingAlone DEF SendSome
<1> DEFINE r == req[c]
<1>2. PICK n \in 1 .. Least(r.filled, Len(r.buf)) :
        /\ req' = [req EXCEPT ![c] =
                     [bytes_offset |-> r.bytes_offset + n,
                      bytes_to_send |-> r.bytes_to_send - n, curr |-> r.curr,
                      buf |-> DropBytes(r.buf, n), filled |-> r.filled - n]]
        /\ rcvd' = [rcvd EXCEPT ![c] = @ \o TakeBytes(r.buf, n)]
  BY <1>1 DEF SendSome
<1>3. /\ pc[w] = "send" /\ pc'[w] = "loop" /\ Types /\ conn'[w] = c /\ ~early[w]
      /\ ~early'[w] /\ UNCHANGED size
  BY <1>1 DEF SendSome, Goto, Known, IInv, Types, locals, file, WorkerOk, Afterwards
<1>4. /\ Placed(r) /\ rcvd[c] = Stream(r.bytes_offset) /\ r.bytes_offset \in Int
      /\ r.filled = Len(r.buf) /\ r.filled \in Nat
  BY <1>1, <1>3, ServingAlone, Serving DEF Known
<1>5. PICK a, b : a = r.bytes_offset /\ b = r.bytes_offset + n
  OBVIOUS
<1>6. req'[c].bytes_offset = b /\ \A d \in Conns : d # c => req'[d] = req[d]
  <2>1. PICK x : x = [bytes_offset |-> r.bytes_offset + n,
                      bytes_to_send |-> r.bytes_to_send - n, curr |-> r.curr,
                      buf |-> DropBytes(r.buf, n), filled |-> r.filled - n]
    OBVIOUS
  <2>2. x.bytes_offset = b
    BY <1>5, <2>1
  <2>3. req' = [req EXCEPT ![c] = x]
    BY <1>2, <2>1
  <2> QED
    BY <1>3, <2>2, <2>3 DEF Types
<1>7. req'[c] # NoReq
  BY <1>3 DEF Known, IInv, WorkerOk, Req
<1>8. rcvd'[c] = Stream(b)
  <2>1. WorkerOf[c] = w
    BY OneWorker
  <2>2. ~Early(c)'
    BY <1>3, <2>1 DEF Early
  <2>3. ConnOk(c)'
    BY DEF Known, AloneInv
  <2>4. rcvd'[c] = Stream(req'[c].bytes_offset)
    BY <1>7, <2>2, <2>3 DEF ConnOk
  <2>5. \A x : Stream(x)' = Stream(x)
    BY DEF Stream, Part
  <2> QED
    BY <1>6, <2>4, <2>5
<1>9. /\ a \in Int /\ b \in Int /\ -HeaderLen <= a /\ a < b /\ b <= size
  <2>1. n \in Nat \ {0} /\ n <= r.filled
    BY <1>4 DEF Least
  <2>2. -HeaderLen <= r.bytes_offset /\ r.bytes_offset + r.filled <= size
    BY <1>4 DEF Placed, Off
  <2>3. size \in Nat /\ HeaderLen \in Nat
    BY <1>3, SizesAre
  <2> QED
    BY <1>4, <1>5, <2>1, <2>2, <2>3
<1>10. Phase(c) = "active"
  BY <1>1, <1>3, OnePhase
<1>11. [d \in Conns |-> Phase(d)]' = [d \in Conns |-> Phase(d)]
  <2>1. \A d \in Conns : req'[d] = NoReq <=> req[d] = NoReq
    BY <1>1, <1>6, <1>7
  <2> QED
    BY <1>3, <2>1, SamePhases
<1>12. Resp!Deliver(c)
  <2>1. rcvd[c] = Stream(a)
    BY <1>4, <1>5
  <2>2. rcvd' = [rcvd EXCEPT ![c] = Stream(b)]
    <3>1. PICK s : rcvd' = [rcvd EXCEPT ![c] = s]
      BY <1>2
    <3>2. s = Stream(b)
      BY <1>3, <1>8, <3>1 DEF Types
    <3> QED
      BY <3>1, <3>2
  <2> QED
    BY <1>3, <1>9, <1>10, <1>11, <2>1, <2>2, Delivers
<1> QED
  BY <1>12 DEF Resp!Next

LEMMA EndReqMaps ==
    ASSUME Alone, Known, NEW w \in Workers, EndReq(w)
    PROVE  [Resp!Next]_Resp!vars
<1>1. PICK c \in Conns : c = conn[w] /\ req[c] # NoReq
  BY ServingAlone DEF EndReq
<1>2. /\ pc[w] = "end" /\ pc'[w] = "idle" /\ conn'[w] = NoReq /\ UNCHANGED <<size, rcvd>>
      /\ req'[c] = NoReq /\ \A d \in Conns : d # c => req'[d] = req[d]
  BY <1>1 DEF EndReq, Leave, Goto, Known, IInv, Types, file
<1>3. Phase(c) \in {"sent", "failed"} /\ Phase(c)' = "none"
  BY <1>1, <1>2, OnePhase, OnePhaseNext DEF Known, AloneInv, WorkerAlone
<1>4. [d \in Conns |-> Phase(d)]' = [[d \in Conns |-> Phase(d)] EXCEPT ![c] = Phase(c)']
  <2>1. \A d \in Conns : d # c => Phase(d)' = Phase(d)
    BY <1>1, <1>2, SamePhase
  <2> QED
    BY <2>1, PhaseOf
<1>5. Stream(size)' = Stream(size)
  BY <1>2 DEF Stream, Part
<1>6. [d \in Conns |-> Phase(d)][c] \in {"sent", "failed"}
  BY <1>3
<1>7. Resp!End(c)
  BY <1>2, <1>3, <1>4, <1>5, <1>6 DEF Resp!End
<1> QED
  BY <1>7 DEF Resp!Next

LEMMA StepMaps ==
    ASSUME Alone, Known, Known', NEW w \in Workers, Step(w)
    PROVE  [Resp!Next]_Resp!vars
<1>1. Types /\ IInv'
  BY DEF Known, IInv
<1>2. CASE Fill(w) \/ Filled(w)
  <2>1. pc[w] # "end" /\ pc'[w] # "end" /\ UNCHANGED <<size, req, rcvd>>
    BY <1>1, <1>2 DEF Fill, Filled, FillReturns, Goto, Types, file
  <2> QED
    BY <2>1, Stutters
<1>3. CASE Vmsplice(w) \/ Headers(w) \/ LockHeaders(w) \/ FillHeaders(w) \/ FillFirst(w)
  <2>1. pc[w] # "end" /\ pc'[w] # "end" /\ UNCHANGED <<size, req, rcvd>>
    BY <1>1, <1>3 DEF Vmsplice, Headers, LockHeaders, FillHeaders, FillFirst, Goto, Types, file
  <2> QED
    BY <2>1, Stutters
<1>4. CASE AnswerCached(w) \/ TeeCurr(w)
  <2>1. /\ pc[w] \notin {"idle", "end"} /\ pc'[w] \in {"loop", "send"}
        /\ UNCHANGED <<size, rcvd>> /\ conn'[w] = conn[w]
    BY <1>1, <1>4 DEF AnswerCached, TeeCurr, Goto, Types, file, locals
  <2>2. /\ conn[w] \in Conns /\ req[conn[w]] # NoReq /\ req'[conn[w]] # NoReq
    BY <1>1, <2>1, ServingAlone DEF IInv, WorkerOk, Req
  <2>3. \A d \in Conns : d # conn[w] => req'[d] = req[d]
    BY <1>1, <1>4 DEF AnswerCached, TeeCurr, Types
  <2> QED
    BY <2>1, <2>2, <2>3, Stutters
<1>5. CASE Loop(w)
  <2>1. pc[w] = "loop" /\ UNCHANGED <<size, req, rcvd>>
    BY <1>5 DEF Loop, file
  <2>2. CASE Req(w).bytes_to_send > 0 /\ (Req(w).curr # 0 \/ Req(w).filled # 0)
    <3>1. pc'[w] # "end"
      BY <1>1, <1>5, <2>1, <2>2 DEF Loop, Goto, Types
    <3> QED
      BY <2>1, <3>1, Stutters
  <2>3. CASE ~(Req(w).bytes_to_send > 0 /\ (Req(w).curr # 0 \/ Req(w).filled # 0))
    <3>1. ServeReturns(w, IF Req(w).bytes_to_send > 0 THEN "more" ELSE "sent")
      BY <1>5, <2>3 DEF Loop
    <3> QED
      BY <2>1, <3>1, ServeReturnsMaps
  <2> QED
    BY <2>2, <2>3
<1>6. CASE SendNothing(w)
  <2>1. /\ pc[w] = "send" /\ UNCHANGED <<size, req, rcvd>>
        /\ ServeReturns(w, IF Req(w).bytes_to_send > 0 THEN "more" ELSE "sent")
    BY <1>6 DEF SendNothing, file
  <2> QED
    BY <2>1, ServeReturnsMaps
<1>7. CASE SendFails(w)
  <2>1. /\ pc[w] = "send" /\ UNCHANGED <<size, req, rcvd>>
        /\ ServeReturns(w, "failed") /\ Req(w).filled # 0
    BY <1>7 DEF SendFails, file
  <2> QED
    BY <2>1, ServeReturnsMaps
<1>8. CASE AnswerDirect(w) \/ SendSome(w) \/ EndReq(w)
  BY <1>8, AnswerDirectMaps, SendSomeMaps, EndReqMaps
<1> QED
  BY <1>2, <1>3, <1>4, <1>5, <1>6, <1>7, <1>8 DEF Step

\* With one worker each client gets its response in order, each byte once,
\* through whatever pipes it comes, and serve_req returns 0 only when all of
\* it is sent (socket.c:111).
THEOREM AloneImplementsResponse == Alone => (Spec => ResponseSpec)
<1> SUFFICES ASSUME Alone
             PROVE  Spec => ResponseSpec
  OBVIOUS
<1>1. Init => Resp!Init
  <2> SUFFICES ASSUME Init
               PROVE  Resp!Init
    OBVIOUS
  <2>1. Stream(size) \in {Stream(n) : n \in Sizes}
    BY DEF Init
  <2>2. [c \in Conns |-> Phase(c)] = [c \in Conns |-> "none"]
    BY DEF Init, Phase
  <2>3. rcvd = [c \in Conns |-> <<>>]
    BY DEF Init
  <2> QED
    BY <2>1, <2>2, <2>3 DEF Resp!Init
<1>2. Known /\ [Next]_vars => [Resp!Next]_Resp!vars
  <2> SUFFICES ASSUME Known, [Next]_vars
               PROVE  [Resp!Next]_Resp!vars
    OBVIOUS
  <2>1. Known'
    BY AloneKeeps
  <2>2. CASE Next
    <3>1. PICK w \in Workers : Event(w) \/ Step(w)
      BY <2>2 DEF Next
    <3> QED
      BY <2>1, <3>1, EventMaps, StepMaps DEF Known
  <2>3. CASE UNCHANGED vars
    <3>1. Stream(size)' = Stream(size)
      BY <2>3 DEF vars, file, Stream, Part
    <3>2. [c \in Conns |-> Phase(c)]' = [c \in Conns |-> Phase(c)]
      BY <2>3 DEF vars, locals, Phase
    <3> QED
      BY <2>3, <3>1, <3>2 DEF vars, Resp!vars
  <2> QED
    BY <2>2, <2>3
<1>3. Spec => []Known
  BY AloneInvariant
<1> QED
  BY <1>1, <1>2, <1>3, PTL DEF Spec, ResponseSpec, Resp!Spec
=============================================================================
