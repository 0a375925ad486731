--------------------------- MODULE PipeBufProofs ----------------------------
(* Theorems about PipeBuf, for any finite sets of connections and pipes and *)
(* any limits of the pools: for one worker, or for any set of workers while *)
(* no file is reset (Safe).  The last one is about one or two workers.      *)
EXTENDS PipeBuf, FiniteSetTheorems, SequenceTheorems, TLAPS

(***************************************************************************)
(* The inductive invariant.                                                *)
(***************************************************************************)

Shapes ==
    /\ open \subseteq Bufs
    /\ mem_used \in Nat
    /\ fill \in [Bufs -> Fills]
    /\ data \in [Bufs -> SUBSET Files]
    /\ locked \in [Bufs -> BOOLEAN]
    /\ \A w \in Workers : /\ Len(pool[w]) <= PoolMax
                          /\ Len(reqpool[w]) <= ReqPoolMax
    /\ pool \in [Workers -> Seq(Bufs)] /\ reqpool \in [Workers -> Seq(Bufs)]
    /\ table \in [Uris -> Files \cup {NULL}]
    /\ file \in [Files -> CacheFile \cup {NULL}]
    /\ req \in [Socks -> CacheReq \cup {NULL}]
    /\ pc \in [Workers -> Labels]
    /\ sock \in [Workers -> Socks \cup {NULL}]
    /\ arg \in [Workers -> Uris \cup Files \cup {NULL}]

\* A request that is ending has been taken off the count of its file.
Ended == {"ended", "free", "release"}
Over(s) == LET w == WorkerOf[s] IN sock[w] = s /\ pc[w] \in Ended
LiveOf(f) == {s \in Requests : req[s].file = f /\ ~Over(s)}

\* What the table and the requests point to is there, and pending counts the
\* requests.
TableTrue ==
    \A u \in Uris : table[u] # NULL =>
      /\ table[u] \in Cached
      /\ ~file[table[u]].zombie
      /\ \A v \in Uris \ {u} : table[v] # table[u]
Counted ==
    \A f \in Cached :
      /\ file[f].cache # <<>>
      /\ file[f].pending = Cardinality(LiveOf(f))
      /\ file[f].zombie => Resets
RequestsTrue ==
    \A s \in Requests :
      /\ req[s].file \in Cached
      /\ req[s].curr \in 0 .. Len(file[req[s].file].cache)

\* Where the handler uses the current pipe of the request.
UsesCurr == {"early", "earlysplice", "fill", "splice", "tee"}

\* A handler has a connection of its own worker, and a request where it needs
\* one, with a pipe left where it uses that.
Serves(w) ==
    /\ pc[w] \notin NoSock => sock[w] \in Socks /\ WorkerOf[sock[w]] = w
    /\ pc[w] \in NoReq => sock[w] \notin Requests
    /\ pc[w] \notin NoSock \cup NoReq => sock[w] \in Requests
    /\ pc[w] \in UsesCurr => Req(w).curr # 0

\* What a worker has in a local variable is there; what it is about to free
\* is out of the table and has no request.
Resetting == {"mark", "check", "drop"}
Holds(w) ==
    /\ pc[w] = "make" => arg[w] \in Uris
    /\ pc[w] \in UsesArg => arg[w] \in Cached
    /\ pc[w] \in Resetting => Resets /\ \A u \in Uris : table[u] # arg[w]
    /\ pc[w] = "drop" => LiveOf(arg[w]) = {}
    /\ pc[w] = "free" => File(w).zombie /\ LiveOf(Req(w).file) = {}

Control ==
    /\ TableTrue /\ Counted /\ RequestsTrue
    /\ \A w \in Workers : Serves(w) /\ Holds(w)

\* A pipe that the code takes for empty is, which flushing relies on.
Honest ==
    /\ \A b \in Bufs : fill[b] = "empty" => data[b] = {}
    /\ OwnBytes

IInv == Shapes /\ Control /\ PlacedOnce /\ MemUsed /\ Honest

(***************************************************************************)
(* Sequences of pipes.                                                     *)
(***************************************************************************)

LEMMA SetToSeqFacts ==
    ASSUME NEW S, IsFiniteSet(S)
    PROVE  /\ SetToSeq(S) \in Seq(S)
           /\ Len(SetToSeq(S)) = Cardinality(S)
           /\ IsInjective(SetToSeq(S))
<1> DEFINE n == Cardinality(S)
<1>1. n \in Nat /\ ExistsBijection(1 .. n, S)
  BY FS_CardinalityType
<1>2. PICK f \in [1 .. n -> S] : IsInjective(f)
  BY <1>1 DEF ExistsBijection, Bijection, Injection
<1>3. SetToSeq(S) \in [1 .. n -> S] /\ IsInjective(SetToSeq(S))
  BY <1>2 DEF SetToSeq
<1> HIDE DEF n
<1> QED
  BY <1>1, <1>3 DEF n

\* A sequence is its first k elements and the rest.
LEMMA Parts ==
    ASSUME NEW S, NEW s \in Seq(S), IsInjective(s), NEW k \in 0 .. Len(s)
    PROVE  LET first == SubSeq(s, 1, k)
               rest == SubSeq(s, k + 1, Len(s))
           IN  /\ first \in Seq(S) /\ Len(first) = k /\ IsInjective(first)
               /\ rest \in Seq(S) /\ Len(rest) = Len(s) - k /\ IsInjective(rest)
               /\ Range(first) \cap Range(rest) = {}
               /\ Range(first) \cup Range(rest) = Range(s)
<1> DEFINE first == SubSeq(s, 1, k)
           rest == SubSeq(s, k + 1, Len(s))
<1>1. k \in Nat /\ Len(s) \in Nat /\ k <= Len(s) /\ s \in [1 .. Len(s) -> S]
  BY LenProperties
<1>2. first \in Seq(S) /\ Len(first) = k /\ \A i \in 1 .. k : first[i] = s[i]
  <2>1. \A i \in 1 .. k : s[i] \in S
    BY <1>1
  <2> QED
    BY <1>1, <2>1, SubSeqProperties
<1>3. /\ rest \in Seq(S) /\ Len(rest) = Len(s) - k
      /\ \A i \in 1 .. Len(s) - k : rest[i] = s[k + i]
  <2>1. \A i \in k + 1 .. Len(s) : s[i] \in S
    BY <1>1
  <2> HIDE DEF rest
  <2>2. /\ rest \in Seq(S)
        /\ Len(rest) = IF k + 1 <= Len(s) THEN Len(s) - (k + 1) + 1 ELSE 0
        /\ \A i \in 1 .. Len(s) - (k + 1) + 1 : rest[i] = s[k + 1 + i - 1]
    BY <1>1, <2>1, SubSeqProperties DEF rest
  <2>3. Len(rest) = Len(s) - k
    <3>1. CASE k < Len(s)
      <4>1. k + 1 <= Len(s) /\ Len(s) - (k + 1) + 1 = Len(s) - k
        BY <1>1, <3>1
      <4> QED
        BY <2>2, <4>1
    <3>2. CASE ~(k < Len(s))
      <4>1. \A m, n \in Nat : m <= n /\ ~(m < n) => m = n
        OBVIOUS
      <4>2. k = Len(s)
        BY <1>1, <3>2, <4>1
      <4>3. ~(k + 1 <= Len(s)) /\ Len(s) - k = 0
        BY <1>1, <4>2
      <4> QED
        BY <2>2, <4>3
    <3> QED
      BY <3>1, <3>2
  <2>4. ASSUME NEW i \in 1 .. Len(s) - k
        PROVE  rest[i] = s[k + i]
    <3>1. i \in 1 .. Len(s) - (k + 1) + 1 /\ k + 1 + i - 1 = k + i
      BY <1>1
    <3> QED
      BY <2>2, <3>1
  <2> QED
    BY <2>2, <2>3, <2>4
<1>4. DOMAIN first = 1 .. k /\ DOMAIN rest = 1 .. Len(s) - k
      /\ DOMAIN s = 1 .. Len(s)
  BY <1>2, <1>3, LenProperties
<1> HIDE DEF first, rest
<1>5. ASSUME NEW i \in DOMAIN rest
      PROVE  k + i \in DOMAIN s /\ i \in Nat /\ k + i > k
             /\ rest[i] = s[k + i]
  BY <1>1, <1>3, <1>4
<1>6. \A i \in DOMAIN first : i \in DOMAIN s /\ i \in Nat /\ i <= k
                               /\ first[i] = s[i]
  BY <1>1, <1>2, <1>4
<1>7. IsInjective(first)
  BY <1>6 DEF IsInjective
<1>8. IsInjective(rest)
  <2> SUFFICES ASSUME NEW i \in DOMAIN rest, NEW j \in DOMAIN rest,
                      rest[i] = rest[j]
               PROVE  i = j
    BY DEF IsInjective
  <2>1. k + i = k + j
    BY <1>5 DEF IsInjective
  <2> QED
    BY <1>1, <1>5, <2>1
<1>9. Range(first) \cap Range(rest) = {}
  <2> SUFFICES ASSUME NEW i \in DOMAIN first, NEW j \in DOMAIN rest,
                      first[i] = rest[j]
               PROVE  FALSE
    BY DEF Range
  <2>1. i = k + j
    BY <1>5, <1>6 DEF IsInjective
  <2> QED
    BY <1>1, <1>5, <1>6, <2>1
<1>10. Range(first) \cup Range(rest) = Range(s)
  <2>1. ASSUME NEW i \in 1 .. Len(s)
        PROVE  s[i] \in Range(first) \cup Range(rest)
    <3>1. CASE i <= k
      BY <1>1, <1>2, <1>4, <3>1 DEF Range
    <3>2. CASE i > k
      <4>1. i - k \in 1 .. Len(s) - k /\ k + (i - k) = i
        BY <1>1, <3>2
      <4> QED
        BY <1>3, <1>4, <4>1 DEF Range
    <3> QED
      BY <1>1, <3>1, <3>2
  <2>2. Range(s) \subseteq Range(first) \cup Range(rest)
    BY <1>4, <2>1 DEF Range
  <2>3. Range(first) \cup Range(rest) \subseteq Range(s)
    BY <1>5, <1>6 DEF Range
  <2> QED
    BY <2>2, <2>3
<1> QED
  BY <1>2, <1>3, <1>7, <1>8, <1>9, <1>10 DEF first, rest

LEMMA Joined ==
    ASSUME NEW S, NEW s \in Seq(S), NEW t \in Seq(S),
           IsInjective(s), IsInjective(t), Range(s) \cap Range(t) = {}
    PROVE  /\ s \o t \in Seq(S) /\ Len(s \o t) = Len(s) + Len(t)
           /\ IsInjective(s \o t)
           /\ Range(s \o t) = Range(s) \cup Range(t)
<1> DEFINE st == s \o t
<1>1. /\ st \in Seq(S) /\ Len(st) = Len(s) + Len(t)
      /\ \A i \in 1 .. Len(s) + Len(t) :
           st[i] = IF i <= Len(s) THEN s[i] ELSE t[i - Len(s)]
  BY ConcatProperties
<1>2. Range(st) = Range(s) \cup Range(t)
  BY RangeConcatenation
<1>3. Len(s) \in Nat /\ Len(t) \in Nat
      /\ DOMAIN s = 1 .. Len(s) /\ DOMAIN t = 1 .. Len(t)
      /\ DOMAIN st = 1 .. Len(s) + Len(t)
  BY <1>1, LenProperties
<1> HIDE DEF st
<1>4. \A i \in DOMAIN st : i > Len(s) => i - Len(s) \in DOMAIN t
  BY <1>3
<1>5. ASSUME NEW i \in DOMAIN st, NEW j \in DOMAIN st, st[i] = st[j]
      PROVE  i = j
  <2>1. CASE i <= Len(s) /\ j <= Len(s)
    BY <1>1, <1>3, <1>5, <2>1 DEF IsInjective
  <2>2. CASE i > Len(s) /\ j > Len(s)
    <3>1. t[i - Len(s)] = t[j - Len(s)]
      BY <1>1, <1>3, <1>5, <2>2
    <3>2. i - Len(s) = j - Len(s)
      BY <1>4, <2>2, <3>1 DEF IsInjective
    <3> QED
      BY <1>3, <3>2
  <2>3. CASE i <= Len(s) /\ j > Len(s)
    <3>1. i \in DOMAIN s /\ s[i] = t[j - Len(s)]
      BY <1>1, <1>3, <1>5, <2>3
    <3> QED
      BY <1>4, <2>3, <3>1 DEF Range
  <2>4. CASE i > Len(s) /\ j <= Len(s)
    <3>1. j \in DOMAIN s /\ s[j] = t[i - Len(s)]
      BY <1>1, <1>3, <1>5, <2>4
    <3> QED
      BY <1>4, <2>4, <3>1 DEF Range
  <2> QED
    BY <1>3, <2>1, <2>2, <2>3, <2>4
<1> QED
  BY <1>1, <1>2, <1>5 DEF st, IsInjective

\* A sequence is its head and the rest, and all but the last and the last.
LEMMA HeadAndRest ==
    ASSUME NEW S, NEW s \in Seq(S), IsInjective(s), s # <<>>
    PROVE  LET rest == SubSeq(s, 2, Len(s))
           IN  /\ Head(s) \in S
               /\ rest \in Seq(S) /\ Len(rest) <= Len(s) /\ IsInjective(rest)
               /\ Head(s) \notin Range(rest)
               /\ Range(s) = {Head(s)} \cup Range(rest)
<1> DEFINE rest == SubSeq(s, 2, Len(s))
<1>1. Len(s) \in Nat \ {0} /\ s \in [1 .. Len(s) -> S] /\ DOMAIN s = 1 .. Len(s)
  BY LenProperties, EmptySeq
<1>2. rest = Tail(s)
  BY TailIsSubSeq
<1>3. /\ Head(s) \in S /\ rest \in Seq(S) /\ Len(rest) = Len(s) - 1
      /\ \A i \in 1 .. Len(rest) : rest[i] = s[i + 1]
  BY <1>2, HeadTailProperties
<1>4. Head(s) = s[1]
  BY <1>1
<1>5. DOMAIN rest = 1 .. Len(s) - 1
  BY <1>3, LenProperties
<1> HIDE DEF rest
<1>6. \A i \in DOMAIN rest : /\ i \in Nat /\ i + 1 \in DOMAIN s /\ i + 1 # 1
                             /\ rest[i] = s[i + 1]
  BY <1>1, <1>3, <1>5
<1>7. ASSUME NEW i \in DOMAIN rest, NEW j \in DOMAIN rest, rest[i] = rest[j]
      PROVE  i = j
  <2>1. i + 1 = j + 1
    BY <1>6, <1>7 DEF IsInjective
  <2> QED
    BY <1>6, <2>1
<1>8. 1 \in DOMAIN s
  BY <1>1
<1>9. Head(s) \notin Range(rest)
  BY <1>4, <1>6, <1>8 DEF IsInjective, Range
<1>10. ASSUME NEW i \in DOMAIN s, i # 1
       PROVE  s[i] \in Range(rest)
  <2>1. i - 1 \in DOMAIN rest /\ (i - 1) + 1 = i
    BY <1>1, <1>5, <1>10
  <2> QED
    BY <1>6, <2>1 DEF Range
<1>11. Range(s) = {Head(s)} \cup Range(rest)
  BY <1>4, <1>6, <1>8, <1>10 DEF Range
<1>12. Len(rest) <= Len(s)
  BY <1>1, <1>3
<1> QED
  BY <1>3, <1>7, <1>9, <1>11, <1>12 DEF rest, IsInjective

LEMMA FrontAndLast ==
    ASSUME NEW S, NEW s \in Seq(S), IsInjective(s), NEW n \in Nat,
           Len(s) = n + 1
    PROVE  LET front == SubSeq(s, 1, n)
           IN  /\ Last(s) \in S
               /\ front \in Seq(S) /\ Len(front) = n /\ IsInjective(front)
               /\ Last(s) \notin Range(front)
               /\ Range(s) = Range(front) \cup {Last(s)}
<1> DEFINE front == SubSeq(s, 1, n)
<1>1. s \in [1 .. n + 1 -> S] /\ DOMAIN s = 1 .. n + 1
  BY LenProperties
<1>2. Last(s) = s[n + 1] /\ n + 1 \in DOMAIN s
  BY <1>1 DEF Last
<1>3. n \in 0 .. Len(s)
  OBVIOUS
<1>4. front \in Seq(S) /\ Len(front) = n /\ IsInjective(front)
  BY <1>3, Parts
<1>5. \A i \in 1 .. n : front[i] = s[i]
  <2>1. \A i \in 1 .. n : s[i] \in S
    BY <1>1
  <2> QED
    BY <2>1, SubSeqProperties
<1>6. DOMAIN front = 1 .. n
  BY <1>4, LenProperties
<1> HIDE DEF front
<1>7. \A i \in DOMAIN front : i \in DOMAIN s /\ i # n + 1 /\ front[i] = s[i]
  BY <1>1, <1>5, <1>6
<1>8. \A i \in DOMAIN s : i # n + 1 => i \in DOMAIN front
  BY <1>1, <1>6
<1>9. Last(s) \notin Range(front)
  BY <1>2, <1>7 DEF IsInjective, Range
<1>10. Range(s) = Range(front) \cup {Last(s)}
  BY <1>2, <1>7, <1>8 DEF Range
<1>11. Last(s) \in S
  BY <1>1, <1>2
<1> QED
  BY <1>4, <1>9, <1>10, <1>11 DEF front

LEMMA CardinalityOfRange ==
    ASSUME NEW S, NEW s \in Seq(S), IsInjective(s)
    PROVE  IsFiniteSet(Range(s)) /\ Cardinality(Range(s)) = Len(s)
<1>1. Len(s) \in Nat /\ s \in [1 .. Len(s) -> S] /\ DOMAIN s = 1 .. Len(s)
  BY LenProperties
<1>2. s \in [1 .. Len(s) -> Range(s)]
  BY <1>1 DEF Range
<1>3. s \in Bijection(1 .. Len(s), Range(s))
  BY <1>1, <1>2 DEF Bijection, Injection, Surjection, IsInjective, Range
<1>4. ExistsBijection(1 .. Len(s), Range(s))
  BY <1>3 DEF ExistsBijection
<1> QED
  BY <1>1, <1>4, FS_NatBijection, FS_CountingElements

LEMMA Single ==
    ASSUME NEW S, NEW b \in S
    PROVE  <<b>> \in Seq(S) /\ Len(<<b>>) = 1 /\ IsInjective(<<b>>)
           /\ Range(<<b>>) = {b}
  BY DEF IsInjective, Range

LEMMA Nothing ==
    ASSUME NEW S
    PROVE  <<>> \in Seq(S) /\ Len(<<>>) = 0 /\ IsInjective(<<>>)
           /\ Range(<<>>) = {}
  BY DEF IsInjective, Range

(***************************************************************************)
(* Files and requests: Control is kept.                                    *)
(***************************************************************************)

LEMMA RecordsAre ==
    ASSUME Shapes
    PROVE  /\ \A f \in Cached : f \in Files /\ file[f] \in CacheFile
           /\ \A s \in Requests : s \in Socks /\ req[s] \in CacheReq
           /\ \A x \in CacheFile \cup CacheReq : x # NULL
  BY PipeBufAssumption DEF Shapes, Cached, Requests

\* A file is freed by a worker alone.
LEMMA AloneFrees ==
    ASSUME Safe, Control, NEW w \in Workers,
           pc[w] \in Resetting \/ pc[w] = "free"
    PROVE  Alone
<1>1. Serves(w) /\ Holds(w)
  BY DEF Control
<1>2. CASE pc[w] \in Resetting
  BY <1>1, <1>2 DEF Holds, Safe
<1>3. CASE pc[w] = "free"
  <2>1. sock[w] \in Requests
    BY <1>1, <1>3 DEF Serves, NoSock, NoReq
  <2>2. Req(w).file \in Cached /\ File(w) = file[Req(w).file]
    BY <2>1 DEF Control, RequestsTrue, Req, File
  <2> QED
    BY <1>1, <1>3, <2>2 DEF Control, Counted, Holds, Safe
<1> QED
  BY <1>2, <1>3

\* A step of w changes its own position and its own requests only.
StepOf(w) ==
    /\ \A v \in Workers \ {w} : pc'[v] = pc[v] /\ sock'[v] = sock[v] /\ arg'[v] = arg[v]
    /\ \A s \in Socks : WorkerOf[s] # w => req'[s] = req[s]

LEMMA OthersServe ==
    ASSUME Control, NEW w \in Workers, StepOf(w), NEW v \in Workers \ {w}
    PROVE  Serves(v)'
<1>1. Serves(v)
  BY DEF Control
<1>2. pc'[v] = pc[v] /\ sock'[v] = sock[v]
  BY DEF StepOf
<1>3. pc[v] \notin NoSock => /\ sock[v] \in Socks /\ WorkerOf[sock[v]] = v
                             /\ req'[sock[v]] = req[sock[v]]
  BY <1>1 DEF Serves, StepOf
<1>4. NoReq \cap NoSock = {} /\ UsesCurr \cap NoSock = {}
  BY DEF NoReq, NoSock, UsesCurr
<1> QED
  BY <1>1, <1>2, <1>3, <1>4 DEF Serves, Requests, Req

\* With other workers no file is freed.
LEMMA OthersHold ==
    ASSUME Safe, Control, NEW w \in Workers, StepOf(w), NEW v \in Workers \ {w},
           \A f \in Cached : f \in Cached' \/ Alone
    PROVE  Holds(v)'
<1>1. Holds(v)
  BY DEF Control
<1>2. ~Alone
  BY DEF Alone
<1>3. pc[v] \notin Resetting /\ pc[v] # "free"
  BY <1>2, AloneFrees
<1>4. pc'[v] = pc[v] /\ arg'[v] = arg[v]
  BY DEF StepOf
<1> QED
  BY <1>1, <1>2, <1>3, <1>4 DEF Holds, Resetting

\* Which requests are over changes only where a handler ends one.
LEMMA OverKept ==
    ASSUME NEW w \in Workers, StepOf(w),
           pc[w] \in Ended <=> pc'[w] \in Ended,
           pc[w] \in Ended => sock'[w] = sock[w]
    PROVE  \A s \in Socks : Over(s)' <=> Over(s)
<1> TAKE s \in Socks
<1>0. WorkerOf[s] \in Workers
  BY PipeBufAssumption
<1>1. CASE WorkerOf[s] = w
  BY <1>1 DEF Over
<1>2. CASE WorkerOf[s] # w
  BY <1>0, <1>2 DEF Over, StepOf
<1> QED
  BY <1>1, <1>2

LEMMA LiveKept ==
    ASSUME Requests' = Requests,
           \A s \in Requests : req'[s].file = req[s].file,
           \A s \in Socks : Over(s)' <=> Over(s)
    PROVE  \A f \in Files : LiveOf(f)' = LiveOf(f)
  BY DEF LiveOf, Requests

LEMMA LiveFinite ==
    ASSUME NEW f
    PROVE  /\ IsFiniteSet(LiveOf(f)) /\ Cardinality(LiveOf(f)) \in Nat
           /\ Cardinality(LiveOf(f)) = 0 <=> LiveOf(f) = {}
<1>1. LiveOf(f) \in SUBSET Socks
  BY DEF LiveOf, Requests
<1>2. IsFiniteSet(LiveOf(f))
  BY <1>1, PipeBufAssumption, FS_Subset
<1> QED
  BY <1>2, FS_CardinalityType, FS_EmptySet

\* A step that leaves the files and the requests, but for a place reached.
LEMMA Moved ==
    ASSUME Safe, Shapes, Control, NEW w \in Workers, StepOf(w),
           UNCHANGED files, Requests' = Requests,
           \A s \in Requests :
             /\ req'[s].file = req[s].file
             /\ req'[s].curr \in 0 .. Len(file[req[s].file].cache),
           pc[w] \in Ended <=> pc'[w] \in Ended,
           pc[w] \in Ended => sock'[w] = sock[w],
           Serves(w)', Holds(w)'
    PROVE  Control'
<1>1. table' = table /\ file' = file /\ Cached' = Cached
  BY DEF files, Cached
<1>2. \A f \in Files : LiveOf(f)' = LiveOf(f)
  BY OverKept, LiveKept
<1>3. TableTrue'
  BY <1>1 DEF Control, TableTrue
<1>4. Counted'
  BY <1>1, <1>2 DEF Control, Counted, Cached
<1>5. RequestsTrue'
  BY <1>1 DEF Control, RequestsTrue
<1>6. \A v \in Workers : Serves(v)' /\ Holds(v)'
  BY <1>1, OthersServe, OthersHold
<1> QED
  BY <1>3, <1>4, <1>5, <1>6 DEF Control

(***************************************************************************)
(* The places of the pipes.                                                *)
(***************************************************************************)

Pool(w) == <<"pool", w>>
ReqPool(w) == <<"reqpool", w>>
OfFile(f) == <<"file", f>>
OfReq(s) == <<"req", s>>

LEMMA PlacesAre ==
    /\ \A w \in Workers : Pool(w) \in Places /\ ReqPool(w) \in Places
    /\ \A f \in Files : OfFile(f) \in Places
    /\ \A s \in Socks : OfReq(s) \in Places
    /\ \A p \in Places : \/ \E w \in Workers : p = Pool(w) \/ p = ReqPool(w)
                         \/ \E f \in Files : p = OfFile(f)
                         \/ \E s \in Socks : p = OfReq(s)
  BY DEF Places, Pool, ReqPool, OfFile, OfReq

LEMMA ListsAre ==
    /\ \A w \in Workers : /\ ListOf(Pool(w)) = pool[w]
                          /\ ListOf(ReqPool(w)) = reqpool[w]
    /\ \A f \in Cached : ListOf(OfFile(f)) = PipesOf(f)
    /\ \A f \in Files \ Cached : ListOf(OfFile(f)) = <<>>
    /\ \A s \in Requests : ListOf(OfReq(s)) = <<req[s].buf>>
    /\ \A s \in Socks \ Requests : ListOf(OfReq(s)) = <<>>
  BY DEF ListOf, Pool, ReqPool, OfFile, OfReq

\* PlacedOnce, list by list.
Apart ==
    /\ \A p \in Places : IsInjective(ListOf(p))
    /\ \A p, q \in Places :
         p # q => Range(ListOf(p)) \cap Range(ListOf(q)) = {}
    /\ UNION {Range(ListOf(p)) : p \in Places} = open

LEMMA PlacedApart == PlacedOnce <=> Apart
<1>1. \A s : s \in Slots <=> \E p \in Places : \E i \in DOMAIN ListOf(p) : s = <<p, i>>
  BY DEF Slots
<1>2. \A p, i : PipeAt(<<p, i>>) = ListOf(p)[i]
  BY DEF PipeAt
<1>3. {PipeAt(s) : s \in Slots} = UNION {Range(ListOf(p)) : p \in Places}
  <2>1. ASSUME NEW s \in Slots
        PROVE  \E p \in Places : PipeAt(s) \in Range(ListOf(p))
    <3>1. PICK p \in Places : \E i \in DOMAIN ListOf(p) : s = <<p, i>>
      BY <1>1, Zenon
    <3> QED
      BY <1>2, <3>1 DEF Range
  <2>2. ASSUME NEW p \in Places, NEW b \in Range(ListOf(p))
        PROVE  \E s \in Slots : b = PipeAt(s)
    <3>1. PICK i \in DOMAIN ListOf(p) : b = ListOf(p)[i]
      BY DEF Range
    <3>2. <<p, i>> \in Slots
      BY <1>1, Zenon
    <3> QED
      BY <1>2, <3>1, <3>2
  <2> QED
    BY <2>1, <2>2
<1>4. ASSUME PlacedOnce
      PROVE  Apart
  <2>1. ASSUME NEW p \in Places, NEW q \in Places,
               NEW i \in DOMAIN ListOf(p), NEW j \in DOMAIN ListOf(q),
               ListOf(p)[i] = ListOf(q)[j]
        PROVE  p = q /\ i = j
    <3>1. <<p, i>> \in Slots /\ <<q, j>> \in Slots
      BY <1>1, Zenon
    <3>2. PipeAt(<<p, i>>) = PipeAt(<<q, j>>)
      BY <1>2, <2>1
    <3>3. <<p, i>> = <<q, j>>
      BY <1>4, <3>1, <3>2 DEF PlacedOnce
    <3> QED
      BY <3>3
  <2> QED
    BY <1>3, <1>4, <2>1 DEF PlacedOnce, Apart, IsInjective, Range
<1>5. ASSUME Apart
      PROVE  PlacedOnce
  <2>1. ASSUME NEW s \in Slots, NEW t \in Slots, PipeAt(s) = PipeAt(t)
        PROVE  s = t
    <3>1. PICK p \in Places : \E i \in DOMAIN ListOf(p) : s = <<p, i>>
      BY <1>1, Zenon
    <3>2. PICK q \in Places : \E j \in DOMAIN ListOf(q) : t = <<q, j>>
      BY <1>1, Zenon
    <3>3. PICK i \in DOMAIN ListOf(p), j \in DOMAIN ListOf(q) :
            s = <<p, i>> /\ t = <<q, j>>
      BY <3>1, <3>2
    <3>4. ListOf(p)[i] = ListOf(q)[j]
      BY <1>2, <2>1, <3>3
    <3>5. p = q
      BY <1>5, <3>4 DEF Apart, Range
    <3> QED
      BY <1>5, <3>3, <3>4, <3>5 DEF Apart, IsInjective
  <2> QED
    BY <1>3, <1>5, <2>1 DEF PlacedOnce, Apart
<1> QED
  BY <1>4, <1>5

\* Pipes move between the places of A only, where some are made and some
\* closed.
LEMMA Redistribute ==
    ASSUME PlacedOnce, NEW A \in SUBSET Places, NEW made, NEW closed,
           \A p \in Places \ A : ListOf(p)' = ListOf(p),
           \A p \in A : IsInjective(ListOf(p)'),
           \A p, q \in A :
             p # q => Range(ListOf(p)') \cap Range(ListOf(q)') = {},
           made \cap open = {},
           closed \cap UNION {Range(ListOf(p)') : p \in A} = {},
           closed \cup UNION {Range(ListOf(p)') : p \in A} =
             made \cup UNION {Range(ListOf(p)) : p \in A},
           open' = (open \cup made) \ closed
    PROVE  PlacedOnce'
<1> DEFINE old == UNION {Range(ListOf(p)) : p \in A}
           new == UNION {Range(ListOf(p)') : p \in A}
           others == UNION {Range(ListOf(p)) : p \in Places \ A}
<1>1. Apart
  BY PlacedApart
<1>2. old \cap others = {} /\ old \cup others = open
  BY <1>1 DEF Apart
<1>3. new \subseteq old \cup made /\ closed \subseteq old \cup made
  OBVIOUS
<1>4. new \cap others = {}
  BY <1>2, <1>3
<1>5. open' = new \cup others
  BY <1>2, <1>3
<1>6. \A p \in Places : IsInjective(ListOf(p)')
  BY <1>1 DEF Apart
<1>7. ASSUME NEW p \in Places, NEW q \in Places, p # q
      PROVE  Range(ListOf(p)') \cap Range(ListOf(q)') = {}
  <2>1. \A x \in A : Range(ListOf(x)') \subseteq new
    OBVIOUS
  <2>2. \A x \in Places \ A : Range(ListOf(x)') \subseteq others
    OBVIOUS
  <2>3. CASE p \in Places \ A /\ q \in Places \ A
    BY <1>1, <1>7, <2>3 DEF Apart
  <2> HIDE DEF new, others
  <2> QED
    BY <1>4, <1>7, <2>1, <2>2, <2>3
<1>8. UNION {Range(ListOf(p)') : p \in Places} = open'
  <2>1. UNION {Range(ListOf(p)') : p \in Places} = new \cup others
    OBVIOUS
  <2> QED
    BY <1>5, <2>1
<1>9. Apart'
  BY <1>6, <1>7, <1>8 DEF Apart, Places
<1> QED
  BY <1>9, PlacedApart, PTL

(***************************************************************************)
(* pipe_buf_new.                                                           *)
(***************************************************************************)

LEMMA PoolsAre ==
    ASSUME IInv, NEW w \in Workers
    PROVE  /\ pool[w] \in Seq(Bufs) /\ IsInjective(pool[w])
           /\ Range(pool[w]) \subseteq open
           /\ reqpool[w] \in Seq(Bufs) /\ IsInjective(reqpool[w])
           /\ Range(reqpool[w]) \subseteq open
           /\ Range(pool[w]) \cap Range(reqpool[w]) = {}
<1>1. Apart
  BY PlacedApart DEF IInv
<1>2. Pool(w) # ReqPool(w)
  BY DEF Pool, ReqPool
<1>3. ListOf(Pool(w)) = pool[w] /\ ListOf(ReqPool(w)) = reqpool[w]
  BY ListsAre
<1> QED
  BY <1>1, <1>2, <1>3, PlacesAre DEF Apart, IInv, Shapes

LEMMA LeastIs ==
    ASSUME NEW m \in Nat, NEW n \in Nat
    PROVE  /\ Least(m, n) \in Nat /\ Least(m, n) <= m /\ Least(m, n) <= n
           /\ Least(m, n) = m \/ Least(m, n) = n
  BY DEF Least

\* What is left of the pool after k calls.
Rest(w, k) == SubSeq(pool[w], Least(k, Len(pool[w])) + 1, Len(pool[w]))

LEMMA NewPipes ==
    ASSUME IInv, NEW w \in Workers, NEW k \in Nat, ~TooMany(w, k)
    PROVE  /\ New(w, k) \in Seq(Bufs) /\ Len(New(w, k)) = k
           /\ IsInjective(New(w, k))
           /\ Rest(w, k) \in Seq(Bufs) /\ Len(Rest(w, k)) <= Len(pool[w])
           /\ IsInjective(Rest(w, k))
           /\ Range(New(w, k)) \cap Range(Rest(w, k)) = {}
           /\ Range(New(w, k)) \cup Range(Rest(w, k)) =
                (Range(New(w, k)) \ open) \cup Range(pool[w])
<1> DEFINE n == Least(k, Len(pool[w]))
           more == k - n
           spare == Bufs \ open
           r == Reused(w, k)
           fresh == SubSeq(SetToSeq(spare), 1, more)
<1>1. pool[w] \in Seq(Bufs) /\ IsInjective(pool[w]) /\ Range(pool[w]) \subseteq open
  BY PoolsAre
<1>2. n \in 0 .. Len(pool[w]) /\ n \in Nat /\ more \in Nat /\ n + more = k
  <2>1. Len(pool[w]) \in Nat
    BY <1>1, LenProperties
  <2>2. n \in Nat /\ n <= k /\ n <= Len(pool[w])
    BY <2>1, LeastIs
  <2> HIDE DEF n
  <2> QED
    BY <2>1, <2>2
<1>3. /\ r \in Seq(Bufs) /\ Len(r) = n /\ IsInjective(r)
      /\ Rest(w, k) \in Seq(Bufs) /\ Len(Rest(w, k)) = Len(pool[w]) - n
      /\ IsInjective(Rest(w, k))
      /\ Range(r) \cap Range(Rest(w, k)) = {}
      /\ Range(r) \cup Range(Rest(w, k)) = Range(pool[w])
  BY <1>1, <1>2, Parts, SMTT(30) DEF Reused, Rest
<1>4. /\ IsFiniteSet(spare) /\ Cardinality(spare) \in Nat
      /\ SetToSeq(spare) \in Seq(spare)
      /\ Len(SetToSeq(spare)) = Cardinality(spare)
      /\ IsInjective(SetToSeq(spare))
  <2>1. spare \in SUBSET Bufs
    OBVIOUS
  <2>2. IsFiniteSet(spare)
    BY <2>1, PipeBufAssumption, FS_Subset
  <2> HIDE DEF spare
  <2> QED
    BY <2>2, FS_CardinalityType, SetToSeqFacts
<1>5. more <= Cardinality(spare)
  BY <1>2, <1>3, <1>4 DEF TooMany
<1>6. /\ fresh \in Seq(spare) /\ Len(fresh) = more /\ IsInjective(fresh)
  <2>1. more \in 0 .. Len(SetToSeq(spare))
    BY <1>2, <1>4, <1>5
  <2> HIDE DEF more, spare
  <2> QED
    BY <1>4, <2>1, Parts
<1>8. New(w, k) = r \o fresh
  BY <1>3 DEF New
<1> HIDE DEF r, fresh, more, n
<1>7. fresh \in Seq(Bufs) /\ Range(fresh) \subseteq Bufs \ open
  <2>1. Range(fresh) \in SUBSET spare
    BY <1>6, RangeOfSeq
  <2>2. fresh \in Seq(Bufs)
    BY <1>6, SeqMonotonic
  <2> QED
    BY <2>1, <2>2
<1>9. /\ New(w, k) \in Seq(Bufs) /\ Len(New(w, k)) = Len(r) + Len(fresh)
      /\ IsInjective(New(w, k))
      /\ Range(New(w, k)) = Range(r) \cup Range(fresh)
  <2>1. Range(r) \cap Range(fresh) = {}
    BY <1>1, <1>3, <1>7
  <2>2. r \in Seq(Bufs) /\ IsInjective(r) /\ fresh \in Seq(Bufs) /\ IsInjective(fresh)
    BY <1>3, <1>6, <1>7
  <2>3. /\ r \o fresh \in Seq(Bufs) /\ Len(r \o fresh) = Len(r) + Len(fresh)
        /\ IsInjective(r \o fresh)
        /\ Range(r \o fresh) = Range(r) \cup Range(fresh)
    BY <2>1, <2>2, Joined
  <2> QED
    BY <1>8, <2>3
<1>10. Len(New(w, k)) = k
  <2>1. Len(New(w, k)) = n + more
    BY <1>3, <1>6, <1>9
  <2> QED
    BY <1>2, <2>1
<1>11. Len(Rest(w, k)) <= Len(pool[w])
  <2>1. Len(pool[w]) \in Nat
    BY <1>1, LenProperties
  <2> QED
    BY <1>2, <1>3, <2>1
<1> QED
  BY <1>1, <1>3, <1>7, <1>9, <1>10, <1>11

LEMMA KeptIs ==
    ASSUME IInv, NEW w \in Workers
    PROVE  /\ reqpool[w] = <<>> => KeptPipe(w) = {} /\ Cardinality(KeptPipe(w)) = 0
           /\ reqpool[w] # <<>> => /\ KeptPipe(w) = {Head(reqpool[w])}
                                   /\ Cardinality(KeptPipe(w)) = 1
                                   /\ Head(reqpool[w]) = reqpool[w][1]
                                   /\ 1 \in 0 .. Len(reqpool[w])
<1>1. reqpool[w] \in Seq(Bufs)
  BY PoolsAre
<1>2. CASE reqpool[w] = <<>>
  <2>1. Least(1, Len(reqpool[w])) = 0
    BY <1>2 DEF Least
  <2>2. KeptPipe(w) = {}
    BY <2>1 DEF KeptPipe
  <2> QED
    BY <1>2, <2>2, FS_EmptySet
<1>3. CASE reqpool[w] # <<>>
  <2>1. Len(reqpool[w]) \in Nat \ {0}
    BY <1>1, <1>3, EmptySeq
  <2>2. Least(1, Len(reqpool[w])) = 1
    <3>1. \A n \in Nat \ {0} : ~(1 < n) => n = 1
      OBVIOUS
    <3> QED
      BY <2>1, <3>1 DEF Least
  <2>3. KeptPipe(w) = {reqpool[w][1]}
    BY <2>2 DEF KeptPipe
  <2>4. Head(reqpool[w]) = reqpool[w][1]
    BY <1>1, <1>3
  <2> QED
    <3>1. 1 \in 0 .. Len(reqpool[w])
      BY <2>1
    <3>2. Cardinality(KeptPipe(w)) = 1
      BY <2>3, FS_Singleton
    <3> QED
      BY <1>3, <2>3, <2>4, <3>1, <3>2
<1> QED
  BY <1>2, <1>3

(***************************************************************************)
(* The pipes of files and requests.                                        *)
(***************************************************************************)

LEMMA PipesAre ==
    ASSUME Shapes, NEW f \in Cached
    PROVE  /\ PipesOf(f) \in Seq(Bufs)
           /\ Range(PipesOf(f)) = {file[f].headers} \cup Range(file[f].cache)
<1>1. file[f].headers \in Bufs /\ file[f].cache \in Seq(Bufs)
  BY RecordsAre DEF CacheFile
<1>2. <<file[f].headers>> \in Seq(Bufs)
      /\ Range(<<file[f].headers>>) = {file[f].headers}
  BY <1>1, Single
<1> DEFINE h == <<file[f].headers>>
           c == file[f].cache
<1>3. PipesOf(f) = h \o c
  BY DEF PipesOf
<1>4. h \in Seq(Bufs) /\ c \in Seq(Bufs) /\ Range(h) = {file[f].headers}
  BY <1>1, <1>2
<1> HIDE DEF h, c
<1>5. h \o c \in Seq(Bufs) /\ Range(h \o c) = Range(h) \cup Range(c)
  BY <1>4, ConcatProperties, RangeConcatenation
<1> QED
  BY <1>3, <1>4, <1>5 DEF c

LEMMA FilesHold ==
    ASSUME IInv, NEW f \in Cached
    PROVE  /\ PipesOf(f) \in Seq(Bufs) /\ IsInjective(PipesOf(f))
           /\ Range(PipesOf(f)) \subseteq open
           /\ \A g \in Cached \ {f} : Range(PipesOf(f)) \cap Range(PipesOf(g)) = {}
           /\ \A s \in Requests : req[s].buf \notin Range(PipesOf(f))
           /\ \A w \in Workers :
                /\ Range(PipesOf(f)) \cap Range(pool[w]) = {}
                /\ Range(PipesOf(f)) \cap Range(reqpool[w]) = {}
<1>1. Apart
  BY PlacedApart DEF IInv
<1>2. f \in Files /\ OfFile(f) \in Places /\ ListOf(OfFile(f)) = PipesOf(f)
  BY PlacesAre, ListsAre DEF Cached
<1>3. /\ PipesOf(f) \in Seq(Bufs) /\ IsInjective(PipesOf(f))
      /\ Range(PipesOf(f)) \subseteq open
  BY <1>1, <1>2, PipesAre DEF Apart, IInv
<1>4. ASSUME NEW p \in Places, p # OfFile(f)
      PROVE  Range(PipesOf(f)) \cap Range(ListOf(p)) = {}
  BY <1>1, <1>2, <1>4 DEF Apart
<1>5. ASSUME NEW g \in Cached \ {f}
      PROVE  Range(PipesOf(f)) \cap Range(PipesOf(g)) = {}
  <2>1. OfFile(g) \in Places /\ OfFile(g) # OfFile(f)
    BY PlacesAre DEF Cached, OfFile
  <2> QED
    BY <2>1, <1>4, ListsAre
<1>6. ASSUME NEW s \in Requests
      PROVE  req[s].buf \notin Range(PipesOf(f))
  <2>1. OfReq(s) \in Places /\ OfReq(s) # OfFile(f)
    BY PlacesAre DEF Requests, OfReq, OfFile
  <2>2. Range(ListOf(OfReq(s))) = {req[s].buf}
    BY ListsAre, Single
  <2> QED
    BY <2>1, <2>2, <1>4
<1>7. ASSUME NEW w \in Workers
      PROVE  /\ Range(PipesOf(f)) \cap Range(pool[w]) = {}
             /\ Range(PipesOf(f)) \cap Range(reqpool[w]) = {}
  <2>1. /\ Pool(w) \in Places /\ Pool(w) # OfFile(f)
        /\ ReqPool(w) \in Places /\ ReqPool(w) # OfFile(f)
    BY PlacesAre DEF Pool, ReqPool, OfFile
  <2> QED
    BY <2>1, <1>4, ListsAre
<1> QED
  BY <1>3, <1>5, <1>6, <1>7

LEMMA RequestsHold ==
    ASSUME IInv, NEW s \in Requests
    PROVE  /\ req[s].buf \in open /\ req[s].buf \in Bufs
           /\ \A t \in Requests \ {s} : req[t].buf # req[s].buf
           /\ \A w \in Workers : /\ req[s].buf \notin Range(pool[w])
                                 /\ req[s].buf \notin Range(reqpool[w])
<1>1. Apart
  BY PlacedApart DEF IInv
<1>2. \A t \in Requests : /\ OfReq(t) \in Places
                          /\ Range(ListOf(OfReq(t))) = {req[t].buf}
  BY PlacesAre, ListsAre, Single DEF Requests
<1>3. ASSUME NEW p \in Places, p # OfReq(s)
      PROVE  req[s].buf \notin Range(ListOf(p))
  BY <1>1, <1>2, <1>3 DEF Apart
<1>4. req[s].buf \in open
  BY <1>1, <1>2 DEF Apart
<1>5. ASSUME NEW t \in Requests \ {s}
      PROVE  req[t].buf # req[s].buf
  <2>1. OfReq(t) # OfReq(s)
    BY DEF OfReq
  <2> QED
    BY <2>1, <1>2, <1>3
<1>6. ASSUME NEW w \in Workers
      PROVE  req[s].buf \notin Range(pool[w]) /\ req[s].buf \notin Range(reqpool[w])
  <2>1. /\ Pool(w) \in Places /\ Pool(w) # OfReq(s)
        /\ ReqPool(w) \in Places /\ ReqPool(w) # OfReq(s)
    BY PlacesAre DEF Pool, ReqPool, OfReq
  <2> QED
    BY <2>1, <1>3, ListsAre
<1> QED
  BY <1>4, <1>5, <1>6 DEF IInv, Shapes

\* Pipes that are obtained are empty; what others hold stays as it is.
LEMMA Obtained ==
    ASSUME IInv, NEW w \in Workers, NEW bs \in Seq(Bufs),
           NEW kept \in SUBSET Bufs, Obtain(w, bs, kept)
    PROVE  /\ open' \subseteq Bufs /\ mem_used' \in Nat /\ MemUsed'
           /\ open' = (open \cup (Range(bs) \ open)) \ {}
           /\ fill' \in [Bufs -> Fills]
           /\ data' \in [Bufs -> SUBSET Files]
           /\ locked' \in [Bufs -> BOOLEAN]
           /\ \A b \in Bufs : fill'[b] = "empty" => data'[b] = {}
           /\ \A b \in Range(bs) \cup kept : data'[b] = {}
           /\ \A b \in Bufs \ (Range(bs) \cup kept) : data'[b] = data[b]
           /\ \A b \in Bufs : /\ locked'[b] => locked[b]
                             /\ fill'[b] \in {fill[b], "empty"}
<1> DEFINE made == Range(bs) \ open
<1>1. Range(bs) \subseteq Bufs
  BY RangeOfSeq
<1>2. /\ open' = open \cup made
      /\ mem_used' = mem_used + Cardinality(made)
      /\ fill' = [b \in Bufs |-> IF b \in Range(bs) \cup kept THEN "empty"
                                 ELSE fill[b]]
      /\ data' = [b \in Bufs |-> IF b \in made THEN {}
                                 ELSE IF b \in Range(bs) \cup kept THEN Flushed(b)
                                 ELSE data[b]]
      /\ locked' = [b \in Bufs |-> b \notin made /\ locked[b]]
  BY DEF Obtain
<1>3. /\ open \subseteq Bufs /\ fill \in [Bufs -> Fills]
      /\ data \in [Bufs -> SUBSET Files] /\ locked \in [Bufs -> BOOLEAN]
      /\ mem_used = Cardinality(open)
      /\ \A b \in Bufs : fill[b] = "empty" => data[b] = {}
  BY DEF IInv, Shapes, MemUsed, Honest
<1>4. \A b \in Bufs : Flushed(b) = {}
  BY <1>3 DEF Flushed
<1>5. /\ mem_used' = Cardinality(open') /\ mem_used' \in Nat
  <2>1. open \in SUBSET Bufs /\ made \in SUBSET Bufs /\ open \cap made = {}
    BY <1>1, <1>3
  <2> HIDE DEF made
  <2>2. IsFiniteSet(open) /\ IsFiniteSet(made)
    BY <2>1, PipeBufAssumption, FS_Subset
  <2>3. Cardinality(open \cup made) =
          Cardinality(open) + Cardinality(made) - Cardinality(open \cap made)
    BY <2>2, FS_Union
  <2>4. Cardinality(open \cap made) = 0
    BY <2>1, FS_EmptySet
  <2>5. Cardinality(open) \in Nat /\ Cardinality(made) \in Nat
    BY <2>2, FS_CardinalityType
  <2>6. Cardinality(open \cup made) = Cardinality(open) + Cardinality(made)
    BY <2>3, <2>4, <2>5
  <2> QED
    BY <1>2, <1>3, <2>5, <2>6
<1> HIDE DEF made
<1>6. fill' \in [Bufs -> Fills] /\ locked' \in [Bufs -> BOOLEAN]
      /\ data' \in [Bufs -> SUBSET Files]
  BY <1>2, <1>3, <1>4 DEF Fills
<1>7. \A b \in Range(bs) \cup kept : data'[b] = {}
  BY <1>1, <1>2, <1>4
<1>8. made \subseteq Range(bs) /\ open' \subseteq Bufs
  BY <1>1, <1>2, <1>3 DEF made
<1>9. \A b \in Bufs \ (Range(bs) \cup kept) :
        data'[b] = data[b] /\ fill'[b] = fill[b]
  BY <1>2, <1>8
<1>10. \A b \in Bufs : fill'[b] = "empty" => data'[b] = {}
  BY <1>3, <1>7, <1>9
<1>11. \A b \in Bufs : /\ locked'[b] => locked[b]
                     /\ fill'[b] \in {fill[b], "empty"}
  BY <1>2
<1> QED
  BY <1>2, <1>5, <1>6, <1>7, <1>8, <1>9, <1>10, <1>11 DEF MemUsed, made

\* No pipe moves.
LEMMA PlacesKept ==
    ASSUME IInv, UNCHANGED <<open, pool, reqpool>>,
           Cached' = Cached, \A f \in Cached : PipesOf(f)' = PipesOf(f),
           Requests' = Requests, \A s \in Requests : req'[s].buf = req[s].buf
    PROVE  PlacedOnce'
<1>1. ASSUME NEW p \in Places
      PROVE  ListOf(p)' = ListOf(p)
  <2>1. CASE \E w \in Workers : p = Pool(w) \/ p = ReqPool(w)
    BY <2>1 DEF ListOf, Pool, ReqPool
  <2>2. CASE \E f \in Files : p = OfFile(f)
    BY <2>2 DEF ListOf, OfFile
  <2>3. CASE \E s \in Socks : p = OfReq(s)
    BY <2>3 DEF ListOf, OfReq
  <2> QED
    BY <2>1, <2>2, <2>3, PlacesAre
<1>2. Apart
  BY PlacedApart DEF IInv
<1>3. Apart'
  BY <1>1, <1>2 DEF Apart, Places
<1> QED
  BY <1>3, PlacedApart, PTL

\* The pipes of a request, and those of a set of files.
InReq(s) == Range(ListOf(OfReq(s)))
InFiles(F) == UNION {Range(ListOf(OfFile(f))) : f \in F}

\* Pipes move between the pools of w, the request of s and the file in F, if
\* there is one.
LEMMA Shuffle ==
    ASSUME IInv, NEW w \in Workers, NEW s \in Socks, NEW F \in SUBSET Files,
           \A f, g \in F : f = g,
           \A v \in Workers \ {w} : pool'[v] = pool[v] /\ reqpool'[v] = reqpool[v],
           \A t \in Socks \ {s} : req'[t] = req[t],
           \A g \in Files \ F : /\ g \in Cached' <=> g \in Cached
                                /\ PipesOf(g)' = PipesOf(g),
           IsInjective(pool'[w]), IsInjective(reqpool'[w]),
           IsInjective(ListOf(OfReq(s))'),
           \A f \in F : IsInjective(ListOf(OfFile(f))'),
           Range(pool'[w]) \cap Range(reqpool'[w]) = {},
           Range(pool'[w]) \cap InReq(s)' = {},
           Range(pool'[w]) \cap InFiles(F)' = {},
           Range(reqpool'[w]) \cap InReq(s)' = {},
           Range(reqpool'[w]) \cap InFiles(F)' = {},
           InReq(s)' \cap InFiles(F)' = {},
           NEW made, made \cap open = {},
           NEW closed,
           closed \cap (Range(pool'[w]) \cup Range(reqpool'[w])
                          \cup InReq(s)' \cup InFiles(F)') = {},
           closed \cup Range(pool'[w]) \cup Range(reqpool'[w])
                  \cup InReq(s)' \cup InFiles(F)' =
             made \cup Range(pool[w]) \cup Range(reqpool[w])
                  \cup InReq(s) \cup InFiles(F),
           open' = (open \cup made) \ closed
    PROVE  PlacedOnce'
<1> DEFINE a == Range(pool'[w])
           b == Range(reqpool'[w])
           c == InReq(s)'
           d == InFiles(F)'
<1> DEFINE A == {Pool(w), ReqPool(w), OfReq(s)} \cup {OfFile(f) : f \in F}
<1>1. A \in SUBSET Places
  BY PlacesAre
<1>2. ASSUME NEW p \in Places \ A
      PROVE  ListOf(p)' = ListOf(p)
  <2>1. ASSUME NEW v \in Workers, p = Pool(v) \/ p = ReqPool(v)
        PROVE  ListOf(p)' = ListOf(p)
    <3>1. v # w
      BY <2>1
    <3> QED
      BY <2>1, <3>1 DEF ListOf, Pool, ReqPool
  <2>2. ASSUME NEW g \in Files, p = OfFile(g)
        PROVE  ListOf(p)' = ListOf(p)
    <3>1. g \notin F
      BY <2>2
    <3> QED
      BY <2>2, <3>1 DEF ListOf, OfFile
  <2>3. ASSUME NEW t \in Socks, p = OfReq(t)
        PROVE  ListOf(p)' = ListOf(p)
    <3>1. req'[t] = req[t] /\ (t \in Requests' <=> t \in Requests)
      BY <2>3 DEF Requests
    <3> QED
      BY <2>3, <3>1 DEF ListOf, OfReq
  <2> QED
    BY <2>1, <2>2, <2>3, PlacesAre
<1>3. /\ ListOf(Pool(w))' = pool'[w] /\ ListOf(ReqPool(w))' = reqpool'[w]
      /\ ListOf(Pool(w)) = pool[w] /\ ListOf(ReqPool(w)) = reqpool[w]
  BY DEF ListOf, Pool, ReqPool
<1>4. \A p \in A : IsInjective(ListOf(p)')
  BY <1>3
<1>5. ASSUME NEW p \in A, NEW q \in A, p # q
      PROVE  Range(ListOf(p)') \cap Range(ListOf(q)') = {}
  <2> DEFINE r(x) == Range(ListOf(x)')
  <2>1. r(Pool(w)) = a /\ r(ReqPool(w)) = b /\ r(OfReq(s)) = c
        /\ \A f \in F : r(OfFile(f)) = d
    BY <1>3 DEF InReq, InFiles
  <2>2. p = Pool(w) \/ p = ReqPool(w) \/ p = OfReq(s) \/ \E f \in F : p = OfFile(f)
    OBVIOUS
  <2>3. q = Pool(w) \/ q = ReqPool(w) \/ q = OfReq(s) \/ \E f \in F : q = OfFile(f)
    OBVIOUS
  <2>4. \A f, g \in F : OfFile(f) = OfFile(g)
    OBVIOUS
  <2>5. a \cap b = {} /\ a \cap c = {} /\ a \cap d = {}
      /\ b \cap c = {} /\ b \cap d = {} /\ c \cap d = {}
    OBVIOUS
  <2> HIDE DEF r, A, a, b, c, d
  <2>6. r(p) \cap r(q) = {}
    BY <1>5, <2>1, <2>2, <2>3, <2>4, <2>5
  <2> QED
    BY <2>6 DEF r
<1>6. UNION {Range(ListOf(p)') : p \in A} = a \cup b \cup c \cup d
  <2>1. UNION {Range(ListOf(p)') : p \in A} =
          Range(ListOf(Pool(w))') \cup Range(ListOf(ReqPool(w))')
            \cup Range(ListOf(OfReq(s))')
            \cup UNION {Range(ListOf(OfFile(f))') : f \in F}
    OBVIOUS
  <2> QED
    BY <1>3, <2>1 DEF InReq, InFiles
<1>7. UNION {Range(ListOf(p)) : p \in A} =
        Range(pool[w]) \cup Range(reqpool[w]) \cup InReq(s) \cup InFiles(F)
  <2>1. UNION {Range(ListOf(p)) : p \in A} =
          Range(ListOf(Pool(w))) \cup Range(ListOf(ReqPool(w)))
            \cup Range(ListOf(OfReq(s)))
            \cup UNION {Range(ListOf(OfFile(f))) : f \in F}
    OBVIOUS
  <2> QED
    BY <1>3, <2>1 DEF InReq, InFiles
<1> HIDE DEF A, a, b, c, d
<1>8. closed \cap UNION {Range(ListOf(p)') : p \in A} = {}
  BY <1>6 DEF a, b, c, d
<1>9. closed \cup UNION {Range(ListOf(p)') : p \in A} =
        made \cup UNION {Range(ListOf(p)) : p \in A}
  BY <1>6, <1>7 DEF a, b, c, d
<1> QED
  BY <1>1, <1>2, <1>4, <1>5, <1>8, <1>9, Redistribute DEF IInv

\* No pipe moves, and none changes what it holds.
LEMMA Quiet ==
    ASSUME IInv, UNCHANGED <<pipes, pool, reqpool, req>>,
           Cached' = Cached, \A f \in Cached : PipesOf(f)' = PipesOf(f)
    PROVE  PlacedOnce' /\ MemUsed' /\ Honest'
<1> USE DEF pipes
<1>1. Requests' = Requests
  BY DEF Requests
<1>2. PlacedOnce'
  BY <1>1, PlacesKept
<1>3. MemUsed' /\ Honest'
  BY <1>1 DEF IInv, MemUsed, Honest, OwnBytes
<1> QED
  BY <1>2, <1>3

\* No pipe moves.
LEMMA Stay ==
    ASSUME IInv, UNCHANGED <<open, mem_used, pool, reqpool, file>>,
           Requests' = Requests, \A s \in Requests : req'[s].buf = req[s].buf,
           \A b \in Bufs : fill'[b] = "empty" => data'[b] = {}, OwnBytes'
    PROVE  PlacedOnce' /\ MemUsed' /\ Honest'
<1>1. Cached' = Cached /\ \A f \in Cached : PipesOf(f)' = PipesOf(f)
  BY DEF Cached, PipesOf
<1>2. PlacedOnce'
  BY <1>1, PlacesKept
<1> QED
  BY <1>2 DEF IInv, MemUsed, Honest

(***************************************************************************)
(* The handlers, until the request ends.                                   *)
(***************************************************************************)

LEMMA Handler ==
    ASSUME IInv, NEW w \in Workers, pc[w] \notin NoSock \cup NoReq
    PROVE  /\ sock[w] \in Requests /\ sock[w] \in Socks /\ WorkerOf[sock[w]] = w
           /\ Req(w) = req[sock[w]] /\ Req(w) \in CacheReq
           /\ Req(w).file \in Cached /\ Req(w).buf \in Bufs /\ Req(w).buf \in open
           /\ File(w) = file[Req(w).file] /\ File(w) \in CacheFile
           /\ File(w).headers \in Range(PipesOf(Req(w).file))
           /\ File(w).headers \in Bufs
           /\ pc[w] \in UsesCurr => /\ Req(w).curr \in 1 .. Len(File(w).cache)
                                    /\ Curr(w) \in Range(PipesOf(Req(w).file))
                                    /\ Curr(w) \in Bufs
<1> DEFINE s == sock[w]
           f == req[s].file
<1>1. s \in Requests /\ WorkerOf[s] = w /\ s \in Socks
  BY DEF IInv, Control, Serves, Requests
<1>2. req[s] \in CacheReq /\ req[s].buf \in open /\ req[s].buf \in Bufs
  BY <1>1, RecordsAre, RequestsHold DEF IInv
<1>3. f \in Cached /\ file[f] \in CacheFile /\ req[s].curr \in 0 .. Len(file[f].cache)
  BY <1>1, RecordsAre DEF IInv, Control, RequestsTrue
<1>4. Range(PipesOf(f)) = {file[f].headers} \cup Range(file[f].cache)
      /\ PipesOf(f) \in Seq(Bufs)
  BY <1>3, PipesAre DEF IInv
<1>5. Range(PipesOf(f)) \subseteq Bufs
  BY <1>4, RangeOfSeq
<1>6. ASSUME pc[w] \in UsesCurr
      PROVE  /\ req[s].curr \in 1 .. Len(file[f].cache)
             /\ file[f].cache[req[s].curr] \in Range(file[f].cache)
  <2>1. req[s].curr # 0
    BY <1>6 DEF IInv, Control, Serves, Req
  <2>2. file[f].cache \in Seq(Bufs)
    BY <1>3 DEF CacheFile
  <2>3. Len(file[f].cache) \in Nat /\ DOMAIN file[f].cache = 1 .. Len(file[f].cache)
    BY <2>2, LenProperties
  <2>4. req[s].curr \in 1 .. Len(file[f].cache)
    BY <1>3, <2>1, <2>3
  <2> QED
    BY <2>3, <2>4 DEF Range
<1> QED
  BY <1>1, <1>2, <1>3, <1>4, <1>5, <1>6 DEF Req, File, Curr

\* What is added to a pipe of a file, or of a request for it, is its bytes.
LEMMA OwnKept ==
    ASSUME IInv, NEW s \in Requests, NEW f, f = req[s].file,
           \A b \in Bufs :
             /\ data'[b] \subseteq data[b] \cup {f}
             /\ b \notin Range(PipesOf(f)) \cup {req[s].buf} => data'[b] \subseteq data[b],
           file' = file, Requests' = Requests,
           \A t \in Requests : req'[t].buf = req[t].buf /\ req'[t].file = req[t].file
    PROVE  OwnBytes'
<1>1. f \in Cached
  BY DEF IInv, Control, RequestsTrue
<1>2. Cached' = Cached /\ \A g \in Cached : PipesOf(g)' = PipesOf(g)
  BY DEF Cached, PipesOf
<1>3. ASSUME NEW g \in Cached, NEW b \in Range(PipesOf(g))
      PROVE  data'[b] \subseteq {g}
  <2>1. b \in Bufs /\ b # req[s].buf /\ (g # f => b \notin Range(PipesOf(f)))
    BY <1>1, FilesHold DEF IInv, Shapes
  <2>2. data[b] \subseteq {g}
    BY DEF IInv, Honest, OwnBytes
  <2> QED
    BY <2>1, <2>2
<1>4. ASSUME NEW t \in Requests
      PROVE  data'[req[t].buf] \subseteq {req[t].file}
  <2>1. /\ req[t].buf \in Bufs /\ req[t].buf \notin Range(PipesOf(f))
        /\ t # s => req[t].buf # req[s].buf
    BY <1>1, FilesHold, RequestsHold
  <2>2. data[req[t].buf] \subseteq {req[t].file}
    BY DEF IInv, Honest, OwnBytes
  <2> QED
    BY <2>1, <2>2
<1> QED
  BY <1>2, <1>3, <1>4 DEF OwnBytes

\* A handler that goes on, with the request it has, until that is over.
Through == {"headers", "fill", "earlysplice", "splice", "tee", "send", "end"}
LEMMA GoesOn ==
    ASSUME Safe, IInv, NEW w \in Workers, pc[w] \notin NoSock \cup NoReq \cup Ended,
           NEW l \in Through, pc' = [pc EXCEPT ![w] = l], UNCHANGED <<sock, arg>>,
           UNCHANGED files, Requests' = Requests,
           \A s \in Socks : s # sock[w] => req'[s] = req[s],
           \A s \in Requests :
             /\ req'[s].file = req[s].file
             /\ req'[s].curr \in 0 .. Len(file[req[s].file].cache),
           l \in UsesCurr => req'[sock[w]].curr # 0
    PROVE  Control' /\ pc' \in [Workers -> Labels]
<1>1. /\ pc'[w] = l /\ \A v \in Workers \ {w} : pc'[v] = pc[v]
      /\ pc' \in [Workers -> Labels]
  BY DEF IInv, Shapes, Labels, Through
<1>2. l \notin NoSock \cup NoReq \cup Ended \cup UsesArg \cup Resetting
  BY DEF Through, NoSock, NoReq, Ended, UsesArg, Resetting
<1>3. sock[w] \in Requests /\ sock[w] \in Socks /\ WorkerOf[sock[w]] = w
  BY Handler
<1>4. StepOf(w)
  BY <1>1, <1>3 DEF StepOf
<1>5. Serves(w)'
  BY <1>1, <1>2, <1>3 DEF Serves, Req
<1>6. Holds(w)'
  BY <1>1, <1>2 DEF Holds, NoReq, UsesArg, Ended
<1>7. Control'
  BY <1>1, <1>2, <1>4, <1>5, <1>6, Moved DEF IInv
<1> QED
  BY <1>1, <1>7

LEMMA FillStep ==
    ASSUME Safe, IInv, NEW w \in Workers, Fill(w)
    PROVE  IInv'
<1>1. pc[w] \in UsesCurr /\ pc[w] \notin NoSock \cup NoReq \cup Ended
  BY DEF Fill, UsesCurr, NoSock, NoReq, Ended
<1>2. PICK l \in Through : pc' = [pc EXCEPT ![w] = l]
  BY DEF Fill, FillReturns, Goto, Through
<1>3. Req(w).curr # 0
  BY <1>1 DEF IInv, Control, Serves
<1>4. UNCHANGED <<pipes, pool, reqpool, files, req, sock, arg>>
  BY DEF Fill
<1>5. /\ Requests' = Requests
      /\ \A s \in Requests : req[s].curr \in 0 .. Len(file[req[s].file].cache)
      /\ Cached' = Cached /\ \A f \in Cached : PipesOf(f)' = PipesOf(f)
  BY <1>4 DEF Requests, Cached, PipesOf, files, IInv, Control, RequestsTrue
<1>6. Control' /\ pc' \in [Workers -> Labels]
  BY <1>1, <1>2, <1>3, <1>4, <1>5, GoesOn DEF Req
<1>7. PlacedOnce' /\ MemUsed' /\ Honest'
  BY <1>4, <1>5, Quiet
<1>8. Shapes'
  BY <1>4, <1>6 DEF IInv, Shapes, pipes, files
<1> QED
  BY <1>6, <1>7, <1>8 DEF IInv

LEMMA VmspliceStep ==
    ASSUME Safe, IInv, NEW w \in Workers, pc[w] \in {"earlysplice", "splice"},
           NEW filled \in Fills, filled = "empty" => fill[Curr(w)] = "empty",
           NEW kept \in BOOLEAN, Vmsplice(w, filled, kept)
    PROVE  IInv'
<1> DEFINE b == Curr(w)
           f == Req(w).file
<1>1. pc[w] \in UsesCurr /\ pc[w] \notin NoSock \cup NoReq \cup Ended
  BY DEF UsesCurr, NoSock, NoReq, Ended
<1>2. /\ sock[w] \in Requests /\ f = req[sock[w]].file /\ f \in Cached /\ f \in Files
      /\ b \in Bufs /\ b \in Range(PipesOf(f)) /\ Req(w).curr # 0
  BY <1>1, Handler DEF Cached
<1>3. /\ fill' = [fill EXCEPT ![b] = filled]
      /\ data' = [data EXCEPT ![b] = IF filled = "empty" THEN @ ELSE @ \cup {f}]
      /\ locked' = [locked EXCEPT ![b] = kept]
      /\ UNCHANGED <<open, mem_used, pool, reqpool, files, req, sock, arg>>
  BY DEF Vmsplice
<1>4. PICK l \in Through : pc' = [pc EXCEPT ![w] = l]
  BY DEF Vmsplice, FillReturns, Goto, Through
<1>5. Requests' = Requests /\ file' = file
      /\ \A s \in Requests : req[s].curr \in 0 .. Len(file[req[s].file].cache)
  BY <1>3 DEF Requests, files, IInv, Control, RequestsTrue
<1>6. Control' /\ pc' \in [Workers -> Labels]
  BY <1>1, <1>2, <1>3, <1>4, <1>5, GoesOn DEF Req
<1> HIDE DEF b, f
<1>7. /\ fill \in [Bufs -> Fills] /\ data \in [Bufs -> SUBSET Files]
      /\ locked \in [Bufs -> BOOLEAN]
      /\ \A x \in Bufs : fill[x] = "empty" => data[x] = {}
  BY DEF IInv, Shapes, Honest
<1>8. /\ fill' \in [Bufs -> Fills] /\ data' \in [Bufs -> SUBSET Files]
      /\ locked' \in [Bufs -> BOOLEAN]
  BY <1>2, <1>3, <1>7
<1>9. \A x \in Bufs : fill'[x] = "empty" => data'[x] = {}
  BY <1>2, <1>3, <1>7 DEF b
<1>10. \A x \in Bufs :
         /\ data'[x] \subseteq data[x] \cup {f}
         /\ x \notin Range(PipesOf(f)) \cup {req[sock[w]].buf} =>
              data'[x] \subseteq data[x]
  BY <1>2, <1>3, <1>7
<1>11. OwnBytes'
  BY <1>2, <1>3, <1>5, <1>10, OwnKept
<1>12. PlacedOnce' /\ MemUsed' /\ Honest'
  BY <1>3, <1>5, <1>9, <1>11, Stay
<1>13. Shapes'
  BY <1>3, <1>6, <1>8 DEF IInv, Shapes, files
<1> QED
  BY <1>6, <1>12, <1>13 DEF IInv

LEMMA SpliceStep ==
    ASSUME Safe, IInv, NEW w \in Workers,
           VmspliceAll(w) \/ VmspliceTwice(w) \/ VmspliceCut(w) \/ VmspliceFails(w)
    PROVE  IInv'
<1>1. pc[w] \in {"earlysplice", "splice"}
  BY DEF VmspliceAll, VmspliceTwice, VmspliceCut, VmspliceFails, Locks
<1>2. pc[w] \in UsesCurr /\ pc[w] \notin NoSock \cup NoReq
  BY <1>1 DEF UsesCurr, NoSock, NoReq
<1>3. fill[Curr(w)] \in Fills /\ File(w).whole \in BOOLEAN
  BY <1>2, Handler DEF IInv, Shapes, CacheFile
<1>4. PICK filled \in Fills, kept \in BOOLEAN :
        /\ filled = "empty" => fill[Curr(w)] = "empty"
        /\ Vmsplice(w, filled, kept)
  <2>1. CASE VmspliceAll(w)
    BY <2>1 DEF VmspliceAll, Fills
  <2>2. CASE VmspliceTwice(w)
    <3>1. PICK kept \in {FALSE, fill[Curr(w)] = "over" \/ ~File(w).whole} :
            Vmsplice(w, "over", kept)
      BY <2>2 DEF VmspliceTwice
    <3>2. kept \in BOOLEAN
      OBVIOUS
    <3> QED
      BY <3>1, <3>2 DEF Fills
  <2>3. CASE VmspliceCut(w)
    BY <2>3 DEF VmspliceCut, Fills
  <2>4. CASE VmspliceFails(w)
    BY <1>3, <2>4 DEF VmspliceFails
  <2> QED
    BY <2>1, <2>2, <2>3, <2>4
<1> QED
  BY <1>1, <1>4, VmspliceStep

LEMMA HeadersStep ==
    ASSUME Safe, IInv, NEW w \in Workers, Headers(w)
    PROVE  IInv'
<1> DEFINE h == File(w).headers
           b == Req(w).buf
           f == Req(w).file
           makes == fill[h] = "empty" /\ ~locked[h]
           fill1 == [fill EXCEPT ![h] = IF makes THEN "full" ELSE @]
           data1 == [data EXCEPT ![h] = IF makes THEN @ \cup {f} ELSE @]
<1>1. pc[w] \notin NoSock \cup NoReq \cup Ended
  BY DEF Headers, NoSock, NoReq, Ended
<1>2. /\ sock[w] \in Requests /\ f = req[sock[w]].file /\ f \in Cached /\ f \in Files
      /\ h \in Bufs /\ h \in Range(PipesOf(f)) /\ b \in Bufs
      /\ b = req[sock[w]].buf
  BY <1>1, Handler DEF Cached
<1>3. /\ \/ fill' = fill1 /\ data' = data1
         \/ /\ fill1[h] # "empty"
            /\ fill' = [fill1 EXCEPT ![b] = "full"]
            /\ data' = [data1 EXCEPT ![b] = @ \cup data1[h]]
      /\ pc' = [pc EXCEPT ![w] = Loop(Req(w))]
      /\ UNCHANGED <<open, mem_used, locked, pool, reqpool, files, req, sock, arg>>
  BY DEF Headers, Goto
<1>4. Requests' = Requests /\ file' = file
      /\ \A s \in Requests : req[s].curr \in 0 .. Len(file[req[s].file].cache)
  BY <1>3 DEF Requests, files, IInv, Control, RequestsTrue
<1>5. Control' /\ pc' \in [Workers -> Labels]
  <2>1. Loop(Req(w)) \in Through /\ (Loop(Req(w)) \in UsesCurr => Req(w).curr # 0)
    BY DEF Loop, Through, UsesCurr
  <2>2. Loop(Req(w)) \in UsesCurr => req'[sock[w]].curr # 0
    BY <1>3, <2>1 DEF Req
  <2> QED
    BY <1>1, <1>3, <1>4, <2>1, <2>2, GoesOn
<1>6. /\ fill \in [Bufs -> Fills] /\ data \in [Bufs -> SUBSET Files]
      /\ locked \in [Bufs -> BOOLEAN]
      /\ \A x \in Bufs : fill[x] = "empty" => data[x] = {}
  BY DEF IInv, Shapes, Honest
<1>7. data[h] \subseteq {f}
  BY <1>2 DEF IInv, Honest, OwnBytes
<1> HIDE DEF h, b, f
<1>8. /\ fill1 \in [Bufs -> Fills] /\ data1 \in [Bufs -> SUBSET Files]
      /\ data1[h] \subseteq {f}
      /\ \A x \in Bufs : fill1[x] = "empty" => data1[x] = {}
      /\ \A x \in Bufs \ {h} : data1[x] = data[x]
      /\ data1[h] \subseteq data[h] \cup {f}
  BY <1>2, <1>6, <1>7 DEF Fills
<1> HIDE DEF fill1, data1
<1>9. /\ fill' \in [Bufs -> Fills] /\ data' \in [Bufs -> SUBSET Files]
      /\ \A x \in Bufs : fill'[x] = "empty" => data'[x] = {}
  BY <1>2, <1>3, <1>8 DEF Fills
<1>10. \A x \in Bufs :
         /\ data'[x] \subseteq data[x] \cup {f}
         /\ x \notin Range(PipesOf(f)) \cup {req[sock[w]].buf} =>
              data'[x] \subseteq data[x]
  BY <1>2, <1>3, <1>8
<1>11. OwnBytes'
  BY <1>2, <1>3, <1>4, <1>10, OwnKept
<1>12. PlacedOnce' /\ MemUsed' /\ Honest'
  BY <1>3, <1>4, <1>9, <1>11, Stay
<1>13. Shapes'
  BY <1>3, <1>5, <1>6, <1>9 DEF IInv, Shapes, files
<1> QED
  BY <1>5, <1>12, <1>13 DEF IInv

LEMMA TeeStep ==
    ASSUME Safe, IInv, NEW w \in Workers, TeeCurr(w)
    PROVE  IInv'
<1> DEFINE b == Req(w).buf
           f == Req(w).file
           s == sock[w]
           n == IF Req(w).curr < Len(File(w).cache) THEN Req(w).curr + 1 ELSE 0
<1>1. pc[w] \in UsesCurr /\ pc[w] \notin NoSock \cup NoReq \cup Ended
  BY DEF TeeCurr, UsesCurr, NoSock, NoReq, Ended
<1>2. /\ s \in Requests /\ s \in Socks /\ WorkerOf[s] = w /\ f = req[s].file
      /\ f \in Cached /\ f \in Files /\ b \in Bufs /\ b = req[s].buf
      /\ Curr(w) \in Bufs /\ Curr(w) \in Range(PipesOf(f))
      /\ Req(w) = req[s] /\ Req(w) \in CacheReq
      /\ File(w) = file[f] /\ Req(w).curr \in 1 .. Len(File(w).cache)
  BY <1>1, Handler DEF Cached
<1>3. /\ fill' = [fill EXCEPT ![b] = "full"]
      /\ data' = [data EXCEPT ![b] = @ \cup data[Curr(w)]]
      /\ req' = [req EXCEPT ![s].curr = IF @ < Len(File(w).cache) THEN @ + 1 ELSE 0]
      /\ pc' = [pc EXCEPT ![w] = "send"]
      /\ UNCHANGED <<open, mem_used, locked, pool, reqpool, files, sock, arg>>
  BY DEF TeeCurr, Goto
<1>4. /\ fill \in [Bufs -> Fills] /\ data \in [Bufs -> SUBSET Files]
      /\ locked \in [Bufs -> BOOLEAN] /\ req \in [Socks -> CacheReq \cup {NULL}]
      /\ \A x \in Bufs : fill[x] = "empty" => data[x] = {}
  BY DEF IInv, Shapes, Honest
<1>5. data[Curr(w)] \subseteq {f}
  BY <1>2 DEF IInv, Honest, OwnBytes
<1>6. n \in 0 .. Len(file[f].cache) /\ n \in Nat
  BY <1>2, SMTT(30)
<1>7. /\ req'[s] \in CacheReq /\ req'[s] # NULL
      /\ req'[s].file = f /\ req'[s].buf = b /\ req'[s].curr = n
      /\ \A t \in Socks \ {s} : req'[t] = req[t]
      /\ req' \in [Socks -> CacheReq \cup {NULL}]
  <2>1. req' = [req EXCEPT ![s] = [req[s] EXCEPT !.curr = n]]
    BY <1>2, <1>3, Zenon
  <2> HIDE DEF n
  <2>2. [req[s] EXCEPT !.curr = n] \in CacheReq
    BY <1>2, <1>6 DEF CacheReq
  <2>3. /\ [req[s] EXCEPT !.curr = n].file = f
        /\ [req[s] EXCEPT !.curr = n].buf = b
        /\ [req[s] EXCEPT !.curr = n].curr = n
    BY <1>2 DEF CacheReq
  <2> DEFINE r == [req[s] EXCEPT !.curr = n]
  <2>4. r \in CacheReq /\ r.file = f /\ r.buf = b /\ r.curr = n
        /\ req' = [req EXCEPT ![s] = r]
    BY <2>1, <2>2, <2>3
  <2> HIDE DEF r
  <2> QED
    BY <1>2, <1>4, <2>4, RecordsAre DEF IInv
<1> HIDE DEF b, f, n
<1>8. Requests' = Requests /\ file' = file
  BY <1>2, <1>3, <1>7 DEF Requests, files
<1>9. \A t \in Requests :
         /\ req'[t].buf = req[t].buf /\ req'[t].file = req[t].file
         /\ req'[t].curr \in 0 .. Len(file[req[t].file].cache)
  <2> TAKE t \in Requests
  <2>1. CASE t = s
    BY <1>2, <1>6, <1>7, <2>1
  <2>2. CASE t # s
    BY <1>7, <2>2 DEF Requests, IInv, Control, RequestsTrue
  <2> QED
    BY <2>1, <2>2
<1>10. Control' /\ pc' \in [Workers -> Labels]
  <2>1. "send" \in Through /\ "send" \notin UsesCurr
    BY DEF Through, UsesCurr
  <2> QED
    BY <1>1, <1>3, <1>7, <1>8, <1>9, <2>1, GoesOn
<1> HIDE DEF s
<1>11. /\ fill' \in [Bufs -> Fills] /\ data' \in [Bufs -> SUBSET Files]
       /\ \A x \in Bufs : fill'[x] = "empty" => data'[x] = {}
  BY <1>2, <1>3, <1>4 DEF Fills
<1>12. \A x \in Bufs :
         /\ data'[x] \subseteq data[x] \cup {f}
         /\ x \notin Range(PipesOf(f)) \cup {req[s].buf} => data'[x] \subseteq data[x]
  BY <1>2, <1>3, <1>4, <1>5
<1>13. OwnBytes'
  BY <1>2, <1>8, <1>9, <1>12, OwnKept
<1>14. PlacedOnce' /\ MemUsed' /\ Honest'
  BY <1>3, <1>8, <1>9, <1>11, <1>13, Stay
<1>15. Shapes'
  BY <1>3, <1>4, <1>7, <1>10, <1>11 DEF IInv, Shapes, files
<1> QED
  BY <1>10, <1>14, <1>15 DEF IInv

LEMMA SendStep ==
    ASSUME Safe, IInv, NEW w \in Workers, SendAll(w)
    PROVE  IInv'
<1> DEFINE b == Req(w).buf
           f == Req(w).file
<1>1. pc[w] \notin NoSock \cup NoReq \cup Ended
  BY DEF SendAll, NoSock, NoReq, Ended
<1>2. /\ sock[w] \in Requests /\ f = req[sock[w]].file /\ b \in Bufs
  BY <1>1, Handler
<1>3. /\ fill' = [fill EXCEPT ![b] = "empty"]
      /\ data' = [data EXCEPT ![b] = {}]
      /\ UNCHANGED <<open, mem_used, locked, pool, reqpool, files, req, sock, arg>>
  BY DEF SendAll
<1>4. Requests' = Requests /\ file' = file
      /\ \A s \in Requests : req[s].curr \in 0 .. Len(file[req[s].file].cache)
  BY <1>3 DEF Requests, files, IInv, Control, RequestsTrue
<1>5. Control' /\ pc' \in [Workers -> Labels]
  <2>1. PICK l \in {"end", "fill"} : /\ pc' = [pc EXCEPT ![w] = l]
                                     /\ l = "fill" => Req(w).curr # 0
    BY DEF SendAll, Goto
  <2>2. l \in Through /\ (l \in UsesCurr => req'[sock[w]].curr # 0)
    BY <1>3, <2>1 DEF Through, UsesCurr, Req
  <2> QED
    BY <1>1, <1>3, <1>4, <2>1, <2>2, GoesOn
<1>6. /\ fill \in [Bufs -> Fills] /\ data \in [Bufs -> SUBSET Files]
      /\ \A x \in Bufs : fill[x] = "empty" => data[x] = {}
  BY DEF IInv, Shapes, Honest
<1> HIDE DEF b, f
<1>7. /\ fill' \in [Bufs -> Fills] /\ data' \in [Bufs -> SUBSET Files]
      /\ \A x \in Bufs : fill'[x] = "empty" => data'[x] = {}
      /\ \A x \in Bufs : data'[x] \subseteq data[x]
  BY <1>2, <1>3, <1>6 DEF Fills
<1>8. OwnBytes'
  BY <1>2, <1>3, <1>4, <1>7, OwnKept
<1>9. PlacedOnce' /\ MemUsed' /\ Honest'
  BY <1>3, <1>4, <1>7, <1>8, Stay
<1>10. Shapes'
  BY <1>3, <1>5, <1>7 DEF IInv, Shapes, files
<1> QED
  BY <1>5, <1>9, <1>10 DEF IInv

(***************************************************************************)
(* Steps that only move a worker.                                          *)
(***************************************************************************)

LEMMA Turns ==
    ASSUME Safe, IInv, NEW w \in Workers,
           UNCHANGED <<pipes, pool, reqpool, files, req>>,
           NEW l \in Labels, NEW s \in Socks \cup {NULL},
           NEW x \in Uris \cup Files \cup {NULL},
           pc' = [pc EXCEPT ![w] = l], sock' = [sock EXCEPT ![w] = s],
           arg' = [arg EXCEPT ![w] = x],
           pc[w] \in Ended <=> l \in Ended, pc[w] \in Ended => s = sock[w],
           Serves(w)', Holds(w)'
    PROVE  IInv'
<1>1. /\ pc'[w] = l /\ sock'[w] = s /\ arg'[w] = x /\ StepOf(w)
      /\ pc' \in [Workers -> Labels] /\ sock' \in [Workers -> Socks \cup {NULL}]
      /\ arg' \in [Workers -> Uris \cup Files \cup {NULL}]
  BY DEF IInv, Shapes, StepOf
<1>2. /\ Requests' = Requests
      /\ Cached' = Cached /\ \A f \in Cached : PipesOf(f)' = PipesOf(f)
      /\ \A t \in Requests : req[t].curr \in 0 .. Len(file[req[t].file].cache)
  BY DEF Requests, Cached, PipesOf, files, IInv, Control, RequestsTrue
<1>3. Control'
  BY <1>1, <1>2, Moved DEF IInv
<1>4. PlacedOnce' /\ MemUsed' /\ Honest'
  BY <1>2, Quiet
<1>5. Shapes'
  BY <1>1 DEF IInv, Shapes, pipes, files
<1> QED
  BY <1>3, <1>4, <1>5 DEF IInv

\* A worker that waits for events again.
LEMMA BackStep ==
    ASSUME Safe, IInv, NEW w \in Workers,
           UNCHANGED <<pipes, pool, reqpool, files, req>>, Return(w),
           pc[w] \notin Ended
    PROVE  IInv'
<1>1. /\ pc' = [pc EXCEPT ![w] = "idle"] /\ sock' = [sock EXCEPT ![w] = NULL]
      /\ arg' = [arg EXCEPT ![w] = NULL]
  BY DEF Return, Goto, Hold
<1>2. "idle" \in Labels /\ "idle" \notin Ended
  BY DEF Labels, Ended
<1>3. pc'[w] = "idle"
  BY <1>1 DEF IInv, Shapes
<1>4. Serves(w)' /\ Holds(w)'
  BY <1>3 DEF Serves, Holds, NoSock, NoReq, UsesCurr, UsesArg, Resetting
<1> QED
  BY <1>1, <1>2, <1>4, Turns

LEMMA WaitStep ==
    ASSUME Safe, IInv, NEW w \in Workers,
           MakeFails(w) \/ SendWaits(w) \/ SendFails(w)
    PROVE  IInv'
<1>1. CASE MakeFails(w) \/ SendWaits(w)
  BY <1>1, BackStep DEF MakeFails, SendWaits, Ended
<1>2. CASE SendFails(w)
  <2>1. /\ pc[w] \notin NoSock \cup NoReq \cup Ended
        /\ pc' = [pc EXCEPT ![w] = "end"] /\ UNCHANGED <<sock, arg>>
        /\ UNCHANGED <<pipes, pool, reqpool, files, req>>
    BY <1>2 DEF SendFails, Goto, NoSock, NoReq, Ended
  <2>2. sock[w] \in Requests /\ sock[w] \in Socks /\ WorkerOf[sock[w]] = w
    BY <2>1, Handler
  <2>3. "end" \in Labels /\ "end" \notin Ended
    BY DEF Labels, Ended
  <2>4. pc'[w] = "end" /\ sock' = [sock EXCEPT ![w] = sock[w]]
        /\ arg' = [arg EXCEPT ![w] = arg[w]]
        /\ arg[w] \in Uris \cup Files \cup {NULL}
    BY <2>1 DEF IInv, Shapes
  <2>5. Serves(w)' /\ Holds(w)'
    BY <2>1, <2>2, <2>4
       DEF Serves, Holds, NoSock, NoReq, UsesCurr, UsesArg, Resetting, Requests
  <2> QED
    BY <2>1, <2>2, <2>3, <2>4, <2>5, Turns
<1> QED
  BY <1>1, <1>2

LEMMA EventStep ==
    ASSUME Safe, IInv, NEW w \in Workers, NEW s \in Socks,
           EventWrite(w, s) \/ EventDrop(w, s)
    PROVE  IInv'
<1>1. /\ UNCHANGED <<pipes, pool, reqpool, files, req, arg>>
      /\ WorkerOf[s] = w /\ s \in Requests /\ pc[w] = "idle"
  BY DEF EventWrite, EventDrop, Enter, Requests
<1>2. PICK l \in {"fill", "send", "end"} :
        /\ l = "fill" => req[s].curr # 0
        /\ pc' = [pc EXCEPT ![w] = l]
        /\ sock' = [sock EXCEPT ![w] = s]
  BY DEF EventWrite, EventDrop, Enter, Goto, Loop
<1>3. pc'[w] = l /\ sock'[w] = s /\ arg' = [arg EXCEPT ![w] = arg[w]]
      /\ arg[w] \in Uris \cup Files \cup {NULL}
  BY <1>1, <1>2 DEF IInv, Shapes
<1>4. Requests' = Requests
  BY <1>1 DEF Requests
<1>5. Serves(w)'
  BY <1>1, <1>2, <1>3, <1>4 DEF Serves, NoSock, NoReq, UsesCurr, Req
<1>6. Holds(w)'
  BY <1>2, <1>3 DEF Holds, UsesArg, Resetting
<1>7. l \in Labels /\ l \notin Ended /\ pc[w] \notin Ended
  BY <1>1 DEF Labels, Ended
<1> QED
  BY <1>1, <1>2, <1>3, <1>5, <1>6, <1>7, Turns

LEMMA LookupStep ==
    ASSUME Safe, IInv, NEW w \in Workers, NEW s \in Socks, NEW u \in Uris,
           Lookup(w, s, u)
    PROVE  IInv'
<1> DEFINE l == IF table[u] = NULL THEN "make" ELSE "count"
           x == IF table[u] = NULL THEN u ELSE table[u]
<1>1. /\ UNCHANGED <<pipes, pool, reqpool, files, req>>
      /\ WorkerOf[s] = w /\ s \notin Requests /\ pc[w] = "idle"
      /\ pc' = [pc EXCEPT ![w] = l] /\ sock' = [sock EXCEPT ![w] = s]
      /\ arg' = [arg EXCEPT ![w] = x]
  BY DEF Lookup, Enter, Goto, Hold, Requests
<1>2. l \in {"make", "count"} /\ x \in Uris \cup Files \cup {NULL}
      /\ (l = "make" => x \in Uris) /\ (l = "count" => x \in Cached)
  BY DEF IInv, Shapes, Control, TableTrue
<1> HIDE DEF l, x
<1>3. pc'[w] = l /\ sock'[w] = s /\ arg'[w] = x
      /\ Requests' = Requests /\ Cached' = Cached
  BY <1>1 DEF IInv, Shapes, Requests, Cached, files
<1>4. Serves(w)'
  BY <1>1, <1>2, <1>3 DEF Serves, NoSock, NoReq, UsesCurr
<1>5. Holds(w)'
  BY <1>2, <1>3 DEF Holds, UsesArg, Resetting
<1>6. l \in Labels /\ l \notin Ended /\ pc[w] \notin Ended
  BY <1>1, <1>2 DEF Labels, Ended
<1> QED
  BY <1>1, <1>2, <1>4, <1>5, <1>6, Turns

LEMMA EndTestStep ==
    ASSUME Safe, IInv, NEW w \in Workers, EndTest(w)
    PROVE  IInv'
<1> DEFINE f == Req(w).file
           l == IF file[f].zombie /\ file[f].pending = 0 THEN "free" ELSE "release"
<1>1. /\ UNCHANGED <<pipes, pool, reqpool, files, req, sock, arg>>
      /\ pc[w] = "ended" /\ pc' = [pc EXCEPT ![w] = l]
  BY DEF EndTest, Goto
<1>2. /\ sock[w] \in Requests /\ sock[w] \in Socks /\ WorkerOf[sock[w]] = w
      /\ f \in Cached /\ f \in Files /\ File(w) = file[f]
  BY <1>1, Handler DEF NoSock, NoReq, Cached
<1>3. l = "free" => file[f].zombie /\ LiveOf(f) = {}
  BY <1>2, LiveFinite DEF IInv, Control, Counted
<1>4. l \in {"free", "release"}
  OBVIOUS
<1> HIDE DEF l
<1>5. /\ pc'[w] = l /\ sock' = [sock EXCEPT ![w] = sock[w]]
      /\ arg' = [arg EXCEPT ![w] = arg[w]]
      /\ arg[w] \in Uris \cup Files \cup {NULL}
  BY <1>1 DEF IInv, Shapes
<1>6. Requests' = Requests /\ Req(w)' = Req(w) /\ File(w)' = File(w)
  BY <1>1 DEF Requests, Req, File, files
<1>7. \A g \in Files : LiveOf(g)' = LiveOf(g)
  <2>1. StepOf(w) /\ pc'[w] \in Ended /\ pc[w] \in Ended
    BY <1>1, <1>4, <1>5 DEF StepOf, Ended, IInv, Shapes
  <2>2. \A s \in Requests : req'[s].file = req[s].file
    BY <1>1
  <2>3. \A s \in Socks : Over(s)' <=> Over(s)
    BY <1>1, <2>1, OverKept
  <2> QED
    BY <1>6, <2>2, <2>3, LiveKept
<1>8. Serves(w)'
  BY <1>1, <1>2, <1>4, <1>5, <1>6 DEF Serves, NoSock, NoReq, UsesCurr
<1>9. Holds(w)'
  BY <1>2, <1>3, <1>4, <1>5, <1>6, <1>7 DEF Holds, UsesArg, Resetting
<1>10. l \in Labels /\ l \in Ended /\ pc[w] \in Ended
  BY <1>1, <1>4 DEF Labels, Ended
<1> QED
  BY <1>1, <1>2, <1>5, <1>8, <1>9, <1>10, Turns

LEMMA ResetTestStep ==
    ASSUME Safe, IInv, NEW w \in Workers, ResetTest(w)
    PROVE  IInv'
<1>1. /\ UNCHANGED <<pipes, pool, reqpool, files, req>> /\ pc[w] = "check"
  BY DEF ResetTest
<1>2. CASE file[arg[w]].pending # 0
  BY <1>1, <1>2, BackStep DEF ResetTest, Ended
<1>3. CASE file[arg[w]].pending = 0
  <2>1. pc' = [pc EXCEPT ![w] = "drop"] /\ UNCHANGED <<sock, arg>>
    BY <1>3 DEF ResetTest, Goto
  <2>2. /\ arg[w] \in Cached /\ arg[w] \in Files /\ Resets
        /\ \A u \in Uris : table[u] # arg[w]
    BY <1>1 DEF IInv, Control, Holds, UsesArg, Resetting, Cached
  <2>3. LiveOf(arg[w]) = {}
    BY <1>3, <2>2, LiveFinite DEF IInv, Control, Counted
  <2>4. /\ pc'[w] = "drop" /\ sock' = [sock EXCEPT ![w] = sock[w]]
        /\ arg' = [arg EXCEPT ![w] = arg[w]] /\ arg'[w] = arg[w]
        /\ arg[w] \in Uris \cup Files \cup {NULL} /\ sock[w] \in Socks \cup {NULL}
    BY <2>1 DEF IInv, Shapes
  <2>5. PICK f \in Files : f = arg[w]
    BY <2>2
  <2>6. LiveOf(f)' = LiveOf(f)
    <3>1. StepOf(w) /\ pc'[w] \notin Ended /\ pc[w] \notin Ended
      BY <1>1, <2>1, <2>4 DEF StepOf, Ended, IInv, Shapes
    <3>2. Requests' = Requests /\ \A s \in Requests : req'[s].file = req[s].file
      BY <1>1 DEF Requests
    <3>3. \A s \in Socks : Over(s)' <=> Over(s)
      BY <3>1, OverKept
    <3> QED
      BY <3>2, <3>3, LiveKept
  <2>7. LiveOf(arg[w])' = {}
    BY <2>3, <2>4, <2>5, <2>6
  <2>8. table' = table /\ Cached' = Cached
    BY <1>1 DEF files, Cached
  <2>9. Holds(w)'
    BY <2>2, <2>4, <2>7, <2>8 DEF Holds, UsesArg
  <2>10. Serves(w)'
    BY <2>4 DEF Serves, NoSock, NoReq, UsesCurr
  <2>11. "drop" \in Labels /\ "drop" \notin Ended /\ pc[w] \notin Ended
    BY <1>1 DEF Labels, Ended
  <2> QED
    BY <1>1, <2>1, <2>4, <2>9, <2>10, <2>11, Turns
<1> QED
  BY <1>2, <1>3

(***************************************************************************)
(* Files change, but keep their pipes.                                     *)
(***************************************************************************)

LEMMA Touched ==
    ASSUME IInv, NEW f \in Cached, NEW r \in CacheFile,
           file' = [file EXCEPT ![f] = r],
           r.headers = file[f].headers, r.cache = file[f].cache,
           UNCHANGED <<pipes, pool, reqpool, req>>
    PROVE  /\ file'[f] = r /\ \A g \in Files \ {f} : file'[g] = file[g]
           /\ file' \in [Files -> CacheFile \cup {NULL}]
           /\ Cached' = Cached /\ Requests' = Requests
           /\ RequestsTrue'
           /\ \A g \in Cached : g \in Files /\ file'[g].cache = file[g].cache
           /\ PlacedOnce' /\ MemUsed' /\ Honest'
<1>1. f \in Files /\ r # NULL /\ file \in [Files -> CacheFile \cup {NULL}]
  BY RecordsAre DEF IInv, Shapes
<1>2. /\ file'[f] = r /\ \A g \in Files \ {f} : file'[g] = file[g]
      /\ file' \in [Files -> CacheFile \cup {NULL}]
  BY <1>1
<1>3. Cached' = Cached /\ \A g \in Cached : PipesOf(g)' = PipesOf(g)
  BY <1>1, <1>2 DEF Cached, PipesOf
<1>4. Requests' = Requests
  BY DEF Requests
<1>5. \A g \in Cached : g \in Files /\ file'[g].cache = file[g].cache
  BY <1>2 DEF Cached
<1>6. RequestsTrue'
  BY <1>3, <1>4, <1>5 DEF IInv, Control, RequestsTrue
<1>7. PlacedOnce' /\ MemUsed' /\ Honest'
  BY <1>3, Quiet
<1> QED
  BY <1>2, <1>3, <1>4, <1>5, <1>6, <1>7

LEMMA ShrinkStep ==
    ASSUME IInv, NEW f \in Files, Shrink(f)
    PROVE  IInv'
<1>1. /\ f \in Cached /\ file' = [file EXCEPT ![f].whole = FALSE]
      /\ UNCHANGED <<pipes, pool, reqpool, table, req, at>>
      /\ file[f] \in CacheFile
  BY RecordsAre DEF Shrink, Cached, IInv
<1> DEFINE r == [file[f] EXCEPT !.whole = FALSE]
<1>2. /\ r \in CacheFile /\ r.headers = file[f].headers /\ r.cache = file[f].cache
      /\ r.zombie = file[f].zombie /\ r.pending = file[f].pending
  BY <1>1 DEF CacheFile
<1>3. file' = [file EXCEPT ![f] = r]
  BY <1>1, Zenon
<1> HIDE DEF r
<1>4. /\ file'[f] = r /\ \A g \in Files \ {f} : file'[g] = file[g]
      /\ file' \in [Files -> CacheFile \cup {NULL}]
      /\ Cached' = Cached /\ Requests' = Requests
      /\ RequestsTrue'
      /\ \A g \in Cached : g \in Files /\ file'[g].cache = file[g].cache
      /\ PlacedOnce' /\ MemUsed' /\ Honest'
  BY <1>1, <1>2, <1>3, Touched
<1>5. \A g \in Cached : /\ file'[g].zombie = file[g].zombie
                        /\ file'[g].pending = file[g].pending
  BY <1>2, <1>4
<1>6. \A g : LiveOf(g)' = LiveOf(g)
  BY <1>1, <1>4 DEF LiveOf, Over, at
<1>7. TableTrue' /\ Counted'
  BY <1>1, <1>4, <1>5, <1>6 DEF IInv, Control, TableTrue, Counted
<1>8. ASSUME NEW w \in Workers
      PROVE  Serves(w)' /\ Holds(w)'
  <2>1. Serves(w) /\ Holds(w)
    BY DEF IInv, Control
  <2>2. Serves(w)'
    BY <1>1, <1>4, <2>1 DEF Serves, Req, at
  <2>3. pc[w] = "free" => File(w)'.zombie = File(w).zombie
    <3>1. pc[w] = "free" => Req(w).file \in Cached
      BY <2>1 DEF Serves, NoSock, NoReq, Req, IInv, Control, RequestsTrue
    <3> QED
      BY <1>1, <1>5, <3>1 DEF File, Req, at
  <2>4. Holds(w)'
    BY <1>1, <1>4, <1>6, <2>1, <2>3 DEF Holds, Req, at
  <2> QED
    BY <2>2, <2>4
<1>9. Control'
  BY <1>4, <1>7, <1>8 DEF Control
<1>10. Shapes'
  BY <1>1, <1>4 DEF IInv, Shapes, pipes, at
<1> QED
  BY <1>4, <1>9, <1>10 DEF IInv

LEMMA EndReqStep ==
    ASSUME Safe, IInv, NEW w \in Workers, EndReq(w)
    PROVE  IInv'
<1>1. pc[w] = "end"
  BY DEF EndReq
<1>2. /\ sock[w] \in Requests /\ WorkerOf[sock[w]] = w
      /\ Req(w) = req[sock[w]] /\ Req(w).file \in Cached
  BY <1>1, Handler DEF NoSock, NoReq
<1>3. PICK s \in Socks, f \in Files : s = sock[w] /\ f = req[s].file
  BY <1>2 DEF Requests, Cached
<1>4. /\ s \in Requests /\ f \in Cached /\ file[f] \in CacheFile
      /\ file' = [file EXCEPT ![f].pending = @ - 1]
      /\ pc' = [pc EXCEPT ![w] = "ended"]
      /\ UNCHANGED <<pipes, pool, reqpool, table, req, sock, arg>>
  BY <1>2, <1>3, RecordsAre DEF EndReq, Goto, IInv
<1>5. /\ pc'[w] = "ended" /\ StepOf(w) /\ pc' \in [Workers -> Labels]
  BY <1>4 DEF IInv, Shapes, StepOf, Labels
<1>6. \A t \in Socks : Over(t)' <=> Over(t) \/ t = s
  <2> TAKE t \in Socks
  <2>1. WorkerOf[t] \in Workers
    BY PipeBufAssumption
  <2>2. CASE WorkerOf[t] = w
    BY <1>1, <1>3, <1>4, <1>5, <2>2 DEF Over, Ended
  <2>3. CASE WorkerOf[t] # w
    BY <1>2, <1>3, <1>5, <2>1, <2>3 DEF Over, StepOf
  <2> QED
    BY <2>2, <2>3
<1>7. ~Over(s)
  BY <1>1, <1>2, <1>3 DEF Over, Ended
<1>8. /\ LiveOf(f)' = LiveOf(f) \ {s} /\ s \in LiveOf(f)
      /\ \A g \in Files \ {f} : LiveOf(g)' = LiveOf(g)
  <2>1. Requests' = Requests /\ Requests \subseteq Socks
    BY <1>4 DEF Requests
  <2> QED
    BY <1>3, <1>4, <1>6, <1>7, <2>1 DEF LiveOf
<1>9. /\ Cardinality(LiveOf(f)) \in Nat \ {0}
      /\ Cardinality(LiveOf(f)') = Cardinality(LiveOf(f)) - 1
  <2>1. IsFiniteSet(LiveOf(f)) /\ Cardinality(LiveOf(f)) \in Nat
        /\ Cardinality(LiveOf(f)) # 0
    BY <1>8, LiveFinite
  <2> QED
    BY <1>8, <2>1, FS_RemoveElement
<1>10. file[f].pending = Cardinality(LiveOf(f))
  BY <1>4 DEF IInv, Control, Counted
<1> DEFINE n == file[f].pending - 1
           r == [file[f] EXCEPT !.pending = n]
<1>11. file' = [file EXCEPT ![f] = r]
  BY <1>4, Zenon
<1>12. n \in Nat /\ n = Cardinality(LiveOf(f)')
  BY <1>9, <1>10
<1> HIDE DEF n
<1>13. /\ r \in CacheFile /\ r.headers = file[f].headers /\ r.cache = file[f].cache
       /\ r.zombie = file[f].zombie /\ r.pending = n
  BY <1>4, <1>12 DEF CacheFile
<1> HIDE DEF r
<1>14. /\ file'[f] = r /\ \A g \in Files \ {f} : file'[g] = file[g]
       /\ file' \in [Files -> CacheFile \cup {NULL}]
       /\ Cached' = Cached /\ Requests' = Requests
       /\ RequestsTrue'
       /\ \A g \in Cached : g \in Files /\ file'[g].cache = file[g].cache
       /\ PlacedOnce' /\ MemUsed' /\ Honest'
  BY <1>4, <1>11, <1>13, Touched
<1>15. \A g \in Cached : /\ file'[g].zombie = file[g].zombie
                         /\ file'[g].pending = Cardinality(LiveOf(g)')
  <2>1. \A g \in Cached : file[g].pending = Cardinality(LiveOf(g))
    BY DEF IInv, Control, Counted
  <2> TAKE g \in Cached
  <2>2. CASE g = f
    BY <1>12, <1>13, <1>14, <2>2
  <2>3. CASE g # f
    <3>1. g \in Files /\ LiveOf(g)' = LiveOf(g) /\ file'[g] = file[g]
      BY <1>8, <1>14, <2>3
    <3> QED
      BY <2>1, <3>1
  <2> QED
    BY <2>2, <2>3
<1>16. TableTrue' /\ Counted'
  BY <1>4, <1>14, <1>15 DEF IInv, Control, TableTrue, Counted
<1>17. Serves(w)' /\ Holds(w)'
  BY <1>2, <1>3, <1>4, <1>5, <1>14
     DEF Serves, Holds, NoSock, NoReq, UsesCurr, UsesArg, Resetting
<1>18. Control'
  <2>1. \A v \in Workers : Serves(v)' /\ Holds(v)'
    BY <1>5, <1>14, <1>17, OthersServe, OthersHold DEF IInv
  <2> QED
    BY <1>14, <1>16, <2>1 DEF Control
<1>19. Shapes'
  BY <1>4, <1>5, <1>14 DEF IInv, Shapes, pipes
<1> QED
  BY <1>14, <1>18, <1>19 DEF IInv

LEMMA ResetStep ==
    ASSUME Safe, IInv, NEW w \in Workers, NEW u \in Uris, Reset(w, u)
    PROVE  IInv'
<1>1. /\ Resets /\ pc[w] = "idle" /\ table[u] \in Cached /\ table[u] \in Files
      /\ table' = [table EXCEPT ![u] = NULL]
      /\ arg' = [arg EXCEPT ![w] = table[u]]
      /\ pc' = [pc EXCEPT ![w] = "mark"]
      /\ UNCHANGED <<pipes, pool, reqpool, file, req, sock>>
  BY DEF Reset, Hold, Goto, IInv, Control, TableTrue, Cached
<1>2. /\ Cached' = Cached /\ Requests' = Requests
      /\ \A g \in Cached : g \in Files /\ PipesOf(g)' = PipesOf(g)
  BY <1>1 DEF Cached, Requests, PipesOf
<1>3. /\ pc'[w] = "mark" /\ arg'[w] = table[u] /\ StepOf(w)
      /\ pc' \in [Workers -> Labels]
      /\ arg' \in [Workers -> Uris \cup Files \cup {NULL}]
  BY <1>1 DEF IInv, Shapes, StepOf, Labels
<1>4. \A g \in Files : LiveOf(g)' = LiveOf(g)
  <2>1. pc[w] \notin Ended /\ pc'[w] \notin Ended
    BY <1>1, <1>3 DEF Ended
  <2>2. \A s \in Socks : Over(s)' <=> Over(s)
    BY <1>3, <2>1, OverKept
  <2>3. \A s \in Requests : req'[s].file = req[s].file
    BY <1>1
  <2> QED
    BY <1>2, <2>2, <2>3, LiveKept
<1>5. /\ table' \in [Uris -> Files \cup {NULL}]
      /\ \A v \in Uris : /\ table'[v] # table[u]
                         /\ table'[v] # NULL => v # u /\ table'[v] = table[v]
                         /\ table'[v] \in {NULL, table[v]}
  BY <1>1, PipeBufAssumption DEF IInv, Shapes, Control, TableTrue
<1>6. TableTrue' /\ Counted' /\ RequestsTrue'
  BY <1>1, <1>2, <1>4, <1>5 DEF IInv, Control, TableTrue, Counted, RequestsTrue
<1>7. Serves(w)' /\ Holds(w)'
  BY <1>1, <1>2, <1>3, <1>5
     DEF Serves, Holds, NoSock, NoReq, UsesCurr, UsesArg, Resetting
<1>8. Control'
  <2>1. \A v \in Workers : Serves(v)' /\ Holds(v)'
    BY <1>2, <1>3, <1>7, OthersServe, OthersHold DEF IInv
  <2> QED
    BY <1>6, <2>1 DEF Control
<1>9. PlacedOnce' /\ MemUsed' /\ Honest'
  BY <1>1, <1>2, Quiet
<1>10. Shapes'
  BY <1>1, <1>3, <1>5 DEF IInv, Shapes, pipes
<1> QED
  BY <1>8, <1>9, <1>10 DEF IInv

LEMMA ResetMarkStep ==
    ASSUME Safe, IInv, NEW w \in Workers, ResetMark(w)
    PROVE  IInv'
<1>1. pc[w] = "mark"
  BY DEF ResetMark
<1>2. Holds(w)
  BY DEF IInv, Control
<1>3. arg[w] \in Cached /\ Resets /\ \A u \in Uris : table[u] # arg[w]
  BY <1>1, <1>2 DEF Holds, UsesArg, Resetting
<1>4. PICK f \in Files : f = arg[w]
  BY <1>3 DEF Cached
<1>5. /\ f \in Cached /\ file[f] \in CacheFile
      /\ file' = [file EXCEPT ![f].zombie = TRUE]
      /\ pc' = [pc EXCEPT ![w] = "check"]
      /\ UNCHANGED <<pipes, pool, reqpool, table, req, sock, arg>>
  BY <1>3, <1>4, RecordsAre DEF ResetMark, Goto, IInv
<1> DEFINE r == [file[f] EXCEPT !.zombie = TRUE]
<1>6. /\ r \in CacheFile /\ r.headers = file[f].headers /\ r.cache = file[f].cache
      /\ r.pending = file[f].pending
  BY <1>5 DEF CacheFile
<1>7. file' = [file EXCEPT ![f] = r]
  BY <1>5, Zenon
<1> HIDE DEF r
<1>8. /\ file'[f] = r /\ \A g \in Files \ {f} : file'[g] = file[g]
      /\ file' \in [Files -> CacheFile \cup {NULL}]
      /\ Cached' = Cached /\ Requests' = Requests
      /\ RequestsTrue'
      /\ \A g \in Cached : g \in Files /\ file'[g].cache = file[g].cache
      /\ PlacedOnce' /\ MemUsed' /\ Honest'
  BY <1>5, <1>6, <1>7, Touched
<1>9. /\ pc'[w] = "check" /\ arg'[w] = f /\ StepOf(w)
      /\ pc' \in [Workers -> Labels]
  BY <1>4, <1>5 DEF IInv, Shapes, StepOf, Labels
<1>10. \A g \in Files : LiveOf(g)' = LiveOf(g)
  <2>1. pc[w] \notin Ended /\ pc'[w] \notin Ended
    BY <1>1, <1>9 DEF Ended
  <2>2. \A s \in Socks : Over(s)' <=> Over(s)
    BY <1>9, <2>1, OverKept
  <2>3. \A s \in Requests : req'[s].file = req[s].file
    BY <1>5
  <2> QED
    BY <1>8, <2>2, <2>3, LiveKept
<1>11. Counted'
  <2>1. \A g \in Cached : file'[g].pending = file[g].pending
    BY <1>6, <1>8
  <2> QED
    BY <1>3, <1>8, <1>10, <2>1 DEF IInv, Control, Counted
<1>12. TableTrue'
  <2>1. \A u \in Uris : table[u] # NULL => table[u] \in Files \ {f}
    BY <1>3, <1>4, <1>8 DEF IInv, Control, TableTrue
  <2> QED
    BY <1>5, <1>8, <2>1 DEF IInv, Control, TableTrue
<1>13. Serves(w)' /\ Holds(w)'
  BY <1>3, <1>4, <1>5, <1>8, <1>9
     DEF Serves, Holds, NoSock, NoReq, UsesCurr, UsesArg, Resetting
<1>14. Control'
  <2>1. \A v \in Workers : Serves(v)' /\ Holds(v)'
    BY <1>8, <1>9, <1>13, OthersServe, OthersHold DEF IInv
  <2> QED
    BY <1>8, <1>11, <1>12, <2>1 DEF Control
<1>15. Shapes'
  BY <1>5, <1>8, <1>9 DEF IInv, Shapes, pipes
<1> QED
  BY <1>8, <1>14, <1>15 DEF IInv

\* The pipes of w's requests that are kept are in its pool of requests.
LEMMA KeptPipes ==
    ASSUME IInv, NEW w \in Workers
    PROVE  KeptPipe(w) \subseteq Range(reqpool[w]) /\ KeptPipe(w) \in SUBSET Bufs
<1>1. reqpool[w] \in Seq(Bufs)
  BY PoolsAre
<1>2. CASE reqpool[w] = <<>>
  BY <1>2, KeptIs
<1>3. CASE reqpool[w] # <<>>
  <2>1. KeptPipe(w) = {reqpool[w][1]} /\ 1 \in DOMAIN reqpool[w]
    BY <1>1, <1>3, KeptIs, LenProperties, EmptySeq
  <2> QED
    BY <1>1, <2>1, LenProperties DEF Range
<1> QED
  BY <1>2, <1>3

\* What k calls of pipe_buf_new leave in the pool, and what they return.
LEMMA Got ==
    ASSUME IInv, NEW w \in Workers, NEW k \in Nat, ~TooMany(w, k), NEW bs,
           bs = New(w, k), NEW kept, kept \subseteq KeptPipe(w),
           Obtain(w, bs, kept)
    PROVE  /\ bs \in Seq(Bufs) /\ Len(bs) = k /\ IsInjective(bs)
           /\ Range(bs) \in SUBSET Bufs
           /\ pool' \in [Workers -> Seq(Bufs)]
           /\ \A v \in Workers \ {w} : pool'[v] = pool[v]
           /\ \A v \in Workers : Len(pool'[v]) <= PoolMax
           /\ IsInjective(pool'[w])
           /\ Range(bs) \cap Range(pool'[w]) = {}
           /\ Range(bs) \cap Range(reqpool[w]) = {}
           /\ Range(pool'[w]) \cap Range(reqpool[w]) = {}
           /\ Range(bs) \cup Range(pool'[w]) = (Range(bs) \ open) \cup Range(pool[w])
           /\ \A f \in Cached : \A b \in Range(PipesOf(f)) :
                /\ data'[b] = data[b] /\ b \notin Range(bs)
           /\ \A s \in Requests : data'[req[s].buf] = data[req[s].buf]
<1> DEFINE made == Range(bs) \ open
<1>1. /\ pool[w] \in Seq(Bufs) /\ Range(pool[w]) \subseteq open
      /\ Range(reqpool[w]) \subseteq open
      /\ Range(pool[w]) \cap Range(reqpool[w]) = {}
  BY PoolsAre
<1>2. /\ bs \in Seq(Bufs) /\ Len(bs) = k /\ IsInjective(bs)
      /\ Rest(w, k) \in Seq(Bufs) /\ Len(Rest(w, k)) <= Len(pool[w])
      /\ IsInjective(Rest(w, k))
      /\ Range(bs) \cap Range(Rest(w, k)) = {}
      /\ Range(bs) \cup Range(Rest(w, k)) = made \cup Range(pool[w])
  BY NewPipes
<1>3. Range(bs) \in SUBSET Bufs
  BY <1>2, RangeOfSeq
<1>4. /\ pool' = [pool EXCEPT ![w] = Rest(w, k)]
  BY <1>2 DEF Obtain, Rest
<1>5. /\ pool' \in [Workers -> Seq(Bufs)] /\ pool'[w] = Rest(w, k)
      /\ \A v \in Workers \ {w} : pool'[v] = pool[v]
  BY <1>2, <1>4 DEF IInv, Shapes
<1>6. ASSUME NEW v \in Workers
      PROVE  Len(pool'[v]) <= PoolMax
  <2>1. Len(pool[v]) <= PoolMax
    BY DEF IInv, Shapes
  <2>2. CASE v = w
    <3>1. Len(pool[w]) \in Nat /\ Len(Rest(w, k)) \in Nat
      BY <1>1, <1>2, LenProperties
    <3> QED
      BY <1>2, <1>5, <2>1, <2>2, <3>1, PipeBufAssumption
  <2>3. CASE v # w
    BY <1>5, <2>1, <2>3
  <2> QED
    BY <2>2, <2>3
<1>7. /\ Range(bs) \cap Range(reqpool[w]) = {}
      /\ Range(pool'[w]) \cap Range(reqpool[w]) = {}
  <2>1. Range(bs) \subseteq made \cup Range(pool[w])
        /\ Range(pool'[w]) \subseteq made \cup Range(pool[w]) /\ made \cap open = {}
    BY <1>2, <1>5
  <2> HIDE DEF made
  <2> QED
    BY <1>1, <2>1
<1>8. kept \subseteq Range(reqpool[w]) /\ kept \in SUBSET Bufs
  BY KeptPipes
<1>9. \A b \in Bufs : b \in open /\ b \notin Range(pool[w]) /\ b \notin Range(reqpool[w])
                        => data'[b] = data[b] /\ b \notin Range(bs)
  <2>1. Range(bs) \subseteq made \cup Range(pool[w]) /\ made \cap open = {}
    BY <1>2
  <2>2. \A b \in Bufs \ (Range(bs) \cup kept) : data'[b] = data[b]
    BY <1>2, <1>8, Obtained
  <2> QED
    BY <1>8, <2>1, <2>2
<1>10. open \subseteq Bufs
  BY DEF IInv, Shapes
<1>11. /\ \A f \in Cached : \A b \in Range(PipesOf(f)) :
            /\ data'[b] = data[b] /\ b \notin Range(bs)
       /\ \A s \in Requests : data'[req[s].buf] = data[req[s].buf]
  BY <1>9, <1>10, FilesHold, RequestsHold
<1> QED
  BY <1>2, <1>3, <1>5, <1>6, <1>7, <1>11

\* Nothing happens, or pipe2 fails.
LEMMA Still ==
    ASSUME IInv, UNCHANGED <<pipes, pool, reqpool, files, req, at>>
    PROVE  IInv'
<1>1. UNCHANGED <<pipes, pool, reqpool, files, req, at>>
  OBVIOUS
<1>2. /\ Requests' = Requests /\ Cached' = Cached
      /\ \A f \in Cached : PipesOf(f)' = PipesOf(f)
      /\ \A f : LiveOf(f)' = LiveOf(f)
  BY <1>1 DEF Requests, Cached, PipesOf, LiveOf, Over, files, at
<1>3. PlacedOnce' /\ MemUsed' /\ Honest'
  BY <1>1, <1>2, Quiet
<1>4. TableTrue' /\ Counted' /\ RequestsTrue'
  BY <1>1, <1>2 DEF IInv, Control, TableTrue, Counted, RequestsTrue, files
<1>5. ASSUME NEW w \in Workers
      PROVE  Serves(w)' /\ Holds(w)'
  <2>1. Serves(w) /\ Holds(w)
    BY DEF IInv, Control
  <2>2. /\ Serves(w)'
    BY <1>1, <1>2, <2>1 DEF Serves, Req, at
  <2>3. Holds(w)'
    BY <1>1, <1>2, <2>1 DEF Holds, Req, File, files, at
  <2> QED
    BY <2>2, <2>3
<1>6. Shapes'
  BY <1>1 DEF IInv, Shapes, pipes, files, at
<1> QED
  BY <1>3, <1>4, <1>5, <1>6 DEF IInv, Control

LEMMA MakeStep ==
    ASSUME Safe, IInv, NEW w \in Workers, NEW f \in Files, NEW n \in Lengths,
           Make(w, f, n)
    PROVE  IInv'
<1> DEFINE k == n + 1
           bs == New(w, k)
           rec == [headers |-> bs[1], cache |-> SubSeq(bs, 2, n + 1),
                   zombie |-> FALSE, pending |-> 0, whole |-> TRUE]
           u == arg[w]
           s == sock[w]
<1>1. pc[w] = "make" /\ f \notin Cached /\ f \in Files
  BY DEF Make, Cached
<1>2. /\ u \in Uris /\ s \in Socks /\ WorkerOf[s] = w /\ s \notin Requests
  BY <1>1 DEF IInv, Control, Serves, Holds, NoSock, NoReq
<1>3. CASE Abort
  BY <1>3, Still DEF Abort
<1>4. CASE ~Abort
  <2>1. /\ ~TooMany(w, k) /\ Obtain(w, bs, {})
        /\ file' = [file EXCEPT ![f] = rec]
        /\ table' = [table EXCEPT ![u] = f]
        /\ arg' = [arg EXCEPT ![w] = f]
        /\ pc' = [pc EXCEPT ![w] = "count"]
        /\ UNCHANGED <<reqpool, req, sock>>
    BY <1>4 DEF Make, Hold, Goto
  <2>2. n \in Nat \ {0} /\ k \in Nat
    BY PipeBufAssumption
  <2>3. bs = New(w, k)
    OBVIOUS
  <2> HIDE DEF k, bs, rec
  <2>4. PICK kept \in {{}} : kept \subseteq KeptPipe(w) /\ Obtain(w, bs, kept)
    BY <2>1
  <2>5. /\ bs \in Seq(Bufs) /\ Len(bs) = k /\ IsInjective(bs)
        /\ pool' \in [Workers -> Seq(Bufs)]
        /\ \A v \in Workers \ {w} : pool'[v] = pool[v]
        /\ \A v \in Workers : Len(pool'[v]) <= PoolMax
        /\ IsInjective(pool'[w])
        /\ Range(bs) \cap Range(pool'[w]) = {}
        /\ Range(bs) \cap Range(reqpool[w]) = {}
        /\ Range(pool'[w]) \cap Range(reqpool[w]) = {}
        /\ Range(bs) \cup Range(pool'[w]) = (Range(bs) \ open) \cup Range(pool[w])
        /\ \A g \in Cached : \A b \in Range(PipesOf(g)) : data'[b] = data[b]
        /\ \A t \in Requests : data'[req[t].buf] = data[req[t].buf]
    BY <2>1, <2>2, <2>3, <2>4, Got
  <2>6. /\ open' \subseteq Bufs /\ mem_used' \in Nat /\ MemUsed'
        /\ open' = (open \cup (Range(bs) \ open)) \ {}
        /\ fill' \in [Bufs -> Fills]
        /\ data' \in [Bufs -> SUBSET Files]
        /\ locked' \in [Bufs -> BOOLEAN]
        /\ \A b \in Bufs : fill'[b] = "empty" => data'[b] = {}
        /\ \A b \in Range(bs) : data'[b] = {}
    BY <2>1, <2>5, Obtained
  <2>7. /\ bs[1] \in Bufs /\ SubSeq(bs, 2, n + 1) \in Seq(Bufs)
        /\ Len(SubSeq(bs, 2, n + 1)) = n
        /\ <<bs[1]>> \o SubSeq(bs, 2, n + 1) = bs
    <3>1. bs \in [1 .. k -> Bufs] /\ Len(bs) = n + 1
      BY <2>5, LenProperties DEF k
    <3>2. Len(bs) \in 1 .. Len(bs) /\ 1 \in 1 .. Len(bs)
      BY <2>2, <3>1
    <3>3. SubSeq(bs, 1, Len(bs)) = <<bs[1]>> \o SubSeq(bs, 1 + 1, Len(bs))
      BY <2>5, <3>2, SubSeqRecursiveFirst
    <3>4. SubSeq(bs, 1, Len(bs)) = bs
      BY <2>5, SubSeqFull
    <3>5. \A i \in 2 .. n + 1 : bs[i] \in Bufs
      BY <2>2, <3>1 DEF k
    <3>6. /\ SubSeq(bs, 2, n + 1) \in Seq(Bufs)
          /\ Len(SubSeq(bs, 2, n + 1)) = IF 2 <= n + 1 THEN n + 1 - 2 + 1 ELSE 0
      BY <2>2, <3>5, SubSeqProperties
    <3>7. 2 <= n + 1 /\ n + 1 - 2 + 1 = n /\ 1 + 1 = 2
      BY <2>2
    <3>8. bs[1] \in Bufs
      BY <3>1, <3>2, <2>2 DEF k
    <3> QED
      BY <3>1, <3>3, <3>4, <3>6, <3>7, <3>8
  <2>8. rec \in CacheFile /\ rec # NULL
    <3>1. rec \in CacheFile
      BY <2>7 DEF rec, CacheFile
    <3> QED
      BY <3>1, RecordsAre DEF IInv
  <2>9. /\ file'[f] = rec /\ \A g \in Files \ {f} : file'[g] = file[g]
        /\ rec.headers = bs[1] /\ rec.cache = SubSeq(bs, 2, n + 1)
        /\ rec.pending = 0 /\ ~rec.zombie /\ rec.whole
    <3>1. file'[f] = rec /\ \A g \in Files \ {f} : file'[g] = file[g]
      BY <2>1 DEF IInv, Shapes
    <3>2. /\ rec.headers = bs[1] /\ rec.cache = SubSeq(bs, 2, n + 1)
          /\ rec.pending = 0 /\ ~rec.zombie /\ rec.whole
      BY DEF rec
    <3> QED
      BY <3>1, <3>2
  <2>10. /\ Cached' = Cached \cup {f} /\ Requests' = Requests
         /\ \A g \in Files \ {f} : PipesOf(g)' = PipesOf(g)
         /\ PipesOf(f)' = bs
         /\ \A g \in Cached : g \in Files \ {f} /\ file'[g] = file[g]
    BY <1>1, <2>1, <2>7, <2>8, <2>9 DEF Cached, Requests, PipesOf
  <2>11. /\ pc'[w] = "count" /\ arg'[w] = f /\ StepOf(w)
         /\ pc' \in [Workers -> Labels]
         /\ arg' \in [Workers -> Uris \cup Files \cup {NULL}]
    BY <2>1 DEF IInv, Shapes, StepOf, Labels
  <2>12. Shapes'
    <3>1. /\ file' \in [Files -> CacheFile \cup {NULL}]
          /\ table' \in [Uris -> Files \cup {NULL}]
      BY <1>2, <2>1, <2>8 DEF IInv, Shapes
    <3> QED
      BY <2>1, <2>5, <2>6, <2>11, <3>1 DEF IInv, Shapes
  <2>13. \A g \in Files : LiveOf(g)' = LiveOf(g)
    <3>1. pc[w] \notin Ended /\ pc'[w] \notin Ended
      BY <1>1, <2>11 DEF Ended
    <3>2. \A t \in Socks : Over(t)' <=> Over(t)
      BY <2>11, <3>1, OverKept
    <3>3. \A t \in Requests : req'[t].file = req[t].file
      BY <2>1
    <3> QED
      BY <2>10, <3>2, <3>3, LiveKept
  <2>14. Counted'
    <3>1. LiveOf(f) = {}
      BY <1>1 DEF LiveOf, IInv, Control, RequestsTrue
    <3>2. file'[f].cache # <<>>
      <4>1. file'[f].cache = SubSeq(bs, 2, n + 1)
        BY <2>9
      <4>2. Len(file'[f].cache) = n
        BY <2>7, <4>1
      <4> QED
        BY <2>2, <4>2
    <3>3. file'[f].pending = Cardinality(LiveOf(f)')
      BY <2>9, <2>13, <3>1, FS_EmptySet
    <3>4. ASSUME NEW g \in Cached
          PROVE  /\ file'[g].cache # <<>>
                 /\ file'[g].pending = Cardinality(LiveOf(g)')
                 /\ file'[g].zombie => Resets
      BY <2>10, <2>13 DEF IInv, Control, Counted
    <3> QED
      BY <2>9, <2>10, <3>2, <3>3, <3>4 DEF Counted
  <2>15. TableTrue'
    <3>1. /\ table'[u] = f /\ \A v \in Uris \ {u} : table'[v] = table[v]
          /\ \A v \in Uris : table[v] # f
      BY <1>1, <1>2, <2>1, PipeBufAssumption DEF IInv, Shapes, Control, TableTrue
    <3>2. ~file'[f].zombie
      BY <2>9
    <3>3. ASSUME NEW v \in Uris, table'[v] # NULL
          PROVE  /\ table'[v] \in Cached' /\ ~file'[table'[v]].zombie
                 /\ \A x \in Uris \ {v} : table'[x] # table'[v]
      <4>1. CASE v = u
        BY <2>10, <3>1, <3>2, <4>1
      <4>2. CASE v # u
        <5>1. /\ table'[v] = table[v] /\ table[v] \in Cached
              /\ ~file[table[v]].zombie
              /\ \A x \in Uris \ {v} : table[x] # table[v]
          BY <3>1, <3>3, <4>2 DEF IInv, Control, TableTrue
        <5> QED
          BY <1>1, <2>10, <3>1, <5>1
      <4> QED
        BY <4>1, <4>2
    <3> QED
      BY <3>3 DEF TableTrue
  <2>16. RequestsTrue'
    <3>1. \A t \in Requests : /\ req[t].file \in Cached
                              /\ req[t].curr \in 0 .. Len(file[req[t].file].cache)
      BY DEF IInv, Control, RequestsTrue
    <3> QED
      BY <2>1, <2>10, <3>1 DEF RequestsTrue
  <2>17. Serves(w)' /\ Holds(w)'
    BY <1>2, <2>1, <2>10, <2>11
       DEF Serves, Holds, NoSock, NoReq, UsesCurr, UsesArg, Resetting
  <2>18. Control'
    <3>1. \A v \in Workers : Serves(v)' /\ Holds(v)'
      BY <2>10, <2>11, <2>17, OthersServe, OthersHold DEF IInv
    <3> QED
      BY <2>14, <2>15, <2>16, <3>1 DEF Control
  <2>19. PlacedOnce'
    <3> DEFINE made == Range(bs) \ open
    <3>1. /\ InReq(s) = {} /\ InReq(s)' = {} /\ IsInjective(ListOf(OfReq(s))')
      <4>1. ListOf(OfReq(s)) = <<>>
        BY <1>2, ListsAre
      <4>2. PICK t \in Socks : t = s
        BY <1>2
      <4>3. ListOf(OfReq(t)) = <<>> /\ ListOf(OfReq(t))' = <<>> /\ sock'[w] = t
        BY <1>2, <2>1, <2>10, <4>1, <4>2 DEF ListOf, OfReq
      <4> QED
        BY <4>2, <4>3, Nothing DEF InReq
    <3>2. /\ InFiles({f}) = {} /\ InFiles({f})' = Range(bs)
          /\ \A g \in {f} : IsInjective(ListOf(OfFile(g))')
      <4>1. ListOf(OfFile(f)) = <<>> /\ ListOf(OfFile(f))' = bs
        BY <1>1, <2>10 DEF ListOf, OfFile
      <4> QED
        BY <2>5, <4>1, Nothing DEF InFiles
    <3>3. /\ \A v \in Workers \ {w} : pool'[v] = pool[v] /\ reqpool'[v] = reqpool[v]
          /\ \A t \in Socks \ {s} : req'[t] = req[t]
          /\ IsInjective(pool'[w]) /\ IsInjective(reqpool'[w])
          /\ reqpool'[w] = reqpool[w]
      BY <2>1, <2>5, PoolsAre
    <3>4. made \cap open = {} /\ open' = (open \cup made) \ {}
      BY <2>6
    <3>5. \A g \in Files \ {f} : /\ g \in Cached' <=> g \in Cached
                                 /\ PipesOf(g)' = PipesOf(g)
      BY <2>10
    <3> HIDE DEF made
    <3>6. {} \cup Range(pool'[w]) \cup Range(reqpool'[w]) \cup InReq(s)'
             \cup InFiles({f})' =
            made \cup Range(pool[w]) \cup Range(reqpool[w]) \cup InReq(s)
                 \cup InFiles({f})
      BY <2>5, <3>1, <3>2, <3>3 DEF made
    <3>7. /\ Range(pool'[w]) \cap Range(reqpool'[w]) = {}
          /\ Range(pool'[w]) \cap InReq(s)' = {}
          /\ Range(pool'[w]) \cap InFiles({f})' = {}
          /\ Range(reqpool'[w]) \cap InReq(s)' = {}
          /\ Range(reqpool'[w]) \cap InFiles({f})' = {}
          /\ InReq(s)' \cap InFiles({f})' = {}
          /\ {} \cap (Range(pool'[w]) \cup Range(reqpool'[w])
                          \cup InReq(s)' \cup InFiles({f})') = {}
      BY <2>5, <3>1, <3>2, <3>3
    <3>8. {f} \in SUBSET Files /\ \A g, h \in {f} : g = h
      OBVIOUS
    <3>9. PICK t \in Socks : t = s
      BY <1>2
    <3>10. /\ InReq(t) = InReq(s) /\ InReq(t)' = InReq(s)'
           /\ IsInjective(ListOf(OfReq(t))')
      BY <2>1, <3>1, <3>9 DEF InReq, OfReq, ListOf
    <3> HIDE DEF s
    <3> QED
      BY <3>1, <3>2, <3>3, <3>4, <3>5, <3>6, <3>7, <3>8, <3>9, <3>10, Shuffle
  <2>20. Honest'
    <3>1. ASSUME NEW g \in Cached', NEW b \in Range(PipesOf(g)')
          PROVE  data'[b] \subseteq {g}
      <4>1. CASE g = f
        BY <2>6, <2>10, <4>1
      <4>2. CASE g # f
        <5>1. g \in Cached /\ PipesOf(g)' = PipesOf(g)
          BY <2>10, <4>2 DEF Cached
        <5> QED
          BY <2>5, <5>1 DEF IInv, Honest, OwnBytes
      <4> QED
        BY <4>1, <4>2
    <3>2. \A t \in Requests : data'[req[t].buf] \subseteq {req[t].file}
      BY <2>5 DEF IInv, Honest, OwnBytes
    <3> QED
      BY <2>1, <2>6, <2>10, <3>1, <3>2 DEF Honest, OwnBytes
  <2> QED
    BY <2>6, <2>12, <2>18, <2>19, <2>20 DEF IInv
<1> QED
  BY <1>3, <1>4

IsRest(w, q) == q = SubSeq(reqpool[w], 2, Len(reqpool[w]))

\* The pipe of a new request, and what is left of the pool of requests.
LEMMA RequestGets ==
    ASSUME IInv, NEW w \in Workers, NEW bs \in Seq(Bufs),
           IsInjective(bs), Range(bs) \cap Range(reqpool[w]) = {},
           NEW rest, IsRest(w, rest),
           NEW b, reqpool[w] = <<>> => Len(bs) = 1 /\ b = bs[1],
           reqpool[w] # <<>> => Len(bs) = 0 /\ b = Head(reqpool[w])
    PROVE  /\ b \in Bufs /\ {b} = Range(bs) \cup KeptPipe(w)
           /\ rest \in Seq(Bufs) /\ Len(rest) <= ReqPoolMax /\ IsInjective(rest)
           /\ b \notin Range(rest) /\ Range(rest) \subseteq Range(reqpool[w])
           /\ {b} \cup Range(rest) = Range(bs) \cup Range(reqpool[w])
<1> DEFINE q == reqpool[w]
<1>1. /\ q \in Seq(Bufs) /\ IsInjective(q) /\ Len(q) <= ReqPoolMax /\ Len(q) \in Nat
  BY PoolsAre, LenProperties DEF IInv, Shapes
<1>2. CASE q = <<>>
  <2>1. KeptPipe(w) = {} /\ Len(bs) = 1 /\ b = bs[1]
    BY <1>2, KeptIs
  <2>2. rest = <<>> /\ Range(q) = {}
    BY <1>2, Nothing DEF IsRest
  <2>3. 1 \in DOMAIN bs /\ DOMAIN bs = {1} /\ b = bs[1]
    <3>1. 1 .. 1 = {1}
      OBVIOUS
    <3>2. DOMAIN bs = 1 .. 1
      BY <2>1, LenProperties
    <3> QED
      BY <2>1, <3>1, <3>2
  <2>4. Range(bs) = {b}
    BY <2>3 DEF Range
  <2>5. rest \in Seq(Bufs) /\ Len(rest) = 0 /\ IsInjective(rest) /\ Range(rest) = {}
    BY <2>2, Nothing
  <2>6. Range(bs) \subseteq Bufs
    BY RangeOfSeq
  <2>7. /\ b \in Bufs /\ {b} = Range(bs) \cup KeptPipe(w)
        /\ b \notin Range(rest) /\ Range(rest) \subseteq Range(q)
        /\ {b} \cup Range(rest) = Range(bs) \cup Range(q)
    <3> HIDE DEF q
    <3> QED
      BY <2>1, <2>2, <2>4, <2>5, <2>6
  <2>8. Len(rest) <= ReqPoolMax
    BY <2>5, PipeBufAssumption
  <2> QED
    BY <2>5, <2>7, <2>8
<1>3. CASE q # <<>>
  <2>1. KeptPipe(w) = {b} /\ Len(bs) = 0 /\ b = Head(q)
    BY <1>3, KeptIs
  <2>2. bs = <<>>
    BY <2>1, EmptySeq
  <2>3. Range(bs) = {}
    BY <2>2, Nothing
  <2>4. /\ Head(q) \in Bufs
        /\ rest \in Seq(Bufs) /\ Len(rest) <= Len(q) /\ IsInjective(rest)
        /\ Head(q) \notin Range(rest)
        /\ Range(q) = {Head(q)} \cup Range(rest)
    BY <1>1, <1>3, HeadAndRest DEF IsRest
  <2>5. Len(rest) \in Nat
    BY <2>4, LenProperties
  <2> HIDE DEF q
  <2>6. Len(rest) <= ReqPoolMax
    BY <1>1, <2>4, <2>5, PipeBufAssumption
  <2>7. /\ b \in Bufs /\ {b} = Range(bs) \cup KeptPipe(w)
        /\ b \notin Range(rest) /\ Range(rest) \subseteq Range(q)
        /\ {b} \cup Range(rest) = Range(bs) \cup Range(q)
    BY <2>1, <2>3, <2>4
  <2> QED
    BY <2>4, <2>6, <2>7 DEF q
<1> QED
  BY <1>2, <1>3

LEMMA CountStep ==
    ASSUME Safe, IInv, NEW w \in Workers, Count(w)
    PROVE  IInv'
<1> DEFINE k == 1 - Cardinality(KeptPipe(w))
           bs == New(w, k)
           b == IF k = 0 THEN Head(reqpool[w]) ELSE bs[1]
           rec == [file |-> arg[w], curr |-> 1, buf |-> b]
<1>1. /\ pc[w] = "count" /\ arg[w] \in Cached
      /\ sock[w] \in Socks /\ WorkerOf[sock[w]] = w /\ sock[w] \notin Requests
  BY DEF Count, IInv, Control, Serves, Holds, NoSock, NoReq, UsesArg
<1>2. PICK s \in Socks, f \in Files : s = sock[w] /\ f = arg[w]
  BY <1>1 DEF Cached
<1>3. CASE Abort
  BY <1>3, Still DEF Abort
<1>4. CASE ~Abort
  <2>1. /\ ~TooMany(w, k) /\ Obtain(w, bs, KeptPipe(w))
        /\ reqpool' = [reqpool EXCEPT ![w] = SubSeq(@, 2, Len(@))]
        /\ req' = [req EXCEPT ![s] = rec]
        /\ file' = [file EXCEPT ![f].pending = @ + 1]
        /\ arg' = [arg EXCEPT ![w] = NULL]
        /\ pc' = [pc EXCEPT ![w] = "early"]
        /\ UNCHANGED <<table, sock>>
    BY <1>2, <1>4 DEF Count, Hold, Goto
  <2>2. bs = New(w, k) /\ k = 1 - Cardinality(KeptPipe(w))
        /\ (k = 0 => b = Head(reqpool[w])) /\ (k # 0 => b = bs[1])
    OBVIOUS
  <2> HIDE DEF k, bs, b
  <2>3. /\ bs \in Seq(Bufs) /\ b \in Bufs
        /\ {b} = Range(bs) \cup KeptPipe(w)
        /\ pool' \in [Workers -> Seq(Bufs)] /\ reqpool' \in [Workers -> Seq(Bufs)]
        /\ \A v \in Workers : /\ Len(pool'[v]) <= PoolMax
                              /\ Len(reqpool'[v]) <= ReqPoolMax
        /\ \A v \in Workers \ {w} : pool'[v] = pool[v] /\ reqpool'[v] = reqpool[v]
        /\ IsInjective(pool'[w]) /\ IsInjective(reqpool'[w])
        /\ b \notin Range(pool'[w]) /\ b \notin Range(reqpool'[w])
        /\ Range(pool'[w]) \cap Range(reqpool'[w]) = {}
        /\ {b} \cup Range(pool'[w]) \cup Range(reqpool'[w]) =
             (Range(bs) \ open) \cup Range(pool[w]) \cup Range(reqpool[w])
        /\ \A g \in Cached : \A x \in Range(PipesOf(g)) : data'[x] = data[x]
        /\ \A t \in Requests : data'[req[t].buf] = data[req[t].buf]
    <3>1. k \in Nat
      BY <2>2, KeptIs
    <3>2. PICK kept : kept = KeptPipe(w) /\ kept \subseteq KeptPipe(w)
      OBVIOUS
    <3>3. ~TooMany(w, k) /\ bs = New(w, k) /\ Obtain(w, bs, kept)
      BY <2>1, <2>2, <3>2
    <3>4. /\ bs \in Seq(Bufs) /\ Len(bs) = k /\ IsInjective(bs)
          /\ pool' \in [Workers -> Seq(Bufs)]
          /\ \A v \in Workers \ {w} : pool'[v] = pool[v]
          /\ \A v \in Workers : Len(pool'[v]) <= PoolMax
          /\ IsInjective(pool'[w])
          /\ Range(bs) \cap Range(pool'[w]) = {}
          /\ Range(bs) \cap Range(reqpool[w]) = {}
          /\ Range(pool'[w]) \cap Range(reqpool[w]) = {}
          /\ Range(bs) \cup Range(pool'[w]) = (Range(bs) \ open) \cup Range(pool[w])
          /\ \A g \in Cached : \A x \in Range(PipesOf(g)) : data'[x] = data[x]
          /\ \A t \in Requests : data'[req[t].buf] = data[req[t].buf]
      BY <3>1, <3>2, <3>3, Got
    <3> DEFINE rest == SubSeq(reqpool[w], 2, Len(reqpool[w]))
    <3>5. /\ IsRest(w, rest)
          /\ reqpool[w] = <<>> => Len(bs) = 1 /\ b = bs[1]
          /\ reqpool[w] # <<>> => Len(bs) = 0 /\ b = Head(reqpool[w])
      <4>1. CASE reqpool[w] = <<>>
        <5>1. k = 1
          BY <2>2, <4>1, KeptIs
        <5>2. b = bs[1] /\ Len(bs) = 1 /\ IsRest(w, rest)
          <6>1. Len(bs) = k
            BY <3>4
          <6>2. b = bs[1]
            BY <2>2, <5>1
          <6> QED
            BY <5>1, <6>1, <6>2 DEF rest, IsRest
        <5> QED
          BY <4>1, <5>2
      <4>2. CASE reqpool[w] # <<>>
        <5>1. k = 0
          BY <2>2, <4>2, KeptIs
        <5> QED
          BY <2>2, <3>4, <4>2, <5>1 DEF rest, IsRest
      <4> QED
        BY <4>1, <4>2
    <3>6. /\ reqpool' = [reqpool EXCEPT ![w] = rest]
          /\ reqpool \in [Workers -> Seq(Bufs)]
          /\ \A v \in Workers : Len(reqpool[v]) <= ReqPoolMax
      BY <2>1 DEF IInv, Shapes
    <3> HIDE DEF rest
    <3>7. /\ b \in Bufs /\ {b} = Range(bs) \cup KeptPipe(w)
          /\ rest \in Seq(Bufs) /\ Len(rest) <= ReqPoolMax /\ IsInjective(rest)
          /\ b \notin Range(rest) /\ Range(rest) \subseteq Range(reqpool[w])
          /\ {b} \cup Range(rest) = Range(bs) \cup Range(reqpool[w])
      BY <3>4, <3>5, RequestGets, ZenonT(40)
    <3>8. /\ reqpool' \in [Workers -> Seq(Bufs)] /\ reqpool'[w] = rest
          /\ \A v \in Workers \ {w} : reqpool'[v] = reqpool[v]
          /\ \A v \in Workers : Len(reqpool'[v]) <= ReqPoolMax
      BY <3>6, <3>7
    <3>9. b \notin Range(pool'[w])
      BY <3>4, <3>7
    <3>10. Range(pool'[w]) \cap Range(reqpool'[w]) = {}
      BY <3>4, <3>7, <3>8
    <3>11. {b} \cup Range(pool'[w]) \cup Range(reqpool'[w]) =
             (Range(bs) \ open) \cup Range(pool[w]) \cup Range(reqpool[w])
      BY <3>4, <3>7, <3>8
    <3> QED
      BY <3>4, <3>7, <3>8, <3>9, <3>10, <3>11
  <2>4. /\ open' \subseteq Bufs /\ mem_used' \in Nat /\ MemUsed'
        /\ open' = (open \cup (Range(bs) \ open)) \ {}
        /\ fill' \in [Bufs -> Fills]
        /\ data' \in [Bufs -> SUBSET Files]
        /\ locked' \in [Bufs -> BOOLEAN]
        /\ \A x \in Bufs : fill'[x] = "empty" => data'[x] = {}
        /\ \A x \in Range(bs) \cup KeptPipe(w) : data'[x] = {}
    <3>1. KeptPipe(w) \in SUBSET Bufs
      BY KeptPipes
    <3> QED
      BY <2>1, <2>3, <3>1, Obtained
  <2>5. rec \in CacheReq /\ rec # NULL
        /\ rec.file = f /\ rec.curr = 1 /\ rec.buf = b
    <3>1. rec \in CacheReq /\ rec.file = f /\ rec.curr = 1 /\ rec.buf = b
      BY <1>2, <2>3 DEF CacheReq
    <3> QED
      BY <3>1, RecordsAre DEF IInv
  <2> HIDE DEF rec
  <2>6. /\ req'[s] = rec /\ \A t \in Socks \ {s} : req'[t] = req[t]
        /\ req' \in [Socks -> CacheReq \cup {NULL}]
        /\ Requests' = Requests \cup {s} /\ s \notin Requests
        /\ \A t \in Requests : t \in Socks \ {s} /\ req'[t] = req[t]
    BY <1>1, <1>2, <2>1, <2>5 DEF IInv, Shapes, Requests
  <2>7. /\ f \in Cached /\ file[f] \in CacheFile
        /\ file[f].pending = Cardinality(LiveOf(f)) /\ file[f].cache # <<>>
    BY <1>1, <1>2, RecordsAre DEF IInv, Control, Counted
  <2> DEFINE n == file[f].pending + 1
             r == [file[f] EXCEPT !.pending = n]
  <2>8. file' = [file EXCEPT ![f] = r]
    BY <2>1, <2>7, Zenon
  <2>9. n \in Nat /\ n = Cardinality(LiveOf(f)) + 1
    BY <2>7, LiveFinite
  <2> HIDE DEF n
  <2>10. /\ r \in CacheFile /\ r.headers = file[f].headers /\ r.cache = file[f].cache
         /\ r.zombie = file[f].zombie /\ r.pending = n
    BY <2>7, <2>9 DEF CacheFile
  <2> HIDE DEF r
  <2>11. /\ file'[f] = r /\ \A g \in Files \ {f} : file'[g] = file[g]
         /\ file' \in [Files -> CacheFile \cup {NULL}] /\ r # NULL
    BY <2>8, <2>10, RecordsAre DEF IInv, Shapes
  <2>12. /\ Cached' = Cached /\ \A g \in Files : PipesOf(g)' = PipesOf(g)
         /\ \A g \in Cached : /\ g \in Files
                              /\ file'[g].cache = file[g].cache
                              /\ file'[g].zombie = file[g].zombie
                              /\ g # f => file'[g].pending = file[g].pending
    BY <2>7, <2>10, <2>11 DEF Cached, PipesOf
  <2>13. /\ pc'[w] = "early" /\ arg'[w] = NULL /\ sock'[w] = s /\ StepOf(w)
         /\ pc' \in [Workers -> Labels]
         /\ arg' \in [Workers -> Uris \cup Files \cup {NULL}]
    BY <1>1, <1>2, <2>1, <2>6 DEF IInv, Shapes, StepOf, Labels
  <2>14. Shapes'
    BY <2>1, <2>3, <2>4, <2>6, <2>11, <2>13 DEF IInv, Shapes
  <2>15. /\ \A g \in Files \ {f} : LiveOf(g)' = LiveOf(g)
         /\ LiveOf(f)' = LiveOf(f) \cup {s} /\ s \notin LiveOf(f)
    <3>1. pc[w] \notin Ended /\ pc'[w] \notin Ended
      BY <1>1, <2>13 DEF Ended
    <3>2. \A t \in Socks : Over(t)' <=> Over(t)
      BY <2>13, <3>1, OverKept
    <3>3. ~Over(s)
      BY <1>1, <1>2, <3>1 DEF Over
    <3> QED
      BY <2>5, <2>6, <3>2, <3>3 DEF LiveOf
  <2>16. file'[f].pending = Cardinality(LiveOf(f)')
    <3>1. IsFiniteSet(LiveOf(f))
      BY LiveFinite
    <3>2. Cardinality(LiveOf(f) \cup {s}) = Cardinality(LiveOf(f)) + 1
      BY <2>15, <3>1, FS_AddElement
    <3> QED
      BY <2>9, <2>10, <2>11, <2>15, <3>2
  <2>17. Counted'
    <3>1. ASSUME NEW g \in Cached
          PROVE  /\ file'[g].cache # <<>>
                 /\ file'[g].pending = Cardinality(LiveOf(g)')
                 /\ file'[g].zombie => Resets
      BY <2>12, <2>15, <2>16 DEF IInv, Control, Counted
    <3> QED
      BY <2>12, <3>1 DEF Counted
  <2>18. TableTrue'
    BY <2>1, <2>12 DEF IInv, Control, TableTrue
  <2>19. RequestsTrue'
    <3>1. 1 \in 0 .. Len(file[f].cache)
      <4>1. file[f].cache \in Seq(Bufs) /\ file[f].cache # <<>>
        BY <2>7 DEF CacheFile
      <4>2. Len(file[f].cache) \in Nat \ {0}
        BY <4>1, EmptySeq
      <4> QED
        BY <4>2
    <3>2. ASSUME NEW t \in Requests'
          PROVE  /\ req'[t].file \in Cached
                 /\ req'[t].curr \in 0 .. Len(file[req'[t].file].cache)
      <4>1. CASE t = s
        BY <2>5, <2>6, <2>7, <3>1, <4>1
      <4>2. CASE t # s
        BY <2>6, <4>2 DEF IInv, Control, RequestsTrue
      <4> QED
        BY <4>1, <4>2
    <3> QED
      BY <2>12, <3>2 DEF RequestsTrue
  <2>20. Serves(w)' /\ Holds(w)'
    <3>1. Serves(w)'
      BY <1>1, <1>2, <2>5, <2>6, <2>13 DEF Serves, NoReq, Req
    <3> QED
      BY <2>13, <3>1 DEF Holds, UsesArg, Resetting
  <2>21. Control'
    <3>1. \A v \in Workers : Serves(v)' /\ Holds(v)'
      BY <2>12, <2>13, <2>20, OthersServe, OthersHold DEF IInv
    <3> QED
      BY <2>17, <2>18, <2>19, <3>1 DEF Control
  <2>22. PlacedOnce'
    <3> DEFINE made == Range(bs) \ open
    <3>1. InReq(s) = {} /\ InReq(s)' = {b} /\ IsInjective(ListOf(OfReq(s))')
      <4>1. ListOf(OfReq(s)) = <<>> /\ ListOf(OfReq(s))' = <<b>>
        BY <2>5, <2>6 DEF ListOf, OfReq
      <4> QED
        BY <4>1, Single, Nothing, <2>3 DEF InReq
    <3>2. made \cap open = {} /\ open' = (open \cup made) \ {}
      BY <2>4
    <3> HIDE DEF made
    <3>3. InFiles({})' = {} /\ InFiles({}) = {}
      BY DEF InFiles
    <3>4. {} \cup Range(pool'[w]) \cup Range(reqpool'[w]) \cup InReq(s)'
             \cup InFiles({})' =
            made \cup Range(pool[w]) \cup Range(reqpool[w]) \cup InReq(s)
                 \cup InFiles({})
      BY <2>3, <3>1, <3>3 DEF made
    <3>5. /\ Range(pool'[w]) \cap Range(reqpool'[w]) = {}
          /\ Range(pool'[w]) \cap InReq(s)' = {}
          /\ Range(pool'[w]) \cap InFiles({})' = {}
          /\ Range(reqpool'[w]) \cap InReq(s)' = {}
          /\ Range(reqpool'[w]) \cap InFiles({})' = {}
          /\ InReq(s)' \cap InFiles({})' = {}
          /\ {} \cap (Range(pool'[w]) \cup Range(reqpool'[w])
                          \cup InReq(s)' \cup InFiles({})') = {}
      BY <2>3, <3>1, <3>3
    <3>6. /\ {} \in SUBSET Files /\ \A g, h \in {} : g = h
          /\ \A g \in {} : IsInjective(ListOf(OfFile(g))')
          /\ \A g \in Files \ {} : /\ g \in Cached' <=> g \in Cached
                                   /\ PipesOf(g)' = PipesOf(g)
      BY <2>12
    <3>7. /\ \A v \in Workers \ {w} : pool'[v] = pool[v] /\ reqpool'[v] = reqpool[v]
          /\ \A t \in Socks \ {s} : req'[t] = req[t]
          /\ IsInjective(pool'[w]) /\ IsInjective(reqpool'[w])
      BY <2>3, <2>6
    <3> QED
      BY <3>1, <3>2, <3>4, <3>5, <3>6, <3>7, Shuffle
  <2>23. Honest'
    <3>1. \A g \in Cached : \A x \in Range(PipesOf(g)) : data'[x] \subseteq {g}
      BY <2>3 DEF IInv, Honest, OwnBytes
    <3>2. ASSUME NEW t \in Requests'
          PROVE  data'[req'[t].buf] \subseteq {req'[t].file}
      <4>1. CASE t = s
        BY <2>3, <2>4, <2>5, <2>6, <4>1
      <4>2. CASE t # s
        <5>1. t \in Requests /\ req'[t] = req[t]
          BY <2>6, <4>2
        <5>2. data'[req[t].buf] = data[req[t].buf]
          BY <2>3, <5>1
        <5> QED
          BY <5>1, <5>2 DEF IInv, Honest, OwnBytes
      <4> QED
        BY <4>1, <4>2
    <3> QED
      BY <2>4, <2>12, <3>1, <3>2 DEF Honest, OwnBytes
  <2> QED
    BY <2>4, <2>14, <2>21, <2>22, <2>23 DEF IInv
<1> QED
  BY <1>3, <1>4

LEMMA Freed ==
    ASSUME IInv, NEW w \in Workers, NEW bs \in Seq(Bufs), IsInjective(bs),
           Range(bs) \subseteq open, Range(bs) \cap Range(pool[w]) = {},
           PipeBufFree(w, bs)
    PROVE  \E closed \in SUBSET Range(bs) :
             /\ pool' \in [Workers -> Seq(Bufs)] /\ IsInjective(pool'[w])
             /\ Len(pool'[w]) <= PoolMax
             /\ \A v \in Workers \ {w} : pool'[v] = pool[v]
             /\ Range(pool'[w]) = Range(pool[w]) \cup (Range(bs) \ closed)
             /\ open' = open \ closed
             /\ mem_used' \in Nat /\ MemUsed'
             /\ UNCHANGED <<fill, data, locked>>
<1> DEFINE room == PoolMax - Len(pool[w])
           kept == Least(Len(bs), room)
           first == SubSeq(bs, 1, kept)
           rest == SubSeq(bs, kept + 1, Len(bs))
<1>1. pool[w] \in Seq(Bufs) /\ IsInjective(pool[w])
  BY PoolsAre
<1>2. room \in Nat /\ Len(pool[w]) + room = PoolMax
  <2>1. Len(pool[w]) \in Nat
    BY <1>1, LenProperties
  <2>2. Len(pool[w]) <= PoolMax
    BY DEF IInv, Shapes
  <2> QED
    BY <2>1, <2>2, PipeBufAssumption
<1>3. kept \in 0 .. Len(bs) /\ kept \in Nat /\ kept <= room
  <2>1. Len(bs) \in Nat
    BY LenProperties
  <2> HIDE DEF room
  <2>2. kept \in Nat /\ kept <= Len(bs) /\ kept <= room
    BY <1>2, <2>1, LeastIs
  <2> HIDE DEF kept
  <2> QED
    BY <2>1, <2>2
<1>4. /\ pool' = [pool EXCEPT ![w] = @ \o first]
      /\ open' = open \ Range(rest)
      /\ mem_used' = mem_used - (Len(bs) - kept)
      /\ UNCHANGED <<fill, data, locked>>
  BY DEF PipeBufFree
<1> HIDE DEF kept, room
<1>5. /\ first \in Seq(Bufs) /\ Len(first) = kept /\ IsInjective(first)
      /\ rest \in Seq(Bufs) /\ Len(rest) = Len(bs) - kept /\ IsInjective(rest)
      /\ Range(first) \cap Range(rest) = {}
      /\ Range(first) \cup Range(rest) = Range(bs)
  BY <1>3, Parts
<1> HIDE DEF first, rest
<1>6. /\ pool[w] \o first \in Seq(Bufs)
      /\ Len(pool[w] \o first) = Len(pool[w]) + Len(first)
      /\ IsInjective(pool[w] \o first)
      /\ Range(pool[w] \o first) = Range(pool[w]) \cup Range(first)
  <2>1. Range(pool[w]) \cap Range(first) = {}
    BY <1>5
  <2>2. first \in Seq(Bufs) /\ IsInjective(first)
    BY <1>5
  <2> DEFINE p == pool[w]
  <2>3. p \in Seq(Bufs) /\ IsInjective(p) /\ Range(p) \cap Range(first) = {}
    BY <1>1, <2>1
  <2> HIDE DEF p
  <2>4. /\ p \o first \in Seq(Bufs) /\ Len(p \o first) = Len(p) + Len(first)
        /\ IsInjective(p \o first)
        /\ Range(p \o first) = Range(p) \cup Range(first)
    BY <2>2, <2>3, Joined
  <2> QED
    BY <2>4 DEF p
<1>7. /\ pool'[w] = pool[w] \o first /\ pool' \in [Workers -> Seq(Bufs)]
      /\ \A v \in Workers \ {w} : pool'[v] = pool[v]
  BY <1>4, <1>6 DEF IInv, Shapes
<1>8. Len(pool'[w]) <= PoolMax
  <2>1. Len(pool[w]) \in Nat
    BY <1>1, LenProperties
  <2>2. Len(pool'[w]) = Len(pool[w]) + kept
    BY <1>5, <1>6, <1>7
  <2> QED
    BY <1>2, <1>3, <2>1, <2>2, PipeBufAssumption
<1>9. mem_used' = Cardinality(open') /\ mem_used' \in Nat
  <2>1. open \in SUBSET Bufs /\ Range(rest) \subseteq open
    BY <1>5 DEF IInv, Shapes
  <2>2. IsFiniteSet(open)
    BY <2>1, PipeBufAssumption, FS_Subset
  <2>3. IsFiniteSet(Range(rest)) /\ Cardinality(Range(rest)) = Len(rest)
    BY <1>5, CardinalityOfRange
  <2>4. /\ IsFiniteSet(open \ Range(rest))
        /\ Cardinality(open \ Range(rest)) =
             Cardinality(open) - Cardinality(open \cap Range(rest))
    BY <2>2, FS_Difference
  <2>5. open \cap Range(rest) = Range(rest)
    BY <2>1
  <2>6. Cardinality(open \ Range(rest)) = mem_used - (Len(bs) - kept)
    BY <1>5, <2>3, <2>4, <2>5 DEF IInv, MemUsed
  <2>7. Cardinality(open \ Range(rest)) \in Nat
    BY <2>4, FS_CardinalityType
  <2> QED
    BY <1>4, <2>6, <2>7
<1>10. Range(pool'[w]) = Range(pool[w]) \cup (Range(bs) \ Range(rest))
  BY <1>5, <1>6, <1>7
<1>11. Range(rest) \in SUBSET Range(bs)
  BY <1>5
<1> QED
  BY <1>4, <1>6, <1>7, <1>8, <1>9, <1>10, <1>11 DEF MemUsed
LEMMA EndFreeStep ==
    ASSUME Safe, IInv, NEW w \in Workers, EndFree(w)
    PROVE  IInv'
<1>1. /\ sock[w] \in Requests /\ Req(w) = req[sock[w]] /\ Req(w) \in CacheReq
      /\ WorkerOf[sock[w]] = w /\ File(w) = file[Req(w).file]
      /\ Req(w).file \in Cached /\ Req(w).buf \in Bufs /\ Req(w).buf \in open
      /\ pc[w] \in {"free", "release"}
  <2>1. pc[w] \in {"free", "release"}
    BY DEF EndFree
  <2>2. pc[w] \notin NoSock \cup NoReq
    BY <2>1 DEF NoSock, NoReq
  <2> QED
    BY <2>1, <2>2, Handler
<1>2. PICK s \in Socks, f \in Files, b \in Bufs :
        s = sock[w] /\ f = Req(w).file /\ b = Req(w).buf
  BY <1>1 DEF Requests, Cached
<1> DEFINE keeps == Len(reqpool[w]) < ReqPoolMax
           last == pc[w] = "free"
           given == IF last THEN PipesOf(f) ELSE <<>>
           own == IF keeps THEN <<>> ELSE <<b>>
           bs == given \o own
           K == IF keeps THEN {b} ELSE {}
<1>3. /\ PipeBufFree(w, bs)
      /\ reqpool' = [reqpool EXCEPT ![w] = IF keeps THEN Append(@, b) ELSE @]
      /\ file' = IF last THEN [file EXCEPT ![f] = NULL] ELSE file
      /\ req' = [req EXCEPT ![s] = NULL]
      /\ pc' = [pc EXCEPT ![w] = "idle"] /\ sock' = [sock EXCEPT ![w] = NULL]
      /\ arg' = [arg EXCEPT ![w] = NULL]
      /\ table' = table
  BY <1>2 DEF EndFree, Return, Goto, Hold
<1>4. /\ s \in Requests /\ WorkerOf[s] = w /\ f \in Cached
      /\ f = req[s].file /\ b = req[s].buf
      /\ b \in open /\ file[f] \in CacheFile
  BY <1>1, <1>2, RecordsAre DEF IInv
<1>5. /\ last => Alone /\ file[f].zombie /\ LiveOf(f) = {}
  BY <1>1, <1>2, AloneFrees DEF IInv, Control, Holds
<1> HIDE DEF keeps, last
<1>6. /\ given \in Seq(Bufs) /\ IsInjective(given) /\ Range(given) \subseteq open
      /\ Range(given) \cap Range(pool[w]) = {}
      /\ Range(given) \cap Range(reqpool[w]) = {}
      /\ b \notin Range(given)
      /\ Range(given) = IF last THEN Range(PipesOf(f)) ELSE {}
  <2>1. CASE last
    BY <1>4, <2>1, FilesHold
  <2>2. CASE ~last
    BY <2>2, Nothing
  <2> QED
    BY <2>1, <2>2
<1>7. /\ own \in Seq(Bufs) /\ IsInjective(own)
      /\ Range(own) = {b} \ K
  <2>1. CASE keeps
    BY <2>1, Nothing
  <2>2. CASE ~keeps
    BY <1>4, <2>2, Single
  <2> QED
    BY <2>1, <2>2
<1>8. b \notin Range(pool[w]) /\ b \notin Range(reqpool[w])
  BY <1>4, RequestsHold
<1> HIDE DEF given, own
<1>9. /\ bs \in Seq(Bufs) /\ IsInjective(bs)
      /\ Range(bs) = Range(given) \cup ({b} \ K)
  <2>1. given \in Seq(Bufs) /\ IsInjective(given) /\ own \in Seq(Bufs)
        /\ IsInjective(own) /\ Range(given) \cap Range(own) = {}
    BY <1>6, <1>7
  <2> QED
    BY <1>7, <2>1, Joined
<1> HIDE DEF bs
<1>10. Range(bs) \subseteq open /\ Range(bs) \cap Range(pool[w]) = {}
       /\ Range(bs) \cap Range(reqpool[w]) = {}
  BY <1>4, <1>6, <1>8, <1>9
<1>11. PICK closed \in SUBSET Range(bs) :
        /\ pool' \in [Workers -> Seq(Bufs)] /\ IsInjective(pool'[w])
        /\ Len(pool'[w]) <= PoolMax
        /\ \A v \in Workers \ {w} : pool'[v] = pool[v]
        /\ Range(pool'[w]) = Range(pool[w]) \cup (Range(bs) \ closed)
        /\ open' = open \ closed
        /\ mem_used' \in Nat /\ MemUsed'
        /\ UNCHANGED <<fill, data, locked>>
  BY <1>3, <1>9, <1>10, Freed
<1>12. /\ reqpool[w] \in Seq(Bufs) /\ IsInjective(reqpool[w])
       /\ Range(reqpool[w]) \cap Range(pool[w]) = {}
  BY PoolsAre
<1>13. /\ reqpool'[w] \in Seq(Bufs) /\ IsInjective(reqpool'[w])
       /\ Len(reqpool'[w]) <= ReqPoolMax
       /\ Range(reqpool'[w]) = Range(reqpool[w]) \cup K
       /\ \A v \in Workers \ {w} : reqpool'[v] = reqpool[v]
       /\ reqpool' \in [Workers -> Seq(Bufs)]
  <2>1. /\ reqpool \in [Workers -> Seq(Bufs)] /\ Len(reqpool[w]) <= ReqPoolMax
    BY DEF IInv, Shapes
  <2>2. reqpool'[w] = IF keeps THEN Append(reqpool[w], b) ELSE reqpool[w]
    BY <1>3, <2>1
  <2> DEFINE q == reqpool[w]
  <2>3. /\ Append(q, b) \in Seq(Bufs) /\ IsInjective(Append(q, b))
        /\ Len(Append(q, b)) = Len(q) + 1 /\ Range(Append(q, b)) = Range(q) \cup {b}
    <3>1. q \in Seq(Bufs) /\ IsInjective(q) /\ b \notin Range(q) /\ b \in Bufs
      BY <1>4, <1>8, <1>12
    <3> HIDE DEF q
    <3> DEFINE t == <<b>>
    <3>2. t \in Seq(Bufs) /\ Len(t) = 1 /\ IsInjective(t) /\ Range(t) = {b}
      BY <3>1, Single
    <3>3. Append(q, b) = q \o t
      BY <3>1, AppendIsConcat
    <3> HIDE DEF t
    <3>4. /\ q \in Seq(Bufs) /\ t \in Seq(Bufs) /\ IsInjective(q) /\ IsInjective(t)
          /\ Range(q) \cap Range(t) = {}
      BY <3>1, <3>2
    <3>5. /\ q \o t \in Seq(Bufs) /\ Len(q \o t) = Len(q) + Len(t)
          /\ IsInjective(q \o t)
          /\ Range(q \o t) = Range(q) \cup Range(t)
      BY <3>4, Joined
    <3> QED
      BY <3>2, <3>3, <3>5
  <2>4. CASE keeps
    <3>1. Len(q) < ReqPoolMax /\ Len(q) \in Nat
      BY <1>12, <2>4, LenProperties DEF keeps
    <3>2. Len(q) + 1 <= ReqPoolMax
      BY <3>1, PipeBufAssumption
    <3> QED
      BY <1>3, <2>1, <2>2, <2>3, <2>4, <3>2
  <2>5. CASE ~keeps
    BY <1>3, <1>12, <2>1, <2>2, <2>5
  <2> QED
    BY <2>4, <2>5
<1>14. /\ req'[s] = NULL /\ \A t \in Socks \ {s} : req'[t] = req[t]
       /\ Requests' = Requests \ {s} /\ req' \in [Socks -> CacheReq \cup {NULL}]
  BY <1>3, <1>4 DEF IInv, Shapes, Requests
<1>15. /\ pc'[w] = "idle" /\ arg'[w] = NULL /\ sock'[w] = NULL
       /\ pc' \in [Workers -> Labels] /\ sock' \in [Workers -> Socks \cup {NULL}]
       /\ arg' \in [Workers -> Uris \cup Files \cup {NULL}]
       /\ StepOf(w)
  <2>1. /\ pc'[w] = "idle" /\ arg'[w] = NULL /\ sock'[w] = NULL
        /\ pc' \in [Workers -> Labels] /\ sock' \in [Workers -> Socks \cup {NULL}]
        /\ arg' \in [Workers -> Uris \cup Files \cup {NULL}]
        /\ \A v \in Workers \ {w} : pc'[v] = pc[v] /\ sock'[v] = sock[v] /\ arg'[v] = arg[v]
    BY <1>3 DEF IInv, Shapes, Labels
  <2>2. \A t \in Socks : WorkerOf[t] # w => req'[t] = req[t]
    BY <1>4, <1>14
  <2> QED
    BY <2>1, <2>2 DEF StepOf
\* The request was over before, so the count of its file is as it was.
<1>16. \A g \in Files : LiveOf(g)' = LiveOf(g)
  <2>1. Over(s)
    BY <1>1, <1>2, <1>4 DEF Over, Ended
  <2>2. ASSUME NEW t \in Socks \ {s}
        PROVE  Over(t)' <=> Over(t)
    <3>1. WorkerOf[t] \in Workers /\ t # NULL
      BY PipeBufAssumption
    <3>2. CASE WorkerOf[t] = w
      BY <1>2, <1>15, <3>1, <3>2 DEF Over
    <3>3. CASE WorkerOf[t] # w
      BY <1>15, <3>1, <3>3 DEF Over, StepOf
    <3> QED
      BY <3>2, <3>3
  <2>3. Requests \subseteq Socks
    BY DEF Requests
  <2>4. ASSUME NEW g \in Files, NEW t \in Requests'
        PROVE  t \in LiveOf(g)' <=> t \in LiveOf(g)
    <3>1. t \in Socks \ {s} /\ t \in Requests /\ req'[t] = req[t]
      BY <1>14, <2>3
    <3> QED
      BY <2>2, <3>1 DEF LiveOf
  <2>5. \A g \in Files : s \notin LiveOf(g)
    BY <2>1 DEF LiveOf
  <2>6. \A g \in Files : LiveOf(g) \subseteq Requests /\ LiveOf(g)' \subseteq Requests'
    BY DEF LiveOf
  <2> QED
    BY <1>14, <2>4, <2>5, <2>6
\* The file, if it is freed, and if it is kept.
<1>17. ASSUME last
       PROVE  /\ file'[f] = NULL /\ Cached' = Cached \ {f}
              /\ file' \in [Files -> CacheFile \cup {NULL}]
              /\ \A g \in Files \ {f} : file'[g] = file[g]
              /\ \A t \in Requests \ {s} : req[t].file # f
              /\ \A u \in Uris : table[u] # f
  <2>1. file' = [file EXCEPT ![f] = NULL]
    BY <1>3, <1>17
  <2>2. /\ file'[f] = NULL /\ file' \in [Files -> CacheFile \cup {NULL}]
        /\ \A g \in Files \ {f} : file'[g] = file[g]
    BY <1>4, <2>1 DEF IInv, Shapes
  <2>3. Cached' = Cached \ {f}
    BY <1>4, <2>2 DEF Cached
  <2>4. ASSUME NEW t \in Requests \ {s}
        PROVE  req[t].file # f
    <3>1. t \in Socks /\ WorkerOf[t] \in Workers
      BY PipeBufAssumption DEF Requests
    <3>2. WorkerOf[t] = w
      BY <1>5, <1>17, <3>1 DEF Alone
    <3>3. ~Over(t)
      BY <1>2, <3>2 DEF Over
    <3> QED
      BY <1>5, <1>17, <3>3 DEF LiveOf
  <2>5. \A u \in Uris : table[u] # f
    <3>1. f # NULL
      BY PipeBufAssumption
    <3> QED
      BY <1>5, <1>17, <3>1 DEF IInv, Control, TableTrue
  <2> QED
    BY <2>2, <2>3, <2>4, <2>5
<1>18. ASSUME ~last
       PROVE  file' = file /\ Cached' = Cached
  BY <1>3, <1>18 DEF Cached
<1>19. /\ file' \in [Files -> CacheFile \cup {NULL}]
       /\ \A g \in Files \ {f} : file'[g] = file[g]
       /\ Cached' \subseteq Cached
       /\ \A g \in Cached' : g \in Files /\ file'[g] = file[g]
       /\ \A g \in Cached' : PipesOf(g)' = PipesOf(g)
  <2>1. CASE last
    <3>1. /\ file' \in [Files -> CacheFile \cup {NULL}]
          /\ \A g \in Files \ {f} : file'[g] = file[g]
          /\ Cached' \subseteq Cached
          /\ \A g \in Cached' : g \in Files /\ file'[g] = file[g]
      BY <1>17, <2>1 DEF Cached
    <3> QED
      BY <3>1 DEF PipesOf
  <2>2. CASE ~last
    <3>1. /\ file' \in [Files -> CacheFile \cup {NULL}]
          /\ \A g \in Files \ {f} : file'[g] = file[g]
          /\ Cached' \subseteq Cached
          /\ \A g \in Cached' : g \in Files /\ file'[g] = file[g]
      BY <1>18, <2>2 DEF Cached, IInv, Shapes
    <3> QED
      BY <3>1 DEF PipesOf
  <2> QED
    BY <2>1, <2>2
<1>20. \A g \in Files \ {f} : PipesOf(g)' = PipesOf(g) /\ (g \in Cached' <=> g \in Cached)
  BY <1>19 DEF PipesOf, Cached
\* The pipes.
<1>21. /\ InReq(s) = {b} /\ InReq(s)' = {} /\ IsInjective(ListOf(OfReq(s))')
  <2>1. s \in Socks \ Requests'
    BY <1>4, <1>14
  <2>2. ListOf(OfReq(s))' = <<>>
    BY <2>1 DEF ListOf, OfReq
  <2>3. ListOf(OfReq(s)) = <<b>>
    BY <1>4, ListsAre
  <2> QED
    BY <1>4, <2>2, <2>3, Single, Nothing DEF InReq
<1>22. PICK F \in SUBSET Files : F = IF last THEN {f} ELSE {}
  OBVIOUS
<1>23. /\ InFiles(F) = Range(given) /\ InFiles(F)' = {}
       /\ \A g \in F : IsInjective(ListOf(OfFile(g))')
       /\ \A g \in Files \ F : /\ g \in Cached' <=> g \in Cached
                               /\ PipesOf(g)' = PipesOf(g)
       /\ F \in SUBSET Files /\ \A g, h \in F : g = h
  <2>1. CASE last
    <3>1. f \in Files \ Cached'
      BY <1>4, <1>17, <2>1
    <3>2. ListOf(OfFile(f))' = <<>>
      BY <3>1 DEF ListOf, OfFile
    <3>3. ListOf(OfFile(f)) = PipesOf(f)
      BY <1>4, ListsAre
    <3>4. F = {f}
      BY <1>22, <2>1
    <3>5. InFiles(F) = Range(PipesOf(f)) /\ InFiles(F)' = {}
      BY <3>2, <3>3, <3>4, Nothing DEF InFiles
    <3> QED
      BY <1>4, <1>6, <1>20, <2>1, <3>2, <3>4, <3>5, Nothing
  <2>2. CASE ~last
    <3>1. F = {}
      BY <1>22, <2>2
    <3>2. InFiles(F) = {} /\ InFiles(F)' = {}
      BY <3>1 DEF InFiles
    <3>3. PipesOf(f)' = PipesOf(f)
      BY <1>18, <2>2 DEF PipesOf
    <3> QED
      BY <1>4, <1>6, <1>18, <1>20, <2>2, <3>1, <3>2, <3>3
  <2> QED
    BY <2>1, <2>2
<1>24. PlacedOnce'
  <2> DEFINE a == Range(pool[w])
             q == Range(reqpool[w])
             g == Range(given)
             a1 == Range(pool'[w])
             q1 == Range(reqpool'[w])
  <2>1. /\ a1 = a \cup ((g \cup ({b} \ K)) \ closed) /\ q1 = q \cup K
        /\ closed \subseteq g \cup ({b} \ K)
        /\ a \cap q = {} /\ g \cap a = {} /\ g \cap q = {}
        /\ b \notin a /\ b \notin q /\ b \notin g
        /\ K \subseteq {b}
    BY <1>6, <1>8, <1>9, <1>11, <1>12, <1>13
  <2>2. a1 \cap q1 = {}
    <3> HIDE DEF a, q, g, a1, q1, K
    <3> QED
      BY <2>1
  <2>3. /\ closed \cap (a1 \cup q1) = {}
        /\ closed \cup a1 \cup q1 = a \cup q \cup {b} \cup g
    <3> HIDE DEF a, q, g, a1, q1, K
    <3> QED
      BY <2>1
  <2>4. PICK made : made = {}
    OBVIOUS
  <2>5. /\ a1 \cap InReq(s)' = {} /\ a1 \cap InFiles(F)' = {}
        /\ q1 \cap InReq(s)' = {} /\ q1 \cap InFiles(F)' = {}
        /\ InReq(s)' \cap InFiles(F)' = {}
        /\ closed \cap (a1 \cup q1 \cup InReq(s)' \cup InFiles(F)') = {}
        /\ closed \cup a1 \cup q1 \cup InReq(s)' \cup InFiles(F)' =
             made \cup a \cup q \cup InReq(s) \cup InFiles(F)
        /\ open' = (open \cup made) \ closed /\ made \cap open = {}
    <3>1. /\ InReq(s) = {b} /\ InReq(s)' = {}
          /\ InFiles(F) = g /\ InFiles(F)' = {} /\ open' = open \ closed
      BY <1>11, <1>21, <1>23
    <3> HIDE DEF a, q, g, a1, q1
    <3> QED
      BY <2>2, <2>3, <2>4, <3>1
  <2>6. /\ \A v \in Workers \ {w} : pool'[v] = pool[v] /\ reqpool'[v] = reqpool[v]
        /\ IsInjective(pool'[w]) /\ IsInjective(reqpool'[w])
    BY <1>11, <1>13
  <2>7. /\ \A t \in Socks \ {s} : req'[t] = req[t]
        /\ IsInjective(ListOf(OfReq(s))')
    BY <1>14, <1>21
  <2>8. /\ \A x, y \in F : x = y
        /\ \A x \in F : IsInjective(ListOf(OfFile(x))')
        /\ \A x \in Files \ F : /\ x \in Cached' <=> x \in Cached
                                /\ PipesOf(x)' = PipesOf(x)
    BY <1>23
  <2> QED
    BY <2>2, <2>5, <2>6, <2>7, <2>8, Shuffle
\* What is left.
<1>25. Shapes'
  <2>1. \A v \in Workers : Len(pool'[v]) <= PoolMax /\ Len(reqpool'[v]) <= ReqPoolMax
    BY <1>11, <1>13 DEF IInv, Shapes
  <2>2. open' \subseteq Bufs
    BY <1>11 DEF IInv, Shapes
  <2> QED
    BY <1>3, <1>11, <1>13, <1>14, <1>15, <1>19, <2>1, <2>2 DEF IInv, Shapes
<1>26. TableTrue'
  <2>1. \A u \in Uris : table[u] # NULL => table[u] \in Cached'
    BY <1>17, <1>18 DEF IInv, Control, TableTrue
  <2> QED
    BY <1>3, <1>19, <2>1 DEF IInv, Control, TableTrue
<1>27. Counted'
  <2>1. ASSUME NEW g \in Cached'
        PROVE  /\ file'[g].cache # <<>>
               /\ file'[g].pending = Cardinality(LiveOf(g)')
               /\ file'[g].zombie => Resets
    <3>1. g \in Cached /\ g \in Files /\ file'[g] = file[g]
      BY <1>19
    <3>2. LiveOf(g)' = LiveOf(g)
      BY <1>16, <3>1
    <3> QED
      BY <3>1, <3>2 DEF IInv, Control, Counted
  <2> QED
    BY <2>1 DEF Counted
<1>28. RequestsTrue'
  <2>1. \A t \in Requests' : /\ req'[t] = req[t] /\ t \in Requests
                             /\ req[t].file \in Cached'
    <3>1. Requests' \subseteq Socks
      BY DEF Requests
    <3> QED
      BY <1>14, <1>17, <1>18, <3>1 DEF IInv, Control, RequestsTrue
  <2> QED
    BY <1>19, <2>1 DEF IInv, Control, RequestsTrue
<1>29. Control'
  <2>1. Serves(w)' /\ Holds(w)'
    BY <1>15 DEF Serves, Holds, NoSock, NoReq, UsesCurr, UsesArg, Resetting
  <2>2. \A g \in Cached : g \in Cached' \/ Alone
    BY <1>5, <1>18
  <2>3. \A v \in Workers : Serves(v)' /\ Holds(v)'
    BY <1>15, <2>1, <2>2, OthersServe, OthersHold DEF IInv
  <2> QED
    BY <1>26, <1>27, <1>28, <2>3 DEF Control
<1>30. Honest'
  <2>1. \A t \in Requests' : t \in Requests /\ req'[t] = req[t]
    <3>1. Requests' \subseteq Socks
      BY DEF Requests
    <3> QED
      BY <1>14, <3>1
  <2>2. OwnBytes'
    BY <1>11, <1>19, <2>1 DEF IInv, Honest, OwnBytes
  <2> QED
    BY <1>11, <2>2 DEF IInv, Honest
<1> QED
  BY <1>11, <1>24, <1>25, <1>29, <1>30 DEF IInv

LEMMA ResetFreeStep ==
    ASSUME Safe, IInv, NEW w \in Workers, ResetFree(w)
    PROVE  IInv'
<1>1. /\ pc[w] = "drop" /\ arg[w] \in Cached /\ LiveOf(arg[w]) = {} /\ Alone
      /\ \A u \in Uris : table[u] # arg[w]
  <2>1. pc[w] = "drop"
    BY DEF ResetFree
  <2> QED
    BY <2>1, AloneFrees DEF IInv, Control, Holds, UsesArg, Resetting
<1>2. PICK f \in Files : f = arg[w]
  BY <1>1 DEF Cached
<1>3. /\ PipeBufFree(w, PipesOf(f))
      /\ file' = [file EXCEPT ![f] = NULL]
      /\ pc' = [pc EXCEPT ![w] = "idle"] /\ sock' = [sock EXCEPT ![w] = NULL]
      /\ arg' = [arg EXCEPT ![w] = NULL]
      /\ UNCHANGED <<reqpool, table, req>>
  BY <1>2 DEF ResetFree, Return, Goto, Hold
<1>4. /\ f \in Cached /\ LiveOf(f) = {} /\ \A u \in Uris : table[u] # f
  BY <1>1, <1>2
<1>5. /\ PipesOf(f) \in Seq(Bufs) /\ IsInjective(PipesOf(f))
      /\ Range(PipesOf(f)) \subseteq open
      /\ Range(PipesOf(f)) \cap Range(pool[w]) = {}
  BY <1>4, FilesHold
<1>6. PICK closed \in SUBSET Range(PipesOf(f)) :
        /\ pool' \in [Workers -> Seq(Bufs)] /\ IsInjective(pool'[w])
        /\ Len(pool'[w]) <= PoolMax
        /\ \A v \in Workers \ {w} : pool'[v] = pool[v]
        /\ Range(pool'[w]) = Range(pool[w]) \cup (Range(PipesOf(f)) \ closed)
        /\ open' = open \ closed
        /\ mem_used' \in Nat /\ MemUsed'
        /\ UNCHANGED <<fill, data, locked>>
  BY <1>3, <1>5, Freed
<1>7. /\ file'[f] = NULL /\ \A g \in Files \ {f} : file'[g] = file[g]
      /\ file' \in [Files -> CacheFile \cup {NULL}]
  BY <1>3 DEF IInv, Shapes
<1>8. /\ Cached' = Cached \ {f} /\ Requests' = Requests
      /\ \A g \in Cached' : /\ g \in Files \ {f} /\ PipesOf(g)' = PipesOf(g)
                            /\ file'[g] = file[g]
  BY <1>3, <1>4, <1>7 DEF Cached, PipesOf, Requests
<1>9. /\ pc'[w] = "idle" /\ arg'[w] = NULL /\ sock'[w] = NULL
      /\ pc' \in [Workers -> Labels] /\ sock' \in [Workers -> Socks \cup {NULL}]
      /\ arg' \in [Workers -> Uris \cup Files \cup {NULL}]
      /\ StepOf(w)
  BY <1>3 DEF IInv, Shapes, Labels, StepOf
<1>10. \A g \in Files : LiveOf(g)' = LiveOf(g)
  <2>1. pc[w] \notin Ended /\ pc'[w] \notin Ended
    BY <1>1, <1>9 DEF Ended
  <2>2. \A t \in Socks : Over(t)' <=> Over(t)
    BY <1>9, <2>1, OverKept
  <2>3. \A t \in Requests : req'[t].file = req[t].file
    BY <1>3
  <2> QED
    BY <1>8, <2>2, <2>3, LiveKept
\* With nobody else there no request is over.
<1>11. \A t \in Requests : req[t].file # f
  <2> TAKE t \in Requests
  <2>1. t \in Socks /\ WorkerOf[t] \in Workers
    BY PipeBufAssumption DEF Requests
  <2>2. WorkerOf[t] = w
    BY <1>1, <2>1 DEF Alone
  <2>3. ~Over(t)
    BY <1>1, <2>2 DEF Over, Ended
  <2> QED
    BY <1>4, <2>3 DEF LiveOf
<1>12. PlacedOnce'
  <2> DEFINE A == {Pool(w), OfFile(f)}
  <2>1. A \in SUBSET Places /\ Pool(w) # OfFile(f)
    BY PlacesAre DEF Pool, OfFile
  <2>2. ASSUME NEW p \in Places \ A
        PROVE  ListOf(p)' = ListOf(p)
    <3>1. ASSUME NEW v \in Workers, p = Pool(v) \/ p = ReqPool(v)
          PROVE  ListOf(p)' = ListOf(p)
      <4>1. p = Pool(v) => v # w
        BY DEF Pool
      <4> QED
        BY <1>3, <1>6, <3>1, <4>1 DEF ListOf, Pool, ReqPool
    <3>2. ASSUME NEW g \in Files, p = OfFile(g)
          PROVE  ListOf(p)' = ListOf(p)
      <4>1. g # f
        BY <3>2
      <4>2. PipesOf(g)' = PipesOf(g) /\ (g \in Cached' <=> g \in Cached)
        BY <1>7, <4>1 DEF PipesOf, Cached
      <4> QED
        BY <3>2, <4>2 DEF ListOf, OfFile
    <3>3. ASSUME NEW t \in Socks, p = OfReq(t)
          PROVE  ListOf(p)' = ListOf(p)
      BY <1>3, <1>8, <3>3 DEF ListOf, OfReq
    <3> QED
      BY <3>1, <3>2, <3>3, PlacesAre
  <2>3. /\ ListOf(Pool(w)) = pool[w] /\ ListOf(Pool(w))' = pool'[w]
        /\ ListOf(OfFile(f)) = PipesOf(f)
    BY <1>4, ListsAre DEF ListOf, Pool
  <2>4. ListOf(OfFile(f))' = <<>>
    <3>1. f \notin Cached'
      BY <1>8
    <3> QED
      BY <3>1 DEF ListOf, OfFile
  <2>5. IsInjective(ListOf(OfFile(f))') /\ Range(ListOf(OfFile(f))') = {}
    BY <2>4, Nothing
  <2>6. UNION {Range(ListOf(p)') : p \in A} = Range(pool'[w])
    <3>1. UNION {Range(ListOf(p)') : p \in A} =
            Range(ListOf(Pool(w))') \cup Range(ListOf(OfFile(f))')
      OBVIOUS
    <3> QED
      BY <2>3, <2>5, <3>1
  <2>7. UNION {Range(ListOf(p)) : p \in A} = Range(pool[w]) \cup Range(PipesOf(f))
    <3>1. UNION {Range(ListOf(p)) : p \in A} =
            Range(ListOf(Pool(w))) \cup Range(ListOf(OfFile(f)))
      OBVIOUS
    <3> QED
      BY <2>3, <3>1
  <2>8. \A p \in A : IsInjective(ListOf(p)')
    BY <1>6, <2>3, <2>5
  <2>9. \A p, q \in A : p # q => Range(ListOf(p)') \cap Range(ListOf(q)') = {}
    BY <2>5
  <2>10. PICK made : made = {}
    OBVIOUS
  <2> HIDE DEF A
  <2>11. /\ made \cap open = {}
         /\ closed \cap UNION {Range(ListOf(p)') : p \in A} = {}
         /\ closed \cup UNION {Range(ListOf(p)') : p \in A} =
              made \cup UNION {Range(ListOf(p)) : p \in A}
         /\ open' = (open \cup made) \ closed
    BY <1>5, <1>6, <2>6, <2>7, <2>10
  <2> QED
    BY <2>1, <2>2, <2>8, <2>9, <2>11, Redistribute DEF IInv
<1>13. Shapes'
  BY <1>3, <1>6, <1>7, <1>9 DEF IInv, Shapes
<1>14. TableTrue'
  BY <1>3, <1>4, <1>8 DEF IInv, Control, TableTrue
<1>15. Counted'
  <2>1. ASSUME NEW g \in Cached'
        PROVE  /\ file'[g].cache # <<>>
               /\ file'[g].pending = Cardinality(LiveOf(g)')
               /\ file'[g].zombie => Resets
    <3>1. g \in Cached /\ g \in Files /\ file'[g] = file[g]
      BY <1>8
    <3>2. LiveOf(g)' = LiveOf(g)
      BY <1>10, <3>1
    <3> QED
      BY <3>1, <3>2 DEF IInv, Control, Counted
  <2> QED
    BY <2>1 DEF Counted
<1>16. RequestsTrue'
  BY <1>3, <1>8, <1>11 DEF IInv, Control, RequestsTrue
<1>17. Control'
  <2>1. Serves(w)' /\ Holds(w)'
    BY <1>9 DEF Serves, Holds, NoSock, NoReq, UsesCurr, UsesArg, Resetting
  <2>2. \A v \in Workers : Serves(v)' /\ Holds(v)'
    BY <1>1, <1>9, <2>1, OthersServe, OthersHold DEF IInv
  <2> QED
    BY <1>14, <1>15, <1>16, <2>2 DEF Control
<1>18. Honest'
  <2>1. OwnBytes'
    BY <1>3, <1>6, <1>8 DEF IInv, Honest, OwnBytes
  <2> QED
    BY <1>6, <2>1 DEF IInv, Honest
<1> QED
  BY <1>6, <1>12, <1>13, <1>17, <1>18 DEF IInv

(***************************************************************************)
(* The invariant holds.                                                    *)
(***************************************************************************)

LEMMA InitHolds == Init => IInv
<1> SUFFICES ASSUME Init
             PROVE  IInv
  OBVIOUS
<1> USE DEF Init
<1>1. Requests = {} /\ Cached = {}
  BY DEF Requests, Cached
<1>2. Shapes
  <2>1. <<>> \in Seq(Bufs) /\ Len(<<>>) = 0
    BY Nothing
  <2>2. pool \in [Workers -> Seq(Bufs)] /\ reqpool \in [Workers -> Seq(Bufs)]
        /\ \A w \in Workers : pool[w] = <<>> /\ reqpool[w] = <<>>
    BY <2>1
  <2>3. \A w \in Workers : Len(pool[w]) <= PoolMax /\ Len(reqpool[w]) <= ReqPoolMax
    BY <2>1, <2>2, PipeBufAssumption
  <2>4. /\ fill \in [Bufs -> Fills] /\ pc \in [Workers -> Labels]
    BY DEF Fills, Labels
  <2> QED
    BY <2>2, <2>3, <2>4 DEF Shapes
<1>3. Control
  <2>1. TableTrue /\ Counted /\ RequestsTrue
    BY <1>1 DEF TableTrue, Counted, RequestsTrue
  <2>2. \A w \in Workers : Serves(w) /\ Holds(w)
    BY DEF Serves, Holds, NoSock, NoReq, UsesCurr, UsesArg, Resetting
  <2> QED
    BY <2>1, <2>2 DEF Control
<1>4. Honest
  BY <1>1 DEF Honest, OwnBytes
<1>5. MemUsed
  BY FS_EmptySet DEF MemUsed
<1>6. PlacedOnce
  <2>1. ASSUME NEW p \in Places
        PROVE  ListOf(p) = <<>>
    <3>1. Requests = {} /\ Cached = {}
          /\ \A w \in Workers : pool[w] = <<>> /\ reqpool[w] = <<>>
      BY <1>1
    <3> QED
      BY <3>1, PlacesAre, ListsAre
  <2>2. Apart
    BY <2>1, Nothing DEF Apart
  <2> QED
    BY <2>2, PlacedApart
<1> QED
  BY <1>2, <1>3, <1>4, <1>5, <1>6 DEF IInv

LEMMA StepHolds ==
    ASSUME Safe, IInv, [Next]_vars
    PROVE  IInv'
<1>1. CASE UNCHANGED vars
  BY <1>1, Still DEF vars
<1>2. ASSUME NEW w \in Workers, Event(w)
      PROVE  IInv'
  BY <1>2, EventStep, LookupStep, ResetStep DEF Event
<1>3. ASSUME NEW w \in Workers, NEW f \in Files, NEW n \in Lengths, Make(w, f, n)
      PROVE  IInv'
  BY <1>3, MakeStep
<1>4. ASSUME NEW w \in Workers, Step(w)
      PROVE  IInv'
  BY <1>3, <1>4, CountStep, FillStep, SpliceStep, HeadersStep, TeeStep, WaitStep,
     SendStep, EndReqStep, EndTestStep, EndFreeStep, ResetMarkStep,
     ResetTestStep, ResetFreeStep DEF Step
<1> QED
  BY <1>1, <1>2, <1>4, ShrinkStep DEF Next

(***************************************************************************)
(* The locks: who waits for the lock of a pipe that has been filled.       *)
(***************************************************************************)

Splices(v) == pc[v] \in {"earlysplice", "splice"}

\* With two workers at most, a pipe of a whole file that one is about to fill
\* has been filled once at most, and not while the other is about to as well.
LocksSafe ==
    \A v \in Workers : Splices(v) /\ File(v).whole =>
      /\ fill[Curr(v)] # "over"
      /\ \A u \in Workers \ {v} : Splices(u) /\ Curr(u) = Curr(v) =>
           fill[Curr(v)] # "full"

\* The pipe that v is about to fill is in one file, in one place.
LEMMA SplicesAt ==
    ASSUME IInv, NEW v \in Workers, Splices(v)
    PROVE  /\ pc[v] \notin NoSock \cup NoReq \cup Ended
           /\ sock[v] \in Socks /\ sock[v] \in Requests /\ WorkerOf[sock[v]] = v
           /\ Req(v) = req[sock[v]] /\ Req(v).file \in Cached
           /\ File(v) = file[Req(v).file] /\ Curr(v) \in Bufs
           /\ \A u \in Workers : Splices(u) /\ Curr(u) = Curr(v) =>
                Req(u).file = Req(v).file
           /\ \A w \in Workers : pc[w] \notin NoSock \cup NoReq =>
                Curr(v) # Req(w).buf /\ Curr(v) # File(w).headers
<1>1. \A u \in Workers : Splices(u) => pc[u] \notin NoSock \cup NoReq \cup Ended
                                       /\ pc[u] \in UsesCurr
  BY DEF Splices, NoSock, NoReq, Ended, UsesCurr
<1>2. \A u \in Workers : Splices(u) => /\ Req(u).file \in Cached
                                       /\ Curr(u) \in Range(PipesOf(Req(u).file))
  BY <1>1, Handler
<1>3. /\ sock[v] \in Socks /\ sock[v] \in Requests /\ WorkerOf[sock[v]] = v
      /\ Req(v) = req[sock[v]] /\ Req(v).file \in Cached
      /\ File(v) = file[Req(v).file] /\ Curr(v) \in Bufs
      /\ Req(v).curr \in 1 .. Len(File(v).cache) /\ File(v) \in CacheFile
  BY <1>1, Handler
<1>4. \A u \in Workers : Splices(u) /\ Curr(u) = Curr(v) => Req(u).file = Req(v).file
  BY <1>2, FilesHold
<1>5. ASSUME NEW w \in Workers, pc[w] \notin NoSock \cup NoReq
      PROVE  Curr(v) # Req(w).buf /\ Curr(v) # File(w).headers
  <2>1. /\ sock[w] \in Requests /\ Req(w) = req[sock[w]]
        /\ Req(w).file \in Cached /\ File(w) = file[Req(w).file]
        /\ File(w).headers \in Range(PipesOf(Req(w).file))
    BY <1>5, Handler
  <2>2. Curr(v) # Req(w).buf
    BY <1>2, <2>1, FilesHold
  <2>3. CASE Req(w).file # Req(v).file
    BY <1>2, <2>1, <2>2, <2>3, FilesHold
  <2>4. CASE Req(w).file = Req(v).file
    <3> DEFINE h == <<File(v).headers>>
               c == File(v).cache
               i == Req(v).curr
               p == PipesOf(Req(v).file)
    <3>1. /\ h \in Seq(Bufs) /\ Len(h) = 1 /\ h[1] = File(v).headers
          /\ c \in Seq(Bufs) /\ p = h \o c /\ Curr(v) = c[i]
      BY <1>3 DEF CacheFile, PipesOf, Curr
    <3>2. i \in 1 .. Len(c) /\ Len(c) \in Nat
      BY <1>3, <3>1, LenProperties
    <3> HIDE DEF h, c, i
    <3>3. IsInjective(p) /\ p \in Seq(Bufs)
      BY <1>3, FilesHold
    <3>4. /\ Len(h \o c) = Len(h) + Len(c)
          /\ \A j \in 1 .. Len(h) + Len(c) :
               (h \o c)[j] = IF j <= Len(h) THEN h[j] ELSE c[j - Len(h)]
      BY <3>1, ConcatProperties
    <3>5. /\ 1 \in DOMAIN p /\ i + 1 \in DOMAIN p /\ i + 1 # 1
          /\ p[1] = h[1] /\ p[i + 1] = c[i]
      <4>1. /\ 1 \in 1 .. 1 + Len(c) /\ i + 1 \in 1 .. 1 + Len(c) /\ i + 1 # 1
            /\ 1 <= 1 /\ ~(i + 1 <= 1) /\ i + 1 - 1 = i
        BY <3>2
      <4>2. DOMAIN p = 1 .. 1 + Len(c)
        BY <3>1, <3>3, <3>4, LenProperties
      <4>3. p[1] = h[1]
        BY <3>1, <3>4, <4>1
      <4>4. p[i + 1] = c[i]
        <5>1. PICK j \in 1 .. 1 + Len(c) : j = i + 1 /\ ~(j <= 1) /\ j - 1 = i
          BY <3>2
        <5>2. p[j] = c[j - 1]
          BY <3>1, <3>4, <5>1
        <5> QED
          BY <5>1, <5>2
      <4> QED
        BY <4>1, <4>2, <4>3, <4>4
    <3>6. c[i] # h[1]
      <4> HIDE DEF p
      <4>1. p[1] # p[i + 1]
        BY <3>3, <3>5 DEF IsInjective
      <4> QED
        BY <3>5, <4>1
    <3> QED
      BY <2>1, <2>2, <2>4, <1>3, <3>1, <3>6
  <2> QED
    BY <2>3, <2>4
<1> QED
  BY <1>1, <1>3, <1>4, <1>5

\* What another worker is about to fill it fills later.
FilesStay ==
    \A f \in Cached : f \in Cached' => /\ file'[f].cache = file[f].cache
                                       /\ file'[f].whole => file[f].whole
LEMMA StillAt ==
    ASSUME IInv, IInv', FilesStay, NEW v \in Workers, Splices(v),
           pc'[v] = pc[v], sock'[v] = sock[v], req'[sock[v]] = req[sock[v]]
    PROVE  /\ Splices(v)' /\ Curr(v)' = Curr(v) /\ (Req(v).file)' = Req(v).file
           /\ (File(v).whole)' => File(v).whole
<1>1. /\ sock[v] \in Requests /\ Req(v) = req[sock[v]] /\ Req(v).file \in Cached
      /\ File(v) = file[Req(v).file]
  BY SplicesAt
<1>2. Req(v)' = Req(v) /\ Splices(v)'
  BY <1>1 DEF Req, Splices
<1>3. sock'[v] \in Requests'
  BY <1>1 DEF Requests
<1>4. Req(v).file \in Cached'
  BY <1>1, <1>3 DEF IInv, Control, RequestsTrue
<1> QED
  BY <1>1, <1>2, <1>4 DEF FilesStay, File, Curr

\* A step of w leaves the others, and their files, where they are.
LEMMA StepsAre ==
    ASSUME IInv, NEW w \in Workers, Event(w) \/ Step(w)
    PROVE  StepOf(w) /\ FilesStay
<1>1. /\ pc \in [Workers -> Labels] /\ sock \in [Workers -> Socks \cup {NULL}]
      /\ arg \in [Workers -> Uris \cup Files \cup {NULL}]
      /\ file \in [Files -> CacheFile \cup {NULL}]
      /\ req \in [Socks -> CacheReq \cup {NULL}]
      /\ \A f \in Cached : f \in Files /\ file[f] \in CacheFile
  BY RecordsAre DEF IInv, Shapes
<1>2. ASSUME UNCHANGED <<file, req>>,
             \A v \in Workers \ {w} : /\ pc'[v] = pc[v] /\ sock'[v] = sock[v]
                                      /\ arg'[v] = arg[v]
      PROVE  StepOf(w) /\ FilesStay
  BY <1>2 DEF StepOf, FilesStay
<1>3. CASE Event(w)
  <2>1. ASSUME NEW s \in Socks, EventWrite(w, s) \/ EventDrop(w, s)
        PROVE  StepOf(w) /\ FilesStay
    BY <1>1, <1>2, <2>1 DEF EventWrite, EventDrop, Enter, Goto, files
  <2>2. ASSUME NEW s \in Socks, NEW u \in Uris, Lookup(w, s, u)
        PROVE  StepOf(w) /\ FilesStay
    BY <1>1, <1>2, <2>2 DEF Lookup, Enter, Goto, Hold, files
  <2>3. ASSUME NEW u \in Uris, Reset(w, u)
        PROVE  StepOf(w) /\ FilesStay
    BY <1>1, <1>2, <2>3 DEF Reset, Goto, Hold
  <2> QED
    BY <1>3, <2>1, <2>2, <2>3 DEF Event
<1>4. ASSUME Abort
      PROVE  StepOf(w) /\ FilesStay
  BY <1>2, <1>4 DEF Abort, files, at
<1>5. ASSUME NEW f \in Files, NEW n \in Lengths, Make(w, f, n)
      PROVE  StepOf(w) /\ FilesStay
  <2>1. CASE Abort
    BY <1>4, <2>1
  <2>2. CASE ~Abort
    <3>1. /\ UNCHANGED <<req, sock>> /\ f \notin Cached
          /\ \A v \in Workers \ {w} : pc'[v] = pc[v] /\ arg'[v] = arg[v]
          /\ \A g \in Files \ {f} : file'[g] = file[g]
      BY <1>1, <1>5, <2>2 DEF Make, Goto, Hold, Cached
    <3> QED
      BY <1>1, <3>1 DEF StepOf, FilesStay
  <2> QED
    BY <2>1, <2>2
<1>6. CASE Count(w)
  <2>1. CASE Abort
    BY <1>4, <2>1
  <2>2. CASE ~Abort
    <3>1. pc[w] = "count" /\ arg[w] \in Cached /\ WorkerOf[sock[w]] = w
      BY <1>6 DEF Count, IInv, Control, Serves, Holds, NoSock, NoReq, UsesArg
    <3>2. PICK f \in Cached : file' = [file EXCEPT ![f].pending = @ + 1]
      BY <1>6, <2>2, <3>1 DEF Count
    <3>3. /\ sock' = sock
          /\ \A v \in Workers \ {w} : pc'[v] = pc[v] /\ arg'[v] = arg[v]
      BY <1>1, <1>6, <2>2 DEF Count, Goto, Hold
    <3>4. FilesStay
      <4> DEFINE n == file[f].pending + 1
      <4>1. \A g \in Files \ {f} : file'[g] = file[g]
        BY <1>1, <3>2
      <4>2. file'[f] = [file[f] EXCEPT !.pending = n]
        BY <1>1, <3>2, Zenon
      <4> HIDE DEF n
      <4>3. file'[f].cache = file[f].cache /\ file'[f].whole = file[f].whole
        BY <1>1, <4>2 DEF CacheFile
      <4> QED
        BY <1>1, <4>1, <4>3 DEF FilesStay
    <3>5. \A s \in Socks : WorkerOf[s] # w => req'[s] = req[s]
      <4>1. PICK r : req' = [req EXCEPT ![sock[w]] = r]
        BY <1>6, <2>2 DEF Count
      <4> QED
        BY <1>1, <3>1, <4>1
    <3> QED
      BY <3>3, <3>4, <3>5 DEF StepOf
  <2> QED
    BY <2>1, <2>2
<1>7. CASE Fill(w)
  BY <1>1, <1>2, <1>7 DEF Fill, FillReturns, Goto, files
<1>8. ASSUME NEW filled, NEW kept, Vmsplice(w, filled, kept)
      PROVE  StepOf(w) /\ FilesStay
  BY <1>1, <1>2, <1>8 DEF Vmsplice, FillReturns, Goto, files
<1>9. CASE VmspliceAll(w) \/ VmspliceTwice(w) \/ VmspliceCut(w) \/ VmspliceFails(w)
  BY <1>8, <1>9 DEF VmspliceAll, VmspliceTwice, VmspliceCut, VmspliceFails
<1>10. CASE Headers(w)
  BY <1>1, <1>2, <1>10 DEF Headers, Goto, files
<1>11. CASE TeeCurr(w)
  <2>1. WorkerOf[sock[w]] = w
    BY <1>11, Handler DEF TeeCurr, NoSock, NoReq
  <2>2. PICK r : req' = [req EXCEPT ![sock[w]] = r]
    BY <1>11 DEF TeeCurr
  <2>3. /\ sock' = sock /\ arg' = arg /\ file' = file
        /\ \A v \in Workers \ {w} : pc'[v] = pc[v]
    BY <1>1, <1>11 DEF TeeCurr, Goto, files
  <2> QED
    BY <1>1, <2>1, <2>2, <2>3 DEF StepOf, FilesStay
<1>12. CASE MakeFails(w) \/ SendWaits(w) \/ SendFails(w) \/ SendAll(w)
  BY <1>1, <1>2, <1>12
     DEF MakeFails, SendWaits, SendFails, SendAll, Return, Hold, Goto, files
<1>13. CASE EndTest(w) \/ ResetTest(w)
  BY <1>1, <1>2, <1>13 DEF EndTest, ResetTest, Return, Hold, Goto, files
<1>14. CASE EndReq(w)
  <2>1. Req(w).file \in Cached
    BY <1>14, Handler DEF EndReq, NoSock, NoReq
  <2>2. PICK f \in Cached : file' = [file EXCEPT ![f].pending = @ - 1]
    BY <1>14, <2>1 DEF EndReq
  <2> DEFINE n == file[f].pending - 1
  <2>3. file'[f] = [file[f] EXCEPT !.pending = n]
    BY <1>1, <2>2, Zenon
  <2>4. \A g \in Files \ {f} : file'[g] = file[g]
    BY <1>1, <2>2
  <2> HIDE DEF n
  <2>5. file'[f].cache = file[f].cache /\ file'[f].whole = file[f].whole
    BY <1>1, <2>3 DEF CacheFile
  <2>6. /\ UNCHANGED <<req, sock, arg>> /\ \A v \in Workers \ {w} : pc'[v] = pc[v]
    BY <1>1, <1>14 DEF EndReq, Goto
  <2> QED
    BY <1>1, <2>4, <2>5, <2>6 DEF StepOf, FilesStay
<1>15. CASE EndFree(w)
  <2>1. WorkerOf[sock[w]] = w
    BY <1>15, Handler DEF EndFree, NoSock, NoReq
  <2>2. /\ \A v \in Workers \ {w} : pc'[v] = pc[v] /\ sock'[v] = sock[v] /\ arg'[v] = arg[v]
        /\ req' = [req EXCEPT ![sock[w]] = NULL]
    BY <1>1, <1>15 DEF EndFree, Return, Hold, Goto
  <2>3. \A f \in Files : file'[f] = file[f] \/ file'[f] = NULL
    BY <1>1, <1>15 DEF EndFree
  <2> QED
    BY <1>1, <2>1, <2>2, <2>3 DEF StepOf, FilesStay, Cached
<1>16. CASE ResetMark(w)
  <2>1. arg[w] \in Cached
    BY <1>16 DEF ResetMark, IInv, Control, Holds, UsesArg
  <2>2. PICK f \in Cached : file' = [file EXCEPT ![f].zombie = TRUE]
    BY <1>16, <2>1 DEF ResetMark
  <2>3. file'[f] = [file[f] EXCEPT !.zombie = TRUE]
    BY <1>1, <2>2, Zenon
  <2>4. \A g \in Files \ {f} : file'[g] = file[g]
    BY <1>1, <2>2
  <2>5. file'[f].cache = file[f].cache /\ file'[f].whole = file[f].whole
    BY <1>1, <2>3 DEF CacheFile
  <2>6. /\ UNCHANGED <<req, sock, arg>> /\ \A v \in Workers \ {w} : pc'[v] = pc[v]
    BY <1>1, <1>16 DEF ResetMark, Goto
  <2> QED
    BY <1>1, <2>4, <2>5, <2>6 DEF StepOf, FilesStay
<1>17. CASE ResetFree(w)
  <2>1. \A f \in Files : file'[f] = file[f] \/ file'[f] = NULL
    BY <1>1, <1>17 DEF ResetFree
  <2>2. /\ req' = req
        /\ \A v \in Workers \ {w} : pc'[v] = pc[v] /\ sock'[v] = sock[v] /\ arg'[v] = arg[v]
    BY <1>1, <1>17 DEF ResetFree, Return, Hold, Goto
  <2> QED
    BY <1>1, <2>1, <2>2 DEF StepOf, FilesStay, Cached
<1> QED
  BY <1>3, <1>5, <1>6, <1>7, <1>9, <1>10, <1>11, <1>12, <1>13, <1>14, <1>15,
     <1>16, <1>17 DEF Event, Step

LEMMA LocksKept ==
    ASSUME LocksSafe,
           \A v \in Workers : Splices(v)' =>
             \/ (fill[Curr(v)])' = "empty"
             \/ /\ Splices(v) /\ Curr(v)' = Curr(v)
                /\ (File(v).whole)' => File(v).whole
                /\ fill'[Curr(v)] \in {fill[Curr(v)], "empty"}
    PROVE  LocksSafe'
<1> SUFFICES ASSUME NEW v \in Workers, Splices(v)', (File(v).whole)'
             PROVE  /\ (fill[Curr(v)])' # "over"
                    /\ \A u \in Workers \ {v} :
                         Splices(u)' /\ Curr(u)' = Curr(v)' =>
                           (fill[Curr(v)])' # "full"
  BY DEF LocksSafe
<1>1. CASE (fill[Curr(v)])' = "empty"
  BY <1>1
<1>2. CASE (fill[Curr(v)])' # "empty"
  <2>1. /\ Splices(v) /\ Curr(v)' = Curr(v) /\ File(v).whole
        /\ (fill[Curr(v)])' = fill[Curr(v)]
    BY <1>2
  <2>2. ASSUME NEW u \in Workers \ {v}, Splices(u)', Curr(u)' = Curr(v)'
        PROVE  Splices(u) /\ Curr(u) = Curr(v)
    <3>1. (fill[Curr(u)])' # "empty"
      BY <1>2, <2>2
    <3> QED
      BY <2>1, <2>2, <3>1
  <2> QED
    BY <2>1, <2>2 DEF LocksSafe
<1> QED
  BY <1>1, <1>2

\* The only way to the lock of a pipe is to find it empty.
LEMMA Reaches ==
    ASSUME IInv, NEW w \in Workers, Event(w) \/ Step(w), Splices(w)'
    PROVE  (fill[Curr(w)])' = "empty"
<1>1. pc \in [Workers -> Labels]
  BY DEF IInv, Shapes
<1>2. ASSUME NEW l, pc' = [pc EXCEPT ![w] = l]
      PROVE  l \in {"earlysplice", "splice"}
  BY <1>1, <1>2 DEF Splices
<1>3. ~Abort \/ Splices(w)
  BY DEF Abort, at, Splices
<1>4. ~Event(w)
  BY <1>2 DEF Event, EventWrite, EventDrop, Lookup, Reset, Enter, Goto, Loop
<1>5. ASSUME NEW f \in Files, NEW n \in Lengths, Make(w, f, n)
      PROVE  FALSE
  BY <1>2, <1>3, <1>5 DEF Make, Goto, Splices
<1>6. ~Count(w)
  BY <1>2, <1>3 DEF Count, Goto, Splices
<1>7. ASSUME NEW filled, NEW kept, Vmsplice(w, filled, kept)
      PROVE  FALSE
  <2>1. pc' = [pc EXCEPT ![w] = "headers"] \/ pc' = [pc EXCEPT ![w] = "tee"]
          \/ pc' = [pc EXCEPT ![w] = "send"]
    BY <1>7 DEF Vmsplice, FillReturns, Goto
  <2> QED
    BY <1>2, <2>1
<1>8. ~(VmspliceAll(w) \/ VmspliceTwice(w) \/ VmspliceCut(w) \/ VmspliceFails(w))
  <2>1. ~(VmspliceAll(w) \/ VmspliceCut(w) \/ VmspliceFails(w))
    BY <1>7 DEF VmspliceAll, VmspliceCut, VmspliceFails
  <2>2. ~VmspliceTwice(w)
    BY <1>7 DEF VmspliceTwice
  <2> QED
    BY <2>1, <2>2
<1>9. ~(Headers(w) \/ TeeCurr(w))
  <2>1. ~Headers(w)
    BY <1>2 DEF Headers, Goto, Loop
  <2>2. ~TeeCurr(w)
    BY <1>2 DEF TeeCurr, Goto
  <2> QED
    BY <2>1, <2>2
<1>10. ~(MakeFails(w) \/ SendWaits(w) \/ SendFails(w) \/ SendAll(w))
  <2>1. ~(MakeFails(w) \/ SendWaits(w))
    BY <1>2 DEF MakeFails, SendWaits, Return, Goto
  <2>2. ~(SendFails(w) \/ SendAll(w))
    BY <1>2 DEF SendFails, SendAll, Goto
  <2> QED
    BY <2>1, <2>2
<1>11. ~(EndReq(w) \/ EndTest(w) \/ EndFree(w))
  <2>1. ~(EndReq(w) \/ EndTest(w))
    BY <1>2 DEF EndReq, EndTest, Goto
  <2>2. ~EndFree(w)
    BY <1>2 DEF EndFree, Return, Goto
  <2> QED
    BY <2>1, <2>2
<1>12. ~(ResetMark(w) \/ ResetTest(w) \/ ResetFree(w))
  <2>1. ~(ResetMark(w) \/ ResetTest(w))
    BY <1>2 DEF ResetMark, ResetTest, Return, Goto
  <2>2. ~ResetFree(w)
    BY <1>2 DEF ResetFree, Return, Goto
  <2> QED
    BY <2>1, <2>2
<1>13. Fill(w)
  BY <1>4, <1>5, <1>6, <1>8, <1>9, <1>10, <1>11, <1>12 DEF Step
<1>14. /\ Curr(w)' = Curr(w) /\ fill' = fill
  BY <1>13 DEF Fill, Curr, File, Req, pipes, files
<1>15. CASE fill[Curr(w)] = "empty"
  BY <1>14, <1>15
<1>16. CASE fill[Curr(w)] # "empty"
  BY <1>2, <1>13, <1>16 DEF Fill, FillReturns, Goto
<1> QED
  BY <1>15, <1>16

\* What others are about to fill is filled by who has its lock.
Refills(w) == VmspliceAll(w) \/ VmspliceTwice(w) \/ VmspliceCut(w)
LEMMA OthersFill ==
    ASSUME IInv, NEW w \in Workers, Event(w) \/ Step(w), ~Refills(w),
           NEW v \in Workers \ {w}, Splices(v)
    PROVE  fill'[Curr(v)] \in {fill[Curr(v)], "empty"}
<1>1. /\ fill \in [Bufs -> Fills] /\ Curr(v) \in Bufs
  BY SplicesAt DEF IInv, Shapes
<1>2. \A u \in Workers : pc[u] \notin NoSock \cup NoReq =>
        Curr(v) # Req(u).buf /\ Curr(v) # File(u).headers
  BY SplicesAt
<1>3. ASSUME NEW bs, NEW kept, Obtain(w, bs, kept)
      PROVE  fill'[Curr(v)] \in {fill[Curr(v)], "empty"}
  BY <1>1, <1>3 DEF Obtain
<1>4. Abort => fill' = fill
  BY DEF Abort, pipes
<1>5. Event(w) => fill' = fill
  BY DEF Event, EventWrite, EventDrop, Lookup, Reset, pipes
<1>6. ASSUME NEW f \in Files, NEW n \in Lengths, Make(w, f, n)
      PROVE  fill'[Curr(v)] \in {fill[Curr(v)], "empty"}
  BY <1>3, <1>4, <1>6 DEF Make
<1>7. CASE Count(w)
  BY <1>3, <1>4, <1>7 DEF Count
<1>8. VmspliceFails(w) => fill' = fill
  <2>1. VmspliceFails(w) => fill' = [fill EXCEPT ![Curr(w)] = fill[Curr(w)]]
    BY DEF VmspliceFails, Vmsplice
  <2> QED
    BY <1>1, <2>1
<1>9. CASE Headers(w) \/ TeeCurr(w) \/ SendAll(w)
  <2>1. Curr(v) # Req(w).buf /\ Curr(v) # File(w).headers
    BY <1>2, <1>9 DEF Headers, TeeCurr, SendAll, NoSock, NoReq
  <2> QED
    BY <1>1, <1>9, <2>1 DEF Headers, TeeCurr, SendAll
<1>10. MakeFails(w) \/ Fill(w) \/ SendWaits(w) \/ SendFails(w) => fill' = fill
  BY DEF MakeFails, Fill, SendWaits, SendFails, pipes
<1>11. EndReq(w) \/ EndTest(w) \/ EndFree(w) => fill' = fill
  BY DEF EndReq, EndTest, EndFree, PipeBufFree, pipes
<1>12. ResetMark(w) \/ ResetTest(w) \/ ResetFree(w) => fill' = fill
  BY DEF ResetMark, ResetTest, ResetFree, PipeBufFree, pipes
<1> QED
  BY <1>5, <1>6, <1>7, <1>8, <1>9, <1>10, <1>11, <1>12 DEF Step, Refills

LEMMA LocksStep ==
    ASSUME Safe, \A t, u, v \in Workers : t = u \/ t = v \/ u = v,
           IInv, LocksSafe, [Next]_vars
    PROVE  LocksSafe'
<1>1. IInv'
  BY StepHolds
<1>2. CASE UNCHANGED vars
  BY <1>2 DEF vars, pipes, files, at, LocksSafe, Splices, Curr, File, Req
<1>3. ASSUME NEW f \in Files, Shrink(f)
      PROVE  LocksSafe'
  <2>1. /\ f \in Cached /\ file' = [file EXCEPT ![f].whole = FALSE]
        /\ UNCHANGED <<pipes, req, at>> /\ file \in [Files -> CacheFile \cup {NULL}]
        /\ file[f] \in CacheFile
    BY <1>3, RecordsAre DEF Shrink, Cached, IInv, Shapes
  <2>2. file'[f] = [file[f] EXCEPT !.whole = FALSE]
    BY <2>1, Zenon
  <2>3. file'[f].cache = file[f].cache /\ ~file'[f].whole
    BY <2>1, <2>2 DEF CacheFile
  <2>4. FilesStay
    BY <2>1, <2>3 DEF FilesStay, Cached
  <2>5. ASSUME NEW v \in Workers, Splices(v)'
        PROVE  /\ Splices(v) /\ Curr(v)' = Curr(v)
               /\ (File(v).whole)' => File(v).whole
               /\ fill'[Curr(v)] = fill[Curr(v)]
    <3>1. pc' = pc /\ sock' = sock /\ req' = req /\ fill' = fill
      BY <2>1 DEF pipes, at
    <3>2. Splices(v)
      BY <2>5, <3>1 DEF Splices
    <3> QED
      BY <1>1, <2>4, <3>1, <3>2, StillAt
  <2> QED
    BY <2>5, LocksKept
<1>4. ASSUME NEW w \in Workers, Event(w) \/ Step(w)
      PROVE  LocksSafe'
  <2>1. StepOf(w) /\ FilesStay
    BY <1>4, StepsAre
  <2>2. ASSUME NEW v \in Workers \ {w}, Splices(v)'
        PROVE  /\ Splices(v) /\ Curr(v)' = Curr(v) /\ (Req(v).file)' = Req(v).file
               /\ (File(v).whole)' => File(v).whole
    <3>1. pc'[v] = pc[v] /\ sock'[v] = sock[v]
      BY <2>1 DEF StepOf
    <3>2. Splices(v)
      BY <2>2, <3>1 DEF Splices
    <3>3. req'[sock[v]] = req[sock[v]]
      BY <2>1, <3>2, SplicesAt DEF StepOf
    <3> QED
      BY <1>1, <2>1, <3>1, <3>2, <3>3, StillAt
  <2>3. Splices(w)' => (fill[Curr(w)])' = "empty"
    BY <1>4, Reaches
  <2>4. CASE ~Refills(w)
    <3>1. ASSUME NEW v \in Workers \ {w}, Splices(v)'
          PROVE  fill'[Curr(v)] \in {fill[Curr(v)], "empty"}
      BY <1>4, <2>2, <2>4, <3>1, OthersFill
    <3> QED
      BY <2>2, <2>3, <3>1, LocksKept
\* w is through with the pipe.
  <2>5. CASE Refills(w)
    <3>1. /\ Splices(w) /\ fill \in [Bufs -> Fills] /\ Curr(w) \in Bufs
      BY <2>5, SplicesAt
         DEF Refills, VmspliceAll, VmspliceTwice, VmspliceCut, Locks, Splices,
             IInv, Shapes
    <3>2. PICK filled \in {"full", "over"} :
            /\ fill' = [fill EXCEPT ![Curr(w)] = filled]
            /\ filled = "over" => fill[Curr(w)] # "empty" \/ ~File(w).whole
      BY <2>5 DEF Refills, VmspliceAll, VmspliceTwice, VmspliceCut, Vmsplice
    <3>3. ~Splices(w)'
      <4>1. \E to, kept : Vmsplice(w, to, kept)
        BY <2>5 DEF Refills, VmspliceAll, VmspliceTwice, VmspliceCut
      <4>2. pc' = [pc EXCEPT ![w] = "headers"] \/ pc' = [pc EXCEPT ![w] = "tee"]
              \/ pc' = [pc EXCEPT ![w] = "send"]
        BY <4>1 DEF Vmsplice, FillReturns, Goto
      <4> QED
        BY <4>2 DEF Splices, IInv, Shapes
    <3>4. SUFFICES ASSUME NEW v \in Workers, Splices(v)', (File(v).whole)'
                   PROVE  /\ (fill[Curr(v)])' # "over"
                          /\ \A u \in Workers \ {v} :
                               Splices(u)' /\ Curr(u)' = Curr(v)' =>
                                 (fill[Curr(v)])' # "full"
      BY DEF LocksSafe
    <3>5. v \in Workers \ {w}
      BY <3>3, <3>4
    <3>6. \A u \in Workers \ {v} : ~Splices(u)'
      BY <3>3, <3>5
    <3>7. /\ Splices(v) /\ Curr(v)' = Curr(v) /\ File(v).whole
      BY <2>2, <3>4, <3>5
    <3>8. CASE Curr(v) # Curr(w)
      <4>1. fill'[Curr(v)] = fill[Curr(v)]
        BY <3>1, <3>2, <3>7, <3>8, SplicesAt
      <4> QED
        BY <3>6, <3>7, <4>1 DEF LocksSafe
    <3>9. CASE Curr(v) = Curr(w)
      <4>1. File(v) = File(w)
        BY <3>1, <3>7, <3>9, SplicesAt
      <4>2. fill[Curr(w)] \notin {"full", "over"}
        BY <3>1, <3>5, <3>7, <3>9 DEF LocksSafe
      <4>3. fill[Curr(w)] = "empty"
        BY <3>1, <4>2 DEF Fills
      <4>4. filled # "over"
        BY <3>2, <3>7, <4>1, <4>3
      <4>5. (fill[Curr(v)])' = filled
        BY <3>1, <3>2, <3>7, <3>9
      <4> QED
        BY <3>6, <4>4, <4>5
    <3> QED
      BY <3>8, <3>9
  <2> QED
    BY <2>4, <2>5
<1> QED
  BY <1>2, <1>3, <1>4 DEF Next

\* Who leaves a lock behind.
LEMMA LeftBehind ==
    ASSUME IInv, LocksSafe, [Next]_vars, NEW b \in Bufs, locked'[b], ~locked[b]
    PROVE  \E w \in Workers : Locks(w) /\ Curr(w) = b /\ ~File(w).whole
<1>1. locked \in [Bufs -> BOOLEAN]
  BY DEF IInv, Shapes
<1>2. locked' # locked
  OBVIOUS
<1>3. ~UNCHANGED vars /\ ~Abort /\ \A f \in Files : ~Shrink(f)
  BY <1>2 DEF vars, Abort, Shrink, pipes
<1>4. ASSUME NEW w \in Workers
      PROVE  ~Event(w)
  BY <1>2 DEF Event, EventWrite, EventDrop, Lookup, Reset, pipes
<1>5. PICK w \in Workers : Step(w)
  BY <1>3, <1>4 DEF Next
<1>6. ASSUME NEW bs, NEW kept, Obtain(w, bs, kept)
      PROVE  FALSE
  BY <1>6 DEF Obtain
<1>7. ASSUME NEW f \in Files, NEW n \in Lengths, Make(w, f, n)
      PROVE  FALSE
  BY <1>3, <1>6, <1>7 DEF Make
<1>8. ~Count(w)
  BY <1>3, <1>6 DEF Count
<1>9. ~(MakeFails(w) \/ Fill(w) \/ Headers(w) \/ TeeCurr(w) \/ SendWaits(w)
          \/ SendFails(w) \/ SendAll(w))
  BY <1>2 DEF MakeFails, Fill, Headers, TeeCurr, SendWaits, SendFails, SendAll, pipes
<1>10. ~(EndReq(w) \/ EndTest(w) \/ EndFree(w))
  BY <1>2 DEF EndReq, EndTest, EndFree, PipeBufFree, pipes
<1>11. ~(ResetMark(w) \/ ResetTest(w) \/ ResetFree(w))
  BY <1>2 DEF ResetMark, ResetTest, ResetFree, PipeBufFree, pipes
<1>12. /\ Refills(w) \/ VmspliceFails(w)
       /\ Locks(w)
  BY <1>5, <1>7, <1>8, <1>9, <1>10, <1>11
     DEF Step, Refills, VmspliceAll, VmspliceTwice, VmspliceCut, VmspliceFails
<1>13. ASSUME NEW filled, NEW kept, Vmsplice(w, filled, kept)
       PROVE  Curr(w) = b /\ kept = TRUE
  BY <1>1, <1>13 DEF Vmsplice
<1>14. CASE VmspliceAll(w) \/ VmspliceCut(w)
  BY <1>13, <1>14 DEF VmspliceAll, VmspliceCut
<1>15. CASE VmspliceFails(w)
  BY <1>12, <1>13, <1>15 DEF VmspliceFails
<1>16. CASE VmspliceTwice(w)
  <2>1. /\ fill[Curr(w)] = "over" \/ ~File(w).whole
        /\ Curr(w) = b
    BY <1>13, <1>16 DEF VmspliceTwice
  <2>2. Splices(w)
    BY <1>12 DEF Locks, Splices
  <2>3. ~File(w).whole
    BY <2>1, <2>2 DEF LocksSafe
  <2> QED
    BY <1>12, <2>1, <2>3
<1> QED
  BY <1>12, <1>14, <1>15, <1>16 DEF Refills

(***************************************************************************)
(* The theorems.                                                           *)
(***************************************************************************)

\* A worker alone, or any number of them without resets: the pools, the files
\* and the requests always have their pipes, and the counts of the files are
\* true, as IInv says (pipe_buf.c:109-142, cache_req.c:24-109,
\* cache_file.c:29-68).
THEOREM Invariant ==
    ASSUME Safe
    PROVE  Spec => []IInv
<1>1. IInv /\ [Next]_vars => IInv'
  BY StepHolds
<1> QED
  BY <1>1, InitHolds, PTL DEF Spec

\* Types; no pool outgrows its limit (pipe_buf.c:136, cache_req.c:101), and
\* a handler has the request it serves until it returns.
THEOREM PipeBufTypes ==
    ASSUME Safe
    PROVE  Spec => []TypeOK
<1>1. IInv => TypeOK
  BY DEF IInv, Shapes, Control, Serves, TypeOK, Req, Requests
<1> QED
  BY <1>1, Invariant, PTL

\* Nobody uses a file that has been freed, by the last of its requests or by
\* its reset (cache_req.c:94-97, cache_file.c:61-68), if there is one worker
\* or no file is reset.
THEOREM NoFileFreedInUse ==
    ASSUME Safe
    PROVE  Spec => []FilesLive
<1>1. IInv => FilesLive
  <2> SUFFICES ASSUME IInv, NEW w \in Workers, Dangling(w)
               PROVE  FALSE
    BY DEF FilesLive
  <2>1. pc[w] \in UsesArg => file[arg[w]] # NULL
    BY DEF IInv, Control, Holds, Cached
  <2>2. ASSUME pc[w] \in UsesFile
        PROVE  file[Req(w).file] # NULL
    <3>1. pc[w] \notin NoSock \cup NoReq
      BY <2>2 DEF UsesFile, NoSock, NoReq
    <3> QED
      BY <3>1, Handler DEF Cached
  <2> QED
    BY <2>1, <2>2 DEF Dangling
<1> QED
  BY <1>1, Invariant, PTL

\* A pipe that is open is in one place, once, however large the pools are:
\* pipe_buf_new, pipe_buf_free, cache_req_new, cache_req_del and
\* cache_file_free lose none and share none (pipe_buf.c:109-142,
\* cache_req.c:24-109, cache_file.c:29-51).  So it is for a worker alone,
\* with resets, and for any number of workers without.
THEOREM NoPipeLostOrShared ==
    ASSUME Safe
    PROVE  Spec => []PlacedOnce
<1>1. IInv => PlacedOnce
  BY DEF IInv
<1> QED
  BY <1>1, Invariant, PTL

\* In those cases pipe_mem_used is the memory of the pipes that are open, and
\* so never negative (pipe_buf.c:34, 43).
THEOREM MemoryIsCounted ==
    ASSUME Safe
    PROVE  Spec => []MemUsed
<1>1. IInv => MemUsed
  BY DEF IInv
<1> QED
  BY <1>1, Invariant, PTL

\* In those cases a client gets the bytes of the file it asked for: the pipes
\* of a file and of a request for it hold no other's, whatever they held
\* before they were freed and obtained again (pipe_buf.c:59-68, 117-120;
\* cache_req.c:35-37).
THEOREM NoOthersBytes ==
    ASSUME Safe
    PROVE  Spec => []OwnBytes
<1>1. IInv => OwnBytes
  BY DEF IInv, Honest
<1> QED
  BY <1>1, Invariant, PTL

\* With two workers at most, only one that fills a pipe from a file that was
\* itself cut short leaves the lock of the pipe behind (pipe_buf.c:72, 92-99,
\* 105).
THEOREM NoLockLeftBehind ==
    ASSUME Safe, \A t, u, v \in Workers : t = u \/ t = v \/ u = v
    PROVE  Spec => LocksReleased
<1>1. Init => LocksSafe
  BY DEF Init, LocksSafe, Splices
<1>2. IInv /\ LocksSafe /\ [Next]_vars => IInv' /\ LocksSafe'
  BY StepHolds, LocksStep
<1>3. IInv /\ LocksSafe /\ [Next]_vars =>
        [\A b \in Bufs : locked'[b] /\ ~locked[b] =>
           \E w \in Workers : Locks(w) /\ Curr(w) = b /\ ~File(w).whole]_vars
  BY LeftBehind
<1> QED
  BY <1>1, <1>2, <1>3, InitHolds, PTL DEF Spec, LocksReleased
=============================================================================
