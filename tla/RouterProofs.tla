---------------------------- MODULE RouterProofs -----------------------------
(* Theorems about Router, for any URIs, bodies, configuration and lengths   *)
(* of the arrays.                                                           *)
EXTENDS Router, SequenceTheorems, WellFoundedInduction, NaturalsInduction, TLAPS

(***************************************************************************)
(* The inductive invariant, in terms of a table t, the files fs there and  *)
(* the bodies ov that were added.                                          *)
(***************************************************************************)

\* A record is found under the URI of its file, and no record's file is freed.
IsTable(t, fs) ==
    /\ fs \in [Files -> CacheFile \cup {NULL}]
    /\ \A f \in Files : fs[f] # NULL => Len(fs[f].uri) < MaxUri
    /\ t \in [DOMAIN t -> Files] /\ DOMAIN t \subseteq Seq(STRING)
    /\ \A k \in DOMAIN t : fs[t[k]] # NULL /\ fs[t[k]].uri = k

\* The files that are in no record.
Lost(t, fs) == {f \in Files : fs[f] # NULL /\ \A k \in DOMAIN t : t[k] # f}

\* The URIs that RightBody is about.
Plain(k) == k \in Seq(STRING) /\ Len(k) + 2 < MaxUri /\ ~Web(k)

\* The body a plain URI is to be answered with.
IsBody(k, body, ov) ==
    IF k \in DOMAIN ov THEN body = ov[k]
    ELSE Len(Root \o k) <= MaxPath => body = Root \o k

\* The record of a plain URI has its body; what was added is not evicted.
Holds(t, fs, ov) ==
    \A k : Plain(k) =>
        /\ k \in DOMAIN ov => k \in DOMAIN t
        /\ k \in DOMAIN t => /\ IsBody(k, fs[t[k]].body, ov)
                             /\ fs[t[k]].evictable <=> k \notin DOMAIN ov

Cell == (STRING \X STRING) \cup {Unset}

\* The map of MIME types is what was read of the configuration so far.
MimeInv ==
    /\ config \in Seq(STRING \X STRING)
    /\ mime_map \in [data: Seq(Cell), size: 0 .. Len(config)]
    /\ mime_map.data # <<>> /\ mime_map.size <= cap(mime_map)
    /\ \A j \in 1 .. mime_map.size : mime_map.data[j] = config[j]

IInv ==
    /\ MimeInv
    /\ IsTable(table, file) /\ Holds(table, file, overlay)
    /\ RightBody /\ RightType /\ NoneLost

(***************************************************************************)
(* Sequences.                                                              *)
(***************************************************************************)

LEMMA CutIs ==
    ASSUME NEW S, NEW s \in Seq(S), NEW n \in Nat
    PROVE  /\ Cut(s, n) \in Seq(S)
           /\ Len(Cut(s, n)) <= n /\ Len(Cut(s, n)) <= Len(s)
           /\ Len(s) <= n => Cut(s, n) = s
           /\ Len(s) >= n => Len(Cut(s, n)) = n
           /\ \A j \in 1 .. Len(Cut(s, n)) : Cut(s, n)[j] = s[j]
<1> DEFINE m == Least(Len(s), n)
<1>1. Len(s) \in Nat /\ m \in Nat /\ m <= Len(s) /\ m <= n
      /\ (Len(s) <= n => m = Len(s)) /\ (Len(s) >= n => m = n)
  BY LenProperties DEF Least
<1> HIDE DEF m
<1>2. \A i \in 1 .. m : s[i] \in S
  BY <1>1, ElementOfSeq
<1>3. /\ SubSeq(s, 1, m) \in Seq(S) /\ Len(SubSeq(s, 1, m)) = m
      /\ \A i \in 1 .. m : SubSeq(s, 1, m)[i] = s[i]
  BY <1>1, <1>2, SubSeqProperties
<1>4. Len(s) <= n => SubSeq(s, 1, m) = s
  BY <1>1, <1>3, SeqEqual
<1> QED
  BY <1>1, <1>3, <1>4 DEF Cut, m

\* A call's name of a file, and the URI that the call was meant for.
LEMMA CallIs ==
    ASSUME NEW u \in Uris
    PROVE  /\ UriOf(u) \in Seq(STRING) /\ Len(UriOf(u)) <= MaxUri
           /\ Len(u) <= MaxUri => UriOf(u) = u
           /\ \A j \in 1 .. Len(UriOf(u)) : UriOf(u)[j] = u[j]
           /\ Call(u) \in Seq(STRING) /\ Len(Call(u)) < MaxUri
<1>1. u \in Seq(STRING) /\ MaxUri \in Nat \ {0}
  BY RouterAssumption
<1>2. /\ UriOf(u) \in Seq(STRING) /\ Len(UriOf(u)) <= MaxUri
      /\ Len(u) <= MaxUri => UriOf(u) = u
      /\ \A j \in 1 .. Len(UriOf(u)) : UriOf(u)[j] = u[j]
  BY <1>1, CutIs DEF UriOf
<1>3. Call(u) \in Seq(STRING) /\ Len(Call(u)) < MaxUri
  <2> DEFINE v == UriOf(u)
  <2>1. v \in Seq(STRING) /\ Len(v) <= MaxUri /\ Len(v) \in Nat
    BY <1>2, LenProperties
  <2>2. CASE v # <<>>
    <3>1. Tail(v) \in Seq(STRING) /\ Len(Tail(v)) = Len(v) - 1
      BY <2>1, <2>2, HeadTailProperties
    <3>2. Call(u) = Tail(v) \/ Call(u) = <<>>
      BY DEF Call
    <3> HIDE DEF v
    <3>3. Len(Tail(v)) < MaxUri
      BY <1>1, <2>1, <3>1
    <3>4. CASE Call(u) = Tail(v)
      BY <3>1, <3>3, <3>4
    <3>5. CASE Call(u) = <<>>
      BY <1>1, <3>5
    <3> QED
      BY <3>2, <3>4, <3>5
  <2>3. CASE v = <<>>
    <3>1. Call(u) = <<>>
      BY <2>3 DEF Call
    <3> QED
      BY <1>1, <3>1
  <2> QED
    BY <2>2, <2>3
<1> QED
  BY <1>2, <1>3

\* The key of a file that is added or reset, which is cut only when it is too
\* long to be plain.
LEMMA NamedIs ==
    ASSUME NEW u \in Uris, IsAdd(u) \/ IsReset(u)
    PROVE  /\ Named(u) \in Seq(STRING) /\ Key(Named(u)) = Named(u)
           /\ Len(Named(u)) < MaxUri
           /\ \A k : Plain(k) => (k = Named(u) <=> k = Tail(Tail(u)))
<1> DEFINE v == UriOf(u)
           c == Call(u)
<1>1. u \in Seq(STRING) /\ MaxUri \in Nat \ {0} /\ Len(u) \in Nat
  BY RouterAssumption, LenProperties
<1>2. /\ v \in Seq(STRING) /\ Len(v) \in Nat
      /\ Len(u) <= MaxUri => v = u
      /\ Len(u) >= MaxUri => Len(v) = MaxUri
  <2>1. v \in Seq(STRING) /\ (Len(u) <= MaxUri => v = u)
        /\ (Len(u) >= MaxUri => Len(v) = MaxUri)
    BY <1>1, CutIs DEF UriOf
  <2> QED
    BY <2>1, LenProperties
<1>3. Len(c) > 1
  BY DEF IsAdd, IsReset
<1>4. c # <<>> /\ v # <<>> /\ c = Tail(v)
  <2>1. c # <<>>
    BY <1>3
  <2> QED
    BY <2>1 DEF Call
<1> HIDE DEF v, c
<1>5. c \in Seq(STRING) /\ Len(c) = Len(v) - 1
  BY <1>2, <1>4, HeadTailProperties
<1>6. Named(u) = Tail(c)
  BY DEF Named, c
<1>7. Named(u) \in Seq(STRING) /\ Len(Named(u)) = Len(v) - 2
  <2>1. Tail(c) \in Seq(STRING) /\ Len(Tail(c)) = Len(c) - 1
    BY <1>4, <1>5, HeadTailProperties
  <2> QED
    BY <1>2, <1>5, <1>6, <2>1
<1>8. Len(v) <= MaxUri /\ Len(v) > 2
  BY <1>1, <1>2, <1>3, <1>5
<1>9. Len(Named(u)) < MaxUri /\ Len(Named(u)) <= MaxUri - 1
  BY <1>1, <1>2, <1>7, <1>8
<1>10. Key(Named(u)) = Named(u)
  <2>1. MaxUri - 1 \in Nat
    BY <1>1
  <2> QED
    BY <1>7, <1>9, <2>1, CutIs DEF Key
<1>11. ASSUME NEW k, Plain(k)
       PROVE  k = Named(u) <=> k = Tail(Tail(u))
  <2>1. CASE Len(u) <= MaxUri
    BY <1>2, <1>4, <1>6, <2>1
  <2>2. CASE Len(u) > MaxUri
    <3>1. Len(Named(u)) + 2 = MaxUri
      BY <1>1, <1>2, <1>7, <2>2
    <3>2. u # <<>> /\ Len(u) > 2
      BY <1>1, <1>2, <1>8, <2>2
    <3>3. Tail(u) \in Seq(STRING) /\ Len(Tail(u)) = Len(u) - 1
      BY <1>1, <3>2, HeadTailProperties
    <3>4. Tail(u) # <<>>
      <4>1. Len(Tail(u)) # 0
        BY <1>1, <3>2, <3>3
      <4> QED
        BY <4>1, EmptySeq
    <3>5. Len(Tail(Tail(u))) = Len(Tail(u)) - 1
      BY <3>3, <3>4, HeadTailProperties
    <3>6. Len(Tail(Tail(u))) + 2 > MaxUri
      BY <1>1, <2>2, <3>3, <3>5
    <3>7. Len(k) + 2 < MaxUri /\ Len(k) \in Nat
      BY <1>11, LenProperties DEF Plain
    <3>8. k # Named(u)
      BY <1>1, <3>1, <3>7
    <3>9. k # Tail(Tail(u))
      BY <1>1, <3>6, <3>7
    <3> QED
      BY <3>8, <3>9
  <2>3. Len(u) <= MaxUri \/ Len(u) > MaxUri
    BY <1>1
  <2> QED
    BY <2>1, <2>2, <2>3
<1> QED
  BY <1>7, <1>9, <1>10, <1>11

(***************************************************************************)
(* The table.                                                              *)
(***************************************************************************)

\* The files without that of a key.
FreedOf(t, fs, key) == IF key \in DOMAIN t THEN [fs EXCEPT ![t[key]] = NULL] ELSE fs

\* The records of all other keys stay as they are.
OthersKept(t, fs, t2, gs, key) ==
    \A k \in DOMAIN t \cup DOMAIN t2 : k # key =>
        k \in DOMAIN t /\ k \in DOMAIN t2 /\ t2[k] = t[k] /\ gs[t[k]] = fs[t[k]]

LEMMA Emptied ==
    ASSUME NEW t, NEW fs, NEW key, IsTable(t, fs)
    PROVE  /\ IsTable(Without(t, key), FreedOf(t, fs, key))
           /\ key \notin DOMAIN Without(t, key)
           /\ OthersKept(t, fs, Without(t, key), FreedOf(t, fs, key), key)
           /\ Lost(t, fs) = {} => Lost(Without(t, key), FreedOf(t, fs, key)) = {}
<1> DEFINE t2 == Without(t, key)
           gs == FreedOf(t, fs, key)
<1>1. /\ fs \in [Files -> CacheFile \cup {NULL}]
      /\ \A f \in Files : fs[f] # NULL => Len(fs[f].uri) < MaxUri
      /\ t \in [DOMAIN t -> Files] /\ DOMAIN t \subseteq Seq(STRING)
      /\ \A k \in DOMAIN t : t[k] \in Files /\ fs[t[k]] # NULL /\ fs[t[k]].uri = k
  BY DEF IsTable
<1>2. /\ DOMAIN t2 = DOMAIN t \ {key} /\ t2 \in [DOMAIN t2 -> Files]
      /\ \A k \in DOMAIN t2 : t2[k] = t[k]
  BY <1>1 DEF Without
<1>3. /\ gs \in [Files -> CacheFile \cup {NULL}]
      /\ \A f \in Files :
           gs[f] = fs[f] \/ (gs[f] = NULL /\ key \in DOMAIN t /\ f = t[key])
      /\ key \in DOMAIN t => gs[t[key]] = NULL
  BY <1>1 DEF FreedOf
<1> HIDE DEF t2, gs
<1>4. \A k \in DOMAIN t2 : t2[k] = t[k] /\ gs[t[k]] = fs[t[k]]
  <2> TAKE k \in DOMAIN t2
  <2>1. k \in DOMAIN t /\ k # key /\ (key \in DOMAIN t => t[k] # t[key])
    BY <1>1, <1>2
  <2> QED
    BY <1>1, <1>2, <1>3, <2>1
<1>5. IsTable(t2, gs)
  BY <1>1, <1>2, <1>3, <1>4 DEF IsTable
<1>6. ASSUME Lost(t, fs) = {}, NEW f \in Files, gs[f] # NULL
      PROVE  \E k \in DOMAIN t2 : t2[k] = f
  <2>1. fs[f] # NULL /\ (key \in DOMAIN t => f # t[key])
    BY <1>3, <1>6
  <2>2. PICK k \in DOMAIN t : t[k] = f
    BY <1>6, <2>1 DEF Lost
  <2> QED
    BY <1>2, <2>1, <2>2
<1>7. OthersKept(t, fs, t2, gs, key)
  BY <1>2, <1>4 DEF OthersKept
<1> QED
  BY <1>2, <1>5, <1>6, <1>7 DEF Lost, t2, gs

\* The files with a new one.
FileAt(fs, f, r) == [fs EXCEPT ![f] = r]

LEMMA Stored ==
    ASSUME NEW t, NEW fs, NEW f \in Files, NEW r \in CacheFile, IsTable(t, fs),
           fs[f] = NULL, Len(r.uri) < MaxUri
    PROVE  /\ IsTable(With(t, r.uri, f), FileAt(fs, f, r))
           /\ OthersKept(t, fs, With(t, r.uri, f), FileAt(fs, f, r), r.uri)
           /\ r.uri \notin DOMAIN t /\ Lost(t, fs) = {} =>
                Lost(With(t, r.uri, f), FileAt(fs, f, r)) = {}
<1> DEFINE key == r.uri
           t2 == With(t, key, f)
           gs == FileAt(fs, f, r)
<1>1. /\ fs \in [Files -> CacheFile \cup {NULL}]
      /\ \A g \in Files : fs[g] # NULL => Len(fs[g].uri) < MaxUri
      /\ t \in [DOMAIN t -> Files] /\ DOMAIN t \subseteq Seq(STRING)
      /\ \A k \in DOMAIN t : t[k] \in Files /\ fs[t[k]] # NULL /\ fs[t[k]].uri = k
  BY DEF IsTable
<1>2. key \in Seq(STRING) /\ r # NULL /\ Len(r.uri) < MaxUri
  BY RouterAssumption DEF CacheFile
<1>3. /\ DOMAIN t2 = DOMAIN t \cup {key} /\ t2 \in [DOMAIN t2 -> Files]
      /\ t2[key] = f
      /\ \A k \in DOMAIN t \ {key} : t2[k] = t[k]
  BY <1>1 DEF With
<1>4. /\ gs \in [Files -> CacheFile \cup {NULL}]
      /\ gs[f] = r /\ \A g \in Files \ {f} : gs[g] = fs[g]
  BY <1>1 DEF FileAt
<1> HIDE DEF t2, gs
<1>5. \A k \in DOMAIN t \ {key} : t2[k] = t[k] /\ gs[t[k]] = fs[t[k]]
  BY <1>1, <1>3, <1>4
<1>6. IsTable(t2, gs)
  <2>1. \A g \in Files : gs[g] # NULL => Len(gs[g].uri) < MaxUri
    BY <1>1, <1>2, <1>4
  <2>2. DOMAIN t2 \subseteq Seq(STRING)
    BY <1>1, <1>2, <1>3
  <2>3. \A k \in DOMAIN t2 : gs[t2[k]] # NULL /\ gs[t2[k]].uri = k
    <3> TAKE k \in DOMAIN t2
    <3>1. CASE k = key
      BY <1>2, <1>3, <1>4, <3>1
    <3>2. CASE k # key
      BY <1>1, <1>3, <1>5, <3>2
    <3> QED
      BY <3>1, <3>2
  <2> QED
    BY <1>3, <1>4, <2>1, <2>2, <2>3 DEF IsTable
<1>7. ASSUME key \notin DOMAIN t, Lost(t, fs) = {}, NEW g \in Files, gs[g] # NULL
      PROVE  \E k \in DOMAIN t2 : t2[k] = g
  <2>1. CASE g = f
    BY <1>3, <2>1
  <2>2. CASE g # f
    <3>1. PICK k \in DOMAIN t : t[k] = g
      BY <1>4, <1>7, <2>2 DEF Lost
    <3> QED
      BY <1>3, <1>7, <3>1
  <2> QED
    BY <2>1, <2>2
<1>8. OthersKept(t, fs, t2, gs, key)
  BY <1>3, <1>5 DEF OthersKept
<1> QED
  BY <1>6, <1>7, <1>8 DEF Lost, t2, gs

(***************************************************************************)
(* What was added.                                                         *)
(***************************************************************************)

\* All but key is added as before.
SameBut(ov, ov2, key) ==
    \A k : Plain(k) /\ k # key => /\ k \in DOMAIN ov2 <=> k \in DOMAIN ov
                                  /\ k \in DOMAIN ov => ov2[k] = ov[k]

LEMMA EmptiedHolds ==
    ASSUME NEW t, NEW fs, NEW key, NEW ov, NEW ov2, IsTable(t, fs),
           Holds(t, fs, ov), SameBut(ov, ov2, key), Plain(key) => key \notin DOMAIN ov2
    PROVE  Holds(Without(t, key), FreedOf(t, fs, key), ov2)
<1> DEFINE t2 == Without(t, key)
           gs == FreedOf(t, fs, key)
<1>1. key \notin DOMAIN t2 /\ OthersKept(t, fs, t2, gs, key)
  BY Emptied
<1> HIDE DEF t2, gs
<1>2. ASSUME NEW k, Plain(k), k # key
      PROVE  /\ k \in DOMAIN ov2 => k \in DOMAIN t2
             /\ k \in DOMAIN t2 => /\ IsBody(k, gs[t2[k]].body, ov2)
                                   /\ gs[t2[k]].evictable <=> k \notin DOMAIN ov2
  <2>1. /\ k \in DOMAIN ov2 <=> k \in DOMAIN ov
        /\ k \in DOMAIN ov => ov2[k] = ov[k]
    BY <1>2 DEF SameBut
  <2>2. k \in DOMAIN ov => k \in DOMAIN t
    BY <1>2 DEF Holds
  <2> QED
    BY <1>1, <1>2, <2>1, <2>2 DEF Holds, IsBody, OthersKept
<1>3. Plain(key) => key \notin DOMAIN t2 /\ key \notin DOMAIN ov2
  BY <1>1
<1>4. Holds(t2, gs, ov2)
  BY <1>2, <1>3 DEF Holds
<1> QED
  BY <1>4 DEF t2, gs

LEMMA StoredHolds ==
    ASSUME NEW t, NEW fs, NEW f \in Files, NEW r \in CacheFile, NEW ov, NEW ov2,
           IsTable(t, fs), fs[f] = NULL, Len(r.uri) < MaxUri,
           Holds(t, fs, ov), SameBut(ov, ov2, r.uri),
           Plain(r.uri) => /\ IsBody(r.uri, r.body, ov2)
                           /\ r.evictable <=> r.uri \notin DOMAIN ov2
    PROVE  Holds(With(t, r.uri, f), FileAt(fs, f, r), ov2)
<1> DEFINE key == r.uri
           t2 == With(t, key, f)
           gs == FileAt(fs, f, r)
<1>1. OthersKept(t, fs, t2, gs, key)
  BY Stored
<1>2. t2[key] = f /\ gs[f] = r /\ key \in DOMAIN t2
  BY DEF With, FileAt, IsTable
<1> HIDE DEF t2, gs
<1>3. ASSUME NEW k, Plain(k), k # key
      PROVE  /\ k \in DOMAIN ov2 => k \in DOMAIN t2
             /\ k \in DOMAIN t2 => /\ IsBody(k, gs[t2[k]].body, ov2)
                                   /\ gs[t2[k]].evictable <=> k \notin DOMAIN ov2
  BY <1>1, <1>3 DEF Holds, SameBut, IsBody, OthersKept
<1> QED
  BY <1>2, <1>3 DEF Holds, t2, gs

(***************************************************************************)
(* The map of MIME types.                                                  *)
(***************************************************************************)

LEMMA CellsAre ==
    ASSUME NEW S, Unset \in S, NEW n \in Nat
    PROVE  Cells(n) \in Seq(S) /\ Len(Cells(n)) = n
<1>1. Cells(n) \in [1 .. n -> S]
  BY DEF Cells
<1> QED
  BY <1>1, SeqDef, LenProperties

\* A push keeps what is there, makes room where there is none, and adds the
\* item behind.
Pushed(S, buf, item, new) ==
    /\ new \in [data: Seq(S), size: Nat]
    /\ new.size = buf.size + 1
    /\ buf.size + 1 <= Len(new.data)
    /\ new.data[buf.size + 1] = item
    /\ \A j \in 1 .. buf.size : new.data[j] = buf.data[j]

LEMMA PushIs ==
    ASSUME NEW S, Unset \in S, NEW item \in S, NEW buf \in [data: Seq(S), size: Nat],
           buf.data # <<>>, buf.size <= Len(buf.data)
    PROVE  Pushed(S, buf, item, buf_push(buf, item))
<1> DEFINE n == buf.size
           d == buf.data
           room == IF n >= cap(buf) THEN buf_resize(buf, 2 * n) ELSE buf
           e == room.data
<1>1. d \in Seq(S) /\ Len(d) \in Nat \ {0} /\ n \in Nat /\ n <= Len(d)
  BY EmptySeq
<1>2. /\ room \in [data: Seq(S), size: Nat] /\ room.size = n
      /\ n + 1 <= Len(e)
      /\ \A j \in 1 .. n : e[j] = d[j]
  <2>1. CASE n >= cap(buf)
    <3>1. n = Len(d) /\ ~(2 * n <= Len(d)) /\ 2 * n - Len(d) \in Nat
          /\ 2 * n - Len(d) = n
      BY <1>1, <2>1 DEF cap
    <3> DEFINE c == Cells(2 * n - Len(d))
    <3>2. c \in Seq(S) /\ Len(c) = n
      BY <3>1, CellsAre
    <3>3. room = [buf EXCEPT !.data = d \o c]
      BY <2>1, <3>1 DEF buf_resize
    <3> HIDE DEF c
    <3>4. /\ d \o c \in Seq(S) /\ Len(d \o c) = Len(d) + Len(c)
          /\ \A j \in 1 .. Len(d) + Len(c) :
               (d \o c)[j] = IF j <= Len(d) THEN d[j] ELSE c[j - Len(d)]
      BY <1>1, <3>2, ConcatProperties
    <3> DEFINE dc == d \o c
    <3>5. room = [buf EXCEPT !.data = dc] /\ dc \in Seq(S) /\ Len(dc) = n + n
          /\ \A j \in 1 .. n : dc[j] = d[j]
      BY <1>1, <3>1, <3>2, <3>3, <3>4
    <3> HIDE DEF dc, room
    <3>6. room \in [data: Seq(S), size: Nat] /\ room.size = n /\ room.data = dc
      BY <3>5
    <3>7. n + 1 <= n + n
      BY <1>1, <3>1
    <3> QED
      BY <3>5, <3>6, <3>7
  <2>2. CASE ~(n >= cap(buf))
    <3>1. room = buf
      BY <2>2
    <3>2. n + 1 <= Len(d)
      BY <1>1, <2>2 DEF cap
    <3> QED
      BY <3>1, <3>2
  <2> QED
    BY <2>1, <2>2
<1>3. buf_push(buf, item) = [[room EXCEPT !.data[n + 1] = item] EXCEPT !.size = @ + 1]
  BY DEF buf_push, buf_set
<1> HIDE DEF room
<1> DEFINE e1 == [e EXCEPT ![n + 1] = item]
<1>4. buf_push(buf, item) = [data |-> e1, size |-> n + 1]
  BY <1>2, <1>3
<1>5. e \in Seq(S) /\ Len(e) \in Nat /\ n + 1 \in 1 .. Len(e)
  BY <1>1, <1>2, LenProperties
<1> HIDE DEF e
<1>6. /\ e1 \in Seq(S) /\ Len(e1) = Len(e) /\ e1[n + 1] = item
      /\ \A j \in 1 .. Len(e) : j # n + 1 => e1[j] = e[j]
  BY <1>5, ExceptSeq
<1> HIDE DEF e1
<1>7. \A j \in 1 .. n : j \in 1 .. Len(e) /\ j # n + 1
  BY <1>1, <1>5
<1> QED
  BY <1>1, <1>2, <1>4, <1>5, <1>6, <1>7 DEF e, Pushed

LEMMA MimeStep ==
    ASSUME MimeInv, MimeMapInit
    PROVE  MimeInv'
<1> DEFINE n == mime_map.size
           item == config[n + 1]
           new == buf_push(mime_map, item)
<1>1. /\ config \in Seq(STRING \X STRING) /\ Len(config) \in Nat
      /\ mime_map \in [data: Seq(Cell), size: Nat] /\ n \in Nat
      /\ mime_map.data # <<>> /\ n <= Len(mime_map.data)
      /\ \A j \in 1 .. n : mime_map.data[j] = config[j]
      /\ n < Len(config) /\ config' = config /\ mime_map' = new
  <2>1. config \in Seq(STRING \X STRING) /\ Len(config) \in Nat
    BY LenProperties DEF MimeInv
  <2> QED
    BY <2>1 DEF MimeInv, MimeMapInit, cap
<1>2. n + 1 \in 1 .. Len(config)
  BY <1>1
<1>3. item \in Cell /\ Unset \in Cell
  BY <1>1, <1>2, ElementOfSeq DEF Cell
<1>4. /\ new \in [data: Seq(Cell), size: Nat] /\ new.size = n + 1
      /\ n + 1 <= Len(new.data) /\ new.data[n + 1] = item
      /\ \A j \in 1 .. n : new.data[j] = mime_map.data[j]
  <2>1. /\ mime_map \in [data: Seq(Cell), size: Nat] /\ mime_map.data # <<>>
        /\ mime_map.size <= Len(mime_map.data) /\ item \in Cell /\ Unset \in Cell
    BY <1>1, <1>3
  <2> HIDE DEF item
  <2>2. Pushed(Cell, mime_map, item, new)
    BY <2>1, PushIs
  <2> QED
    BY <2>2 DEF Pushed
<1> HIDE DEF new
<1>5. new.data # <<>>
  BY <1>1, <1>4
<1>6. \A j \in 1 .. n + 1 : new.data[j] = config[j]
  <2> TAKE j \in 1 .. n + 1
  <2>1. j \in 1 .. n \/ j = n + 1
    BY <1>1
  <2> QED
    BY <1>1, <1>4, <2>1
<1>7. new \in [data: Seq(Cell), size: 0 .. Len(config)]
  <2>1. n + 1 \in 0 .. Len(config)
    BY <1>1, <1>2
  <2> QED
    BY <1>4, <2>1
<1> QED
  BY <1>1, <1>4, <1>5, <1>6, <1>7 DEF MimeInv, cap

LEMMA Smallest ==
    ASSUME NEW T \in SUBSET Nat, T # {}
    PROVE  \E m \in T : \A k \in T : m <= k
<1>1. PICK m \in T : \A k \in T : ~(<<k, m>> \in OpToRel(<, Nat))
  BY NatLessThanWellFounded, WFMin
<1>2. \A k \in T : ~(k < m)
  BY <1>1 DEF OpToRel
<1> QED
  BY <1>2

\* The type that the first entry for an extension has.
TypeFor(e) ==
    LET fits == {j \in DOMAIN config : config[j][1] = e}
    IN  IF fits = {} THEN "text/plain"
        ELSE config[CHOOSE j \in fits : \A k \in fits : j <= k][2]

LEMMA TypeIs ==
    ASSUME MimeInv, Ready, NEW path, path # <<>>
    PROVE  MimeMapGet(path) = TypeFor(Ext(path[Len(path)]))
<1> DEFINE e == Ext(path[Len(path)])
           fits == {j \in DOMAIN config : config[j][1] = e}
           found == {j \in 0 .. mime_map.size - 1 : buf_get(mime_map, j)[1] = e}
           n == mime_map.size
<1>1. n = Len(config) /\ n \in Nat /\ DOMAIN config = 1 .. n
      /\ \A j \in 1 .. n : mime_map.data[j] = config[j]
  <2>1. config \in Seq(STRING \X STRING)
    BY DEF MimeInv
  <2> QED
    BY <2>1, LenProperties DEF MimeInv, Ready
<1>2. MimeMapGet(path) =
        IF found = {} THEN "text/plain"
        ELSE buf_get(mime_map, CHOOSE j \in found : \A k \in found : j <= k)[2]
  <2> DEFINE is(j) == path # <<>> /\ buf_get(mime_map, j)[1] = e
             same == {j \in 0 .. mime_map.size - 1 : is(j)}
  <2>1. same = found
    OBVIOUS
  <2>2. MimeMapGet(path) =
          IF same = {} THEN "text/plain"
          ELSE buf_get(mime_map, CHOOSE j \in same : \A k \in same : j <= k)[2]
    BY DEF MimeMapGet
  <2> HIDE DEF same, found
  <2> QED
    BY <2>1, <2>2
<1>3. \A j \in 0 .. n - 1 : j + 1 \in 1 .. n /\ buf_get(mime_map, j) = config[j + 1]
  BY <1>1 DEF buf_get
<1> HIDE DEF e
<1>4. found = {j \in 0 .. n - 1 : config[j + 1][1] = e}
  BY <1>3
<1>5. fits = {j \in 1 .. n : config[j][1] = e}
  BY <1>1
<1> HIDE DEF found, fits
<1>6. found \in SUBSET Nat /\ fits \in SUBSET Nat
  BY <1>1, <1>4, <1>5
<1>7. /\ \A j \in found : j + 1 \in fits
      /\ \A j \in fits : j - 1 \in found /\ j - 1 + 1 = j
  BY <1>1, <1>4, <1>5
<1>8. CASE fits = {}
  <2>1. found = {}
    BY <1>7, <1>8
  <2> QED
    BY <1>2, <1>8, <2>1 DEF TypeFor, fits, e
<1>9. CASE fits # {}
  <2> DEFINE m == CHOOSE j \in fits : \A k \in fits : j <= k
             l == CHOOSE j \in found : \A k \in found : j <= k
  <2>1. m \in fits /\ \A k \in fits : m <= k
    BY <1>6, <1>9, Smallest
  <2>2. found # {}
    BY <1>7, <1>9
  <2>3. l \in found /\ \A k \in found : l <= k
    BY <1>6, <2>2, Smallest
  <2> HIDE DEF l, m
  <2>4. m <= l + 1 /\ l <= m - 1 /\ l \in Nat /\ m \in Nat
    BY <1>6, <1>7, <2>1, <2>3
  <2>5. m = l + 1 /\ l \in 0 .. n - 1
    BY <1>4, <2>3, <2>4
  <2>6. buf_get(mime_map, l) = config[m]
    BY <1>3, <2>5
  <2>7. MimeMapGet(path) = config[m][2]
    BY <1>2, <2>2, <2>6 DEF l
  <2> QED
    BY <1>9, <2>7 DEF TypeFor, fits, e, m
<1> QED
  BY <1>8, <1>9

(***************************************************************************)
(* Steps of the table.                                                     *)
(***************************************************************************)

\* The part of the invariant that is about files.
Stock == IsTable(table, file) /\ Holds(table, file, overlay) /\ NoneLost

LEMMA NoneLostIs == NoneLost <=> cut \/ Lost(table, file) = {}
  BY DEF NoneLost, Lost

LEMMA ResetKeeps ==
    ASSUME Stock, NEW key, FileTableReset(key), SameBut(overlay, overlay', key),
           Plain(key) => key \notin DOMAIN overlay', cut' = cut
    PROVE  Stock'
<1>1. file' = FreedOf(table, file, key) /\ table' = Without(table, key)
  BY DEF FileTableReset, FreedOf, Has
<1>2. IsTable(table, file) /\ Holds(table, file, overlay)
  BY DEF Stock
<1>3. IsTable(table', file') /\ (Lost(table, file) = {} => Lost(table', file') = {})
  BY <1>1, <1>2, Emptied
<1>4. Holds(table', file', overlay')
  BY <1>1, <1>2, EmptiedHolds
<1>5. NoneLost'
  <2>1. cut \/ Lost(table, file) = {}
    BY NoneLostIs DEF Stock
  <2>2. cut' \/ Lost(table', file') = {}
    BY <1>3, <2>1
  <2> QED
    BY <2>2 DEF NoneLost, Lost
<1> QED
  BY <1>3, <1>4, <1>5 DEF Stock, IsTable, Holds

LEMMA TmpKeeps ==
    ASSUME Stock, NEW key \in Seq(STRING), NEW d \in Data, CacheFileTmp(key, d),
           Key(key) = key, Len(key) < MaxUri, SameBut(overlay, overlay', key),
           Plain(key) => key \in DOMAIN overlay' /\ overlay'[key] = d, cut' = cut
    PROVE  Stock'
<1> DEFINE freed == FreedOf(table, file, key)
           r == [uri |-> key, body |-> d, evictable |-> FALSE]
           t1 == Without(table, key)
           ov1 == Without(overlay, key)
<1>1. PICK f \in Files : /\ freed[f] = NULL
                         /\ file' = FileAt(freed, f, r)
                         /\ table' = With(table, key, f)
  BY DEF CacheFileTmp, FreedOf, FileAt, Has
<1>2. IsTable(table, file) /\ Holds(table, file, overlay)
  BY DEF Stock
<1>3. /\ IsTable(t1, freed) /\ (Lost(table, file) = {} => Lost(t1, freed) = {})
      /\ key \notin DOMAIN t1
  BY <1>2, Emptied
<1>4. Holds(t1, freed, ov1)
  <2>1. SameBut(overlay, ov1, key) /\ key \notin DOMAIN ov1
    BY DEF SameBut, Without
  <2> HIDE DEF ov1
  <2> QED
    BY <1>2, <2>1, EmptiedHolds
<1>5. table' = With(t1, key, f)
  BY <1>1 DEF With, Without
<1>6. r \in CacheFile /\ r.uri = key /\ r.body = d /\ ~r.evictable
  BY DEF CacheFile
<1>7. SameBut(ov1, overlay', key)
  <2>1. \A k : k # key => /\ k \in DOMAIN ov1 <=> k \in DOMAIN overlay
                          /\ k \in DOMAIN overlay => ov1[k] = overlay[k]
    BY DEF Without
  <2> HIDE DEF ov1
  <2>2. ASSUME NEW k, Plain(k), k # key
        PROVE  /\ k \in DOMAIN overlay' <=> k \in DOMAIN ov1
               /\ k \in DOMAIN ov1 => overlay'[k] = ov1[k]
    <3>1. /\ k \in DOMAIN overlay' <=> k \in DOMAIN overlay
          /\ k \in DOMAIN overlay => overlay'[k] = overlay[k]
      BY <2>2 DEF SameBut
    <3>2. /\ k \in DOMAIN ov1 <=> k \in DOMAIN overlay
          /\ k \in DOMAIN overlay => ov1[k] = overlay[k]
      BY <2>1, <2>2
    <3> QED
      BY <3>1, <3>2
  <2> QED
    BY <2>2 DEF SameBut
<1> HIDE DEF freed, r, t1, ov1
<1>8. /\ IsTable(table', file')
      /\ Lost(t1, freed) = {} => Lost(table', file') = {}
  BY <1>1, <1>3, <1>5, <1>6, Stored
<1>9. Holds(table', file', overlay')
  <2>1. Plain(key) => /\ IsBody(key, r.body, overlay')
                      /\ r.evictable <=> key \notin DOMAIN overlay'
    BY <1>6 DEF IsBody
  <2> QED
    BY <1>1, <1>3, <1>4, <1>5, <1>6, <1>7, <2>1, StoredHolds
<1>10. NoneLost'
  <2>1. cut \/ Lost(table, file) = {}
    BY NoneLostIs DEF Stock
  <2>2. cut' \/ Lost(table', file') = {}
    BY <1>3, <1>8, <2>1
  <2> QED
    BY <2>2 DEF NoneLost, Lost
<1> QED
  BY <1>8, <1>9, <1>10 DEF Stock, IsTable, Holds

LEMMA AddKeeps ==
    ASSUME Stock, NEW uri \in Seq(STRING), NEW path \in Seq(STRING), NEW f \in Files,
           AddFile(f, uri, path, TRUE), ~Has(uri),
           Plain(uri) /\ Len(Root \o uri) <= MaxPath => path = Root \o uri,
           cut' = (cut \/ Len(uri) >= MaxUri), overlay' = overlay
    PROVE  Stock'
<1> DEFINE r == [uri |-> Key(uri), body |-> path, evictable |-> TRUE]
<1>1. /\ file[f] = NULL /\ file' = FileAt(file, f, r)
      /\ table' = With(table, Key(uri), f)
  BY DEF AddFile, FreeFile, FileAt
<1>2. IsTable(table, file) /\ Holds(table, file, overlay)
  BY DEF Stock
<1>3. MaxUri \in Nat \ {0} /\ MaxUri - 1 \in Nat /\ Len(uri) \in Nat
  BY RouterAssumption, LenProperties
<1>4. /\ Key(uri) \in Seq(STRING) /\ Len(Key(uri)) <= MaxUri - 1
      /\ Len(uri) <= MaxUri - 1 => Key(uri) = uri
      /\ Len(uri) >= MaxUri - 1 => Len(Key(uri)) = MaxUri - 1
  BY <1>3, CutIs DEF Key
<1>5. Len(Key(uri)) < MaxUri
  <2>1. Len(Key(uri)) \in Nat
    BY <1>4, LenProperties
  <2> QED
    BY <1>3, <1>4, <2>1
<1>6. Plain(Key(uri)) => Key(uri) = uri
  <2> SUFFICES ASSUME Plain(Key(uri)), Key(uri) # uri
               PROVE  FALSE
    OBVIOUS
  <2>1. Len(Key(uri)) = MaxUri - 1
    BY <1>3, <1>4
  <2>2. Len(Key(uri)) + 2 < MaxUri
    BY DEF Plain
  <2> QED
    BY <1>3, <2>1, <2>2
<1>7. r \in CacheFile /\ r.uri = Key(uri) /\ r.body = path /\ r.evictable
  BY <1>4 DEF CacheFile
<1> HIDE DEF r
<1>8. Plain(Key(uri)) => /\ IsBody(Key(uri), r.body, overlay')
                         /\ r.evictable <=> Key(uri) \notin DOMAIN overlay'
  <2> SUFFICES ASSUME Plain(Key(uri))
               PROVE  /\ IsBody(Key(uri), r.body, overlay')
                      /\ r.evictable <=> Key(uri) \notin DOMAIN overlay'
    OBVIOUS
  <2>1. Key(uri) = uri
    BY <1>6
  <2>2. uri \notin DOMAIN overlay
    BY <1>2, <2>1 DEF Holds, Has
  <2> QED
    BY <1>7, <2>1, <2>2 DEF IsBody
<1>9. /\ IsTable(table', file')
      /\ Key(uri) \notin DOMAIN table /\ Lost(table, file) = {} =>
           Lost(table', file') = {}
  BY <1>1, <1>2, <1>5, <1>7, Stored
<1>10. SameBut(overlay, overlay', Key(uri))
  BY DEF SameBut
<1>11. Holds(table', file', overlay')
  BY <1>1, <1>2, <1>5, <1>7, <1>8, <1>10, StoredHolds
<1>12. NoneLost'
  <2>1. cut \/ Lost(table, file) = {}
    BY NoneLostIs DEF Stock
  <2>2. cut' \/ Key(uri) \notin DOMAIN table
    <3>1. CASE Len(uri) >= MaxUri
      BY <3>1
    <3>2. CASE ~(Len(uri) >= MaxUri)
      <4>1. Key(uri) = uri
        BY <1>3, <1>4, <3>2
      <4> QED
        BY <4>1 DEF Has
    <3> QED
      BY <3>1, <3>2
  <2>3. cut' \/ Lost(table', file') = {}
    BY <1>9, <2>1, <2>2
  <2> QED
    BY <2>3 DEF NoneLost, Lost
<1> QED
  BY <1>9, <1>11, <1>12 DEF Stock, IsTable, Holds

(***************************************************************************)
(* Paths and answers.                                                      *)
(***************************************************************************)

LEMMA JoinedIs ==
    ASSUME NEW r \in Seq(STRING), NEW u \in Seq(STRING), u # <<>>
    PROVE  /\ r \o u \in Seq(STRING) /\ r \o u # <<>>
           /\ (r \o u)[Len(r \o u)] = u[Len(u)]
<1>1. Len(r) \in Nat /\ Len(u) \in Nat \ {0}
  BY EmptySeq, LenProperties
<1>2. /\ r \o u \in Seq(STRING) /\ Len(r \o u) = Len(r) + Len(u)
      /\ \A j \in 1 .. Len(r) + Len(u) :
           (r \o u)[j] = IF j <= Len(r) THEN r[j] ELSE u[j - Len(r)]
  BY ConcatProperties
<1> DEFINE ru == r \o u
<1> HIDE DEF ru
<1>3. /\ Len(r) + Len(u) \in 1 .. Len(r) + Len(u)
      /\ ~(Len(r) + Len(u) <= Len(r)) /\ Len(r) + Len(u) - Len(r) = Len(u)
  BY <1>1
<1>4. ru[Len(r) + Len(u)] = u[Len(u)]
  BY <1>2, <1>3 DEF ru
<1>5. Len(ru) # 0 /\ ru \in Seq(STRING) /\ Len(ru) = Len(r) + Len(u)
  BY <1>1, <1>2 DEF ru
<1>6. ru # <<>>
  BY <1>5, EmptySeq
<1> QED
  BY <1>4, <1>5, <1>6 DEF ru

\* The path of a URI is cut, and emptied, only when one does not fit.
LEMMA PathIs ==
    ASSUME NEW u \in Uris, NEW path \in PathsOf(u)
    PROVE  /\ path \in Seq(STRING)
           /\ Len(u) < MaxUri /\ Len(Root \o u) <= MaxPath => path = Root \o u
<1>1. /\ u \in Seq(STRING) /\ Root \in Seq(STRING) /\ MaxPath \in Nat
      /\ MaxUri \in Nat /\ Len(u) \in Nat
  BY RouterAssumption, LenProperties
<1> DEFINE ru == Root \o u
<1>2. ru \in Seq(STRING)
  BY <1>1, ConcatProperties
<1>3. path = Cut(ru, MaxPath) \/ (Len(u) >= MaxUri /\ path = <<>>)
  BY DEF PathsOf
<1> HIDE DEF ru
<1>4. Cut(ru, MaxPath) \in Seq(STRING) /\ (Len(ru) <= MaxPath => Cut(ru, MaxPath) = ru)
  BY <1>1, <1>2, CutIs
<1>5. CASE path = Cut(ru, MaxPath)
  BY <1>4, <1>5 DEF ru
<1>6. CASE Len(u) >= MaxUri /\ path = <<>>
  BY <1>1, <1>6
<1> QED
  BY <1>3, <1>5, <1>6

\* A URI that is not cut below the length of its array is the whole URI.
LEMMA WholeUri ==
    ASSUME NEW u \in Uris
    PROVE  /\ Len(u) < MaxUri => UriOf(u) = u
           /\ Len(UriOf(u)) < MaxUri => Len(u) < MaxUri /\ UriOf(u) = u
<1>1. u \in Seq(STRING) /\ MaxUri \in Nat /\ Len(u) \in Nat
  BY RouterAssumption, LenProperties
<1>2. /\ Len(u) <= MaxUri => UriOf(u) = u
      /\ Len(u) >= MaxUri => Len(UriOf(u)) = MaxUri
  BY <1>1, CutIs DEF UriOf
<1> QED
  BY <1>1, <1>2

\* A file of the web UI has a key that is of the web UI too.
LEMMA WebuiIs ==
    ASSUME NEW u \in Uris, IsWebui(u)
    PROVE  /\ Web(u) /\ Web(Call(u))
           /\ Call(u) \in Seq(STRING) /\ Call(u) # <<>>
           /\ Len(u) < MaxUri => Call(u)[Len(Call(u))] = u[Len(u)]
<1> DEFINE v == UriOf(u)
           c == Call(u)
<1>1. /\ u \in Seq(STRING) /\ v \in Seq(STRING) /\ c \in Seq(STRING)
      /\ Len(v) <= Len(u) /\ Len(v) \in Nat /\ Len(u) \in Nat
      /\ \A j \in 1 .. Len(v) : v[j] = u[j]
  <2>1. u \in Seq(STRING) /\ MaxUri \in Nat
    BY RouterAssumption
  <2>2. /\ v \in Seq(STRING) /\ Len(v) <= Len(u)
        /\ \A j \in 1 .. Len(v) : v[j] = u[j]
    BY <2>1, CutIs DEF UriOf
  <2>3. c \in Seq(STRING)
    BY CallIs
  <2> QED
    BY <2>1, <2>2, <2>3, LenProperties
<1>2. c # <<>> /\ c[1] = "/webui"
  BY DEF IsWebui
<1>3. c = Tail(v) /\ v # <<>>
  BY <1>2 DEF Call
<1>4. Len(u) < MaxUri => v = u
  BY WholeUri
<1> HIDE DEF v, c
<1>5. /\ Len(c) = Len(v) - 1 /\ Len(c) \in Nat \ {0}
      /\ \A j \in 1 .. Len(c) : c[j] = v[j + 1]
  <2>1. Len(Tail(v)) = Len(v) - 1 /\ \A j \in 1 .. Len(v) - 1 : Tail(v)[j] = v[j + 1]
    BY <1>1, <1>3, HeadTailProperties
  <2>2. Len(c) \in Nat \ {0}
    BY <1>1, <1>2, EmptySeq, LenProperties
  <2> QED
    BY <1>3, <2>1, <2>2
<1>6. 1 \in DOMAIN c /\ 2 \in DOMAIN u /\ u[2] = "/webui"
  <2>1. 1 \in 1 .. Len(c) /\ 2 \in 1 .. Len(v) /\ 2 \in 1 .. Len(u)
    BY <1>1, <1>5
  <2>2. DOMAIN c = 1 .. Len(c) /\ DOMAIN u = 1 .. Len(u)
    BY <1>1, LenProperties
  <2>3. c[1] = v[1 + 1] /\ v[2] = u[2]
    BY <1>1, <1>5, <2>1
  <2> QED
    BY <1>2, <2>1, <2>2, <2>3
<1>7. Web(u) /\ Web(c)
  BY <1>2, <1>6 DEF Web
<1>8. Len(u) < MaxUri => c[Len(c)] = u[Len(u)]
  <2>1. Len(c) \in 1 .. Len(c) /\ Len(c) + 1 = Len(v)
    BY <1>1, <1>5
  <2> QED
    BY <1>4, <1>5, <2>1
<1> QED
  BY <1>1, <1>2, <1>7, <1>8 DEF c

LEMMA FileAnswered ==
    ASSUME NEW u \in Uris, NEW body, NEW type, Answer(u, "file", body, type),
           config' = config, Plain(u) => IsBody(u, body, overlay'),
           Len(u) < MaxUri /\ Len(Root \o u) <= MaxPath =>
             type = TypeFor(Ext(u[Len(u)]))
    PROVE  RightBody' /\ RightType'
<1>1. /\ answer'.uri = u /\ answer'.kind = "file" /\ answer'.body = body
      /\ answer'.type = type
  BY DEF Answer
<1>2. RightBody'
  <2>1. Len(u) + 2 < MaxUri /\ ~Web(u) => IsBody(u, body, overlay')
    BY RouterAssumption DEF Plain
  <2> QED
    BY <1>1, <2>1 DEF RightBody, IsBody, Web
<1>3. RightType'
  BY <1>1 DEF RightType, TypeFor
<1> QED
  BY <1>2, <1>3

LEMMA OtherAnswered ==
    ASSUME NEW u, NEW kind, NEW body, NEW type, Answer(u, kind, body, type),
           kind # "file"
    PROVE  RightBody' /\ RightType'
<1>1. answer'.kind # "file"
  BY DEF Answer
<1> QED
  BY <1>1 DEF RightBody, RightType

(***************************************************************************)
(* Steps of stage 30.                                                      *)
(***************************************************************************)

\* A step that leaves the table and the overlay alone.
LEMMA TableKept ==
    ASSUME Stock, UNCHANGED <<table, file, overlay, cut>>
    PROVE  Stock'
  BY DEF Stock, IsTable, Holds, IsBody, NoneLost

\* What the table has for a plain URI is the body that it is answered with.
LEMMA FoundIs ==
    ASSUME Stock, NEW k, Plain(k), Has(k), overlay' = overlay
    PROVE  IsBody(k, file[table[k]].body, overlay')
  BY DEF Stock, Holds, Has, IsBody

LEMMA HitKeeps ==
    ASSUME Stock, MimeInv, Ready, UNCHANGED config,
           NEW u \in Uris, NEW path \in PathsOf(u), ServeHit(u, path)
    PROVE  Stock' /\ RightBody' /\ RightType'
<1> DEFINE body == file[table[UriOf(u)]].body
           type == MimeMapGet(path)
<1>1. /\ Has(UriOf(u)) /\ Answer(u, "file", body, type)
      /\ UNCHANGED <<table, file, overlay, cut>>
  BY DEF ServeHit, ServeFile, Hit
<1>2. Plain(u) => IsBody(u, body, overlay')
  <2> SUFFICES ASSUME Plain(u)
               PROVE  IsBody(u, body, overlay')
    OBVIOUS
  <2>1. Len(u) < MaxUri
    <3>1. Len(u) \in Nat /\ MaxUri \in Nat /\ Len(u) + 2 < MaxUri
      BY RouterAssumption, LenProperties DEF Plain
    <3> QED
      BY <3>1
  <2>2. UriOf(u) = u
    BY <2>1, WholeUri
  <2> QED
    BY <1>1, <2>2, FoundIs
<1>3. Len(u) < MaxUri /\ Len(Root \o u) <= MaxPath => type = TypeFor(Ext(u[Len(u)]))
  <2> SUFFICES ASSUME Len(u) < MaxUri, Len(Root \o u) <= MaxPath
               PROVE  type = TypeFor(Ext(u[Len(u)]))
    OBVIOUS
  <2>1. path = Root \o u
    BY PathIs
  <2>2. path # <<>> /\ path[Len(path)] = u[Len(u)]
    BY <2>1, JoinedIs, RouterAssumption
  <2> QED
    BY <2>2, TypeIs
<1> HIDE DEF body, type
<1>4. RightBody' /\ RightType'
  BY <1>1, <1>2, <1>3, FileAnswered
<1> QED
  BY <1>1, <1>4, TableKept

\* A file that is found or opened: uri is the key, which is that of u unless
\* neither is plain.
LEMMA NewKeeps ==
    ASSUME Stock, MimeInv, Ready, UNCHANGED config, NEW u \in Uris,
           NEW path \in Seq(STRING), NEW uri \in Seq(STRING), ServeNew(u, path, uri),
           Plain(uri) /\ Len(Root \o uri) <= MaxPath => path = Root \o uri,
           Plain(u) => uri = u,
           Len(u) < MaxUri /\ Len(Root \o u) <= MaxPath =>
             path # <<>> /\ path[Len(path)] = u[Len(u)]
    PROVE  Stock' /\ RightBody' /\ RightType'
<1> DEFINE type == MimeMapGet(path)
<1>1. overlay' = overlay
  BY DEF ServeNew
<1>2. Len(u) < MaxUri /\ Len(Root \o u) <= MaxPath => type = TypeFor(Ext(u[Len(u)]))
  BY TypeIs
<1> HIDE DEF type
<1>3. CASE /\ Has(uri) /\ ServeFile(u, file[table[uri]], path)
           /\ UNCHANGED <<table, file, cut>>
  <2> DEFINE body == file[table[uri]].body
  <2>1. Answer(u, "file", body, type)
    BY <1>3 DEF ServeFile, type
  <2>2. Plain(u) => IsBody(u, body, overlay')
    BY <1>1, <1>3, FoundIs
  <2> HIDE DEF body
  <2>3. RightBody' /\ RightType'
    BY <1>2, <2>1, <2>2, FileAnswered
  <2> QED
    BY <1>1, <1>3, <2>3, TableKept
<1>4. CASE /\ ~Has(uri) /\ \E f \in Files : AddFile(f, uri, path, TRUE)
           /\ Answer(u, "file", path, MimeMapGet(path))
           /\ cut' = (cut \/ Len(uri) >= MaxUri)
  <2>1. Stock'
    BY <1>1, <1>4, AddKeeps
  <2>2. Plain(u) => IsBody(u, path, overlay')
    <3> SUFFICES ASSUME Plain(u)
                 PROVE  IsBody(u, path, overlay')
      OBVIOUS
    <3>1. u \notin DOMAIN overlay
      BY <1>4 DEF Stock, Holds, Has
    <3> QED
      BY <1>1, <3>1 DEF IsBody
  <2>3. Answer(u, "file", path, type)
    BY <1>4 DEF type
  <2> QED
    BY <1>2, <2>1, <2>2, <2>3, FileAnswered
<1> QED
  BY <1>3, <1>4 DEF ServeNew

LEMMA WebuiKeeps ==
    ASSUME Stock, MimeInv, Ready, UNCHANGED config,
           NEW u \in Uris, NEW get, ServeWebui(u, get)
    PROVE  Stock' /\ RightBody' /\ RightType'
<1> DEFINE uri == Call(u)
           whole == UriOf(u)
           path == WebPath(u)
<1>1. /\ IsWebui(u)
      /\ ServeNew(u, path, uri) \/ ServeNew(u, path, whole)
  BY DEF ServeWebui
<1>2. /\ Web(u) /\ Web(uri) /\ uri \in Seq(STRING) /\ uri # <<>>
      /\ Len(u) < MaxUri => uri[Len(uri)] = u[Len(u)]
  BY <1>1, WebuiIs
<1>3. /\ whole \in Seq(STRING)
      /\ Len(u) < MaxUri => whole = u
      /\ Len(whole) < MaxUri => Len(u) < MaxUri
  BY CallIs, WholeUri
<1>4. path = ConfDir \o uri
  BY DEF WebPath
<1> HIDE DEF uri, whole, path
<1>5. path \in Seq(STRING) /\ path # <<>> /\ path[Len(path)] = uri[Len(uri)]
  BY <1>2, <1>4, JoinedIs, RouterAssumption
<1>6. ~Plain(u) /\ ~Plain(uri)
  BY <1>2 DEF Plain
<1>7. ~Plain(whole)
  <2>1. Len(whole) \in Nat /\ MaxUri \in Nat
    BY <1>3, RouterAssumption, LenProperties
  <2>2. Plain(whole) => Len(whole) < MaxUri
    BY <2>1 DEF Plain
  <2> QED
    BY <1>3, <1>6, <2>2
<1>8. Len(u) < MaxUri => path # <<>> /\ path[Len(path)] = u[Len(u)]
  BY <1>2, <1>5
<1>9. CASE ServeNew(u, path, uri)
  BY <1>2, <1>5, <1>6, <1>8, <1>9, NewKeeps
<1>10. CASE ServeNew(u, path, whole)
  BY <1>3, <1>5, <1>6, <1>7, <1>8, <1>10, NewKeeps
<1> QED
  BY <1>1, <1>9, <1>10

LEMMA SiteKeeps ==
    ASSUME Stock, MimeInv, Ready, UNCHANGED config,
           NEW u \in Uris, NEW get, NEW path \in PathsOf(u), ServeSite(u, get, path)
    PROVE  Stock' /\ RightBody' /\ RightType'
<1> DEFINE uri == UriOf(u)
<1>1. ServeNew(u, path, uri) /\ uri \in Seq(STRING)
  BY CallIs DEF ServeSite
<1>2. path \in Seq(STRING)
  BY PathIs
<1>3. Len(u) < MaxUri => uri = u
  BY WholeUri
<1>4. Len(uri) < MaxUri => Len(u) < MaxUri
  BY WholeUri
<1> HIDE DEF uri
<1>5. Len(u) \in Nat /\ Len(uri) \in Nat /\ MaxUri \in Nat
  BY <1>1, RouterAssumption, LenProperties
<1>6. /\ Plain(u) => Len(u) < MaxUri
      /\ Plain(uri) => Len(uri) < MaxUri
  BY <1>5 DEF Plain
<1>7. Plain(u) => uri = u
  BY <1>3, <1>6
<1>8. Plain(uri) /\ Len(Root \o uri) <= MaxPath => path = Root \o uri
  BY <1>3, <1>4, <1>6, PathIs
<1>9. Len(u) < MaxUri /\ Len(Root \o u) <= MaxPath =>
        path # <<>> /\ path[Len(path)] = u[Len(u)]
  <2> SUFFICES ASSUME Len(u) < MaxUri, Len(Root \o u) <= MaxPath
               PROVE  path # <<>> /\ path[Len(path)] = u[Len(u)]
    OBVIOUS
  <2>1. path = Root \o u
    BY PathIs
  <2> QED
    BY <2>1, JoinedIs, RouterAssumption
<1> QED
  BY <1>1, <1>2, <1>7, <1>8, <1>9, NewKeeps

\* An addition changes what is added under one key only, which is the URI
\* behind /cache/add.
LEMMA AdditionKeeps ==
    ASSUME Stock, NEW u \in Uris, NEW get, NEW d \in Data, ServeAdd(u, get, d)
    PROVE  Stock' /\ RightBody' /\ RightType'
<1> DEFINE key == Named(u)
           meant == Tail(Tail(u))
<1>1. /\ IsAdd(u) /\ cut' = cut
      /\ Answer(u, "added", d, MimeMapGet(<<".txt">>))
      /\ \/ CacheFileTmp(key, d) /\ overlay' = With(overlay, meant, d)
         \/ FileTableReset(key) /\ overlay' = Without(overlay, meant)
  BY DEF ServeAdd
<1>2. RightBody' /\ RightType'
  BY <1>1, OtherAnswered
<1>3. /\ key \in Seq(STRING) /\ Key(key) = key /\ Len(key) < MaxUri
      /\ \A k : Plain(k) => (k = key <=> k = meant)
  BY <1>1, NamedIs
<1> HIDE DEF key, meant
<1>4. CASE CacheFileTmp(key, d) /\ overlay' = With(overlay, meant, d)
  <2>1. SameBut(overlay, overlay', key)
    BY <1>3, <1>4 DEF SameBut, With
  <2>2. Plain(key) => key \in DOMAIN overlay' /\ overlay'[key] = d
    BY <1>3, <1>4 DEF With
  <2> QED
    BY <1>1, <1>2, <1>3, <1>4, <2>1, <2>2, TmpKeeps
<1>5. CASE FileTableReset(key) /\ overlay' = Without(overlay, meant)
  <2>1. SameBut(overlay, overlay', key)
    BY <1>3, <1>5 DEF SameBut, Without
  <2>2. Plain(key) => key \notin DOMAIN overlay'
    BY <1>3, <1>5 DEF Without
  <2> QED
    BY <1>1, <1>2, <1>5, <2>1, <2>2, ResetKeeps
<1> QED
  BY <1>1, <1>4, <1>5

LEMMA CallKeeps ==
    ASSUME Stock, NEW u \in Uris, NEW get, ServeReset(u, get)
    PROVE  Stock' /\ RightBody' /\ RightType'
<1> DEFINE key == Named(u)
           meant == Tail(Tail(u))
<1>1. /\ IsReset(u) /\ FileTableReset(key) /\ overlay' = Without(overlay, meant)
      /\ cut' = cut /\ Answer(u, "reset", NULL, MimeMapGet(<<".txt">>))
  BY DEF ServeReset
<1>2. \A k : Plain(k) => (k = key <=> k = meant)
  BY <1>1, NamedIs
<1> HIDE DEF key, meant
<1>3. SameBut(overlay, overlay', key)
  BY <1>1, <1>2 DEF SameBut, Without
<1>4. Plain(key) => key \notin DOMAIN overlay'
  BY <1>1, <1>2 DEF Without
<1> QED
  BY <1>1, <1>3, <1>4, ResetKeeps, OtherAnswered

LEMMA Stage30Keeps ==
    ASSUME Stock, MimeInv, NEW u \in Uris, NEW get \in BOOLEAN, Stage30(u, get)
    PROVE  Stock' /\ RightBody' /\ RightType' /\ MimeInv'
<1>1. Ready /\ UNCHANGED <<config, mime_map>>
  BY DEF Stage30
<1>2. MimeInv'
  BY <1>1 DEF MimeInv, cap
<1>3. ASSUME NEW d \in Data, ServeAdd(u, get, d)
      PROVE  Stock' /\ RightBody' /\ RightType'
  BY <1>3, AdditionKeeps
<1>4. CASE ServeReset(u, get)
  BY <1>2, <1>4, CallKeeps
<1>5. CASE ServeStats(u, get)
  <2>1. /\ Answer(u, "stats", NULL, MimeMapGet(<<".json">>))
        /\ UNCHANGED <<table, file, overlay, cut>>
    BY <1>5 DEF ServeStats
  <2> QED
    BY <1>2, <2>1, TableKept, OtherAnswered
<1>6. CASE ServeWebui(u, get)
  BY <1>1, <1>2, <1>6, WebuiKeeps
<1>7. ASSUME NEW path \in PathsOf(u), get, ServeHit(u, path)
      PROVE  Stock' /\ RightBody' /\ RightType'
  BY <1>1, <1>7, HitKeeps
<1>8. ASSUME NEW path \in PathsOf(u), ServeSite(u, get, path)
      PROVE  Stock' /\ RightBody' /\ RightType'
  BY <1>1, <1>8, SiteKeeps
<1>9. ASSUME NEW path \in PathsOf(u), NotMe(u, get, path)
      PROVE  Stock' /\ RightBody' /\ RightType'
  <2>1. Answer(u, "not_me", NULL, "none") /\ UNCHANGED <<table, file, overlay, cut>>
    BY <1>9 DEF NotMe
  <2> QED
    BY <2>1, TableKept, OtherAnswered
<1> QED
  BY <1>2, <1>3, <1>4, <1>5, <1>6, <1>7, <1>8, <1>9 DEF Stage30

LEMMA EvictKeeps ==
    ASSUME IInv, NEW key \in DOMAIN table, Evict(key)
    PROVE  IInv'
<1>1. /\ file[table[key]].evictable /\ FileTableReset(file[table[key]].uri)
      /\ UNCHANGED <<config, mime_map, answer, overlay, cut>>
  BY DEF Evict
<1>2. file[table[key]].uri = key
  BY DEF IInv, IsTable
<1>3. Stock
  BY DEF IInv, Stock
<1>4. Plain(key) => key \notin DOMAIN overlay
  BY <1>1 DEF IInv, Holds
<1>5. SameBut(overlay, overlay', key)
  BY <1>1 DEF SameBut
<1>6. Stock'
  BY <1>1, <1>2, <1>3, <1>4, <1>5, ResetKeeps
<1>7. MimeInv'
  BY <1>1 DEF IInv, MimeInv, cap
<1>8. RightBody' /\ RightType'
  BY <1>1 DEF IInv, RightBody, RightType, Web
<1> QED
  BY <1>6, <1>7, <1>8 DEF IInv, Stock

(***************************************************************************)
(* The theorems.                                                           *)
(***************************************************************************)

LEMMA InitIInv == Init => IInv
<1> SUFFICES ASSUME Init
             PROVE  IInv
  OBVIOUS
<1>1. MimeInv
  <2>1. Cells(MimeInit) \in Seq(Cell) /\ Len(Cells(MimeInit)) = MimeInit
    BY CellsAre, RouterAssumption DEF Cell
  <2>2. Cells(MimeInit) # <<>>
    BY <2>1, EmptySeq, RouterAssumption
  <2>3. config \in Seq(STRING \X STRING) /\ Len(config) \in Nat
    BY RouterAssumption, LenProperties DEF Init
  <2>4. mime_map = [data |-> Cells(MimeInit), size |-> 0]
    BY DEF Init, buf_init
  <2> QED
    BY <2>1, <2>2, <2>3, <2>4, RouterAssumption DEF MimeInv, cap
<1>2. IsTable(table, file) /\ Holds(table, file, overlay) /\ NoneLost
  BY DEF Init, IsTable, Holds, NoneLost
<1>3. RightBody /\ RightType
  BY DEF Init, None, RightBody, RightType
<1> QED
  BY <1>1, <1>2, <1>3 DEF IInv

LEMMA NextIInv == IInv /\ [Next]_vars => IInv'
<1> SUFFICES ASSUME IInv, [Next]_vars
             PROVE  IInv'
  OBVIOUS
<1>1. Stock /\ MimeInv
  BY DEF IInv, Stock
<1>2. CASE MimeMapInit
  <2>1. UNCHANGED <<config, table, file, answer, overlay, cut>>
    BY <1>2 DEF MimeMapInit
  <2>2. Stock' /\ MimeInv'
    BY <1>1, <1>2, <2>1, TableKept, MimeStep
  <2>3. RightBody' /\ RightType'
    BY <2>1 DEF IInv, RightBody, RightType, Web
  <2> QED
    BY <2>2, <2>3 DEF IInv, Stock
<1>3. ASSUME NEW u \in Uris, NEW get \in BOOLEAN, Stage30(u, get)
      PROVE  IInv'
  <2>1. Stock' /\ RightBody' /\ RightType' /\ MimeInv'
    BY <1>1, <1>3, Stage30Keeps
  <2> QED
    BY <2>1 DEF IInv, Stock
<1>4. ASSUME NEW key \in DOMAIN table, Evict(key)
      PROVE  IInv'
  BY <1>4, EvictKeeps
<1>5. CASE UNCHANGED vars
  <2>1. UNCHANGED <<config, mime_map, table, file, answer, overlay, cut>>
    BY <1>5 DEF vars
  <2>2. Stock' /\ MimeInv'
    BY <1>1, <2>1, TableKept DEF MimeInv, cap
  <2>3. RightBody' /\ RightType'
    BY <2>1 DEF IInv, RightBody, RightType, Web
  <2> QED
    BY <2>2, <2>3 DEF IInv, Stock
<1> QED
  BY <1>2, <1>3, <1>4, <1>5 DEF Next

\* The table, the files, the additions and the MIME map are always as IInv
\* says, whatever is asked for, added, reset and evicted (cache.c:322-396).
THEOREM Invariant == Spec => []IInv
<1>1. Init => IInv
  BY InitIInv
<1>2. IInv /\ [Next]_vars => IInv'
  BY NextIInv
<1> QED
  BY <1>1, <1>2, PTL DEF Spec

\* A record's key is its file's URI, so that an eviction removes what it
\* frees, and the MIME map is not written beyond its end (cache_file.c:86,
\* 246; utils.c:41-48).
THEOREM RouterTypes == Spec => []TypeOK
<1>1. IInv => TypeOK
  <2> SUFFICES ASSUME IInv
               PROVE  TypeOK
    OBVIOUS
  <2>1. mime_map.size \in Nat /\ mime_map.size <= cap(mime_map) /\ cap(mime_map) \in Nat
    <3>1. config \in Seq(STRING \X STRING) /\ mime_map.data \in Seq(Cell)
      BY DEF IInv, MimeInv
    <3> QED
      BY <3>1, LenProperties DEF IInv, MimeInv, cap
  <2> QED
    BY <2>1 DEF IInv, IsTable, TypeOK
<1> QED
  BY <1>1, Invariant, PTL

\* A resource that was added is served until it is reset, one that was not is
\* served from its own path, and no call about another URI, no cut and no
\* eviction changes either (cache.c:322-396, cache_file.c:214-215).
THEOREM AnswersRight == Spec => []RightBody
<1>1. IInv => RightBody
  BY DEF IInv
<1> QED
  BY <1>1, Invariant, PTL

\* The first entry of the configuration for the extension decides, however
\* many entries there are and however often the array was made longer
\* (mime_map.c:21-45, utils.c:41-48).
THEOREM TypesRight == Spec => []RightType
<1>1. IInv => RightType
  BY DEF IInv
<1> QED
  BY <1>1, Invariant, PTL

\* A file is lost to the table only by a URI that is too long for file->uri
\* (cache_file.c:192, 214-215, 246).
THEOREM NoFileLost == Spec => []NoneLost
<1>1. IInv => NoneLost
  BY DEF IInv
<1> QED
  BY <1>1, Invariant, PTL
=============================================================================
