--------------------------- MODULE ServeReqProofs ---------------------------
(* Theorems about ServeReq for any number of workers and connections, any   *)
(* sizes of files, pages, pipes and headers.                                *)
EXTENDS ServeReq, FiniteSetTheorems, SequenceTheorems, NaturalsInduction, TLAPS

(***************************************************************************)
(* Sequences of bytes.                                                     *)
(***************************************************************************)

LEMMA IsSeq ==
    ASSUME NEW S, NEW n \in Nat, NEW f \in [1 .. n -> S]
    PROVE  f \in Seq(S) /\ Len(f) = n /\ DOMAIN f = 1 .. n
<1>1. f \in Seq(S)
  BY SeqDef
<1>2. DOMAIN f = 1 .. n /\ DOMAIN f = 1 .. Len(f) /\ Len(f) \in Nat
  BY <1>1, LenProperties
<1> QED
  BY <1>1, <1>2

LEMMA PartIs ==
    ASSUME NEW a \in Int, NEW b \in Int, a <= b
    PROVE  /\ Part(a, b) \in Seq(Int) /\ Len(Part(a, b)) = b - a
           /\ \A i \in 1 .. b - a : Part(a, b)[i] = a + i - 1
<1>1. b - a \in Nat /\ Part(a, b) \in [1 .. b - a -> Int]
  BY DEF Part
<1>2. \A i \in 1 .. b - a : Part(a, b)[i] = a + i - 1
  BY DEF Part
<1> QED
  BY <1>1, <1>2, IsSeq

LEMMA PartEmpty ==
    ASSUME NEW a \in Int
    PROVE  Part(a, a) = <<>>
<1>1. Part(a, a) \in Seq(Int) /\ Len(Part(a, a)) = 0
  BY PartIs
<1> QED
  BY <1>1, EmptySeq

\* A sequence that has the bytes [a, b) one after the other.
LEMMA IsPart ==
    ASSUME NEW a \in Int, NEW b \in Int, a <= b, NEW s \in Seq(Int), Len(s) = b - a,
           \A i \in 1 .. b - a : s[i] = a + i - 1
    PROVE  s = Part(a, b)
<1>1. /\ Part(a, b) \in Seq(Int) /\ Len(Part(a, b)) = b - a
      /\ \A i \in 1 .. b - a : Part(a, b)[i] = a + i - 1
  BY PartIs
<1>2. \A i \in 1 .. Len(s) : s[i] = Part(a, b)[i]
  BY <1>1
<1> HIDE DEF Part
<1> QED
  BY <1>1, <1>2, SeqEqual

LEMMA PartConcat ==
    ASSUME NEW a \in Int, NEW b \in Int, NEW c \in Int, a <= b, b <= c
    PROVE  Part(a, b) \o Part(b, c) = Part(a, c)
<1> DEFINE s == Part(a, b)
           t == Part(b, c)
<1>1. /\ s \in Seq(Int) /\ Len(s) = b - a /\ \A i \in 1 .. b - a : s[i] = a + i - 1
      /\ t \in Seq(Int) /\ Len(t) = c - b /\ \A i \in 1 .. c - b : t[i] = b + i - 1
  BY PartIs
<1> HIDE DEF s, t
<1>2. /\ s \o t \in Seq(Int) /\ Len(s \o t) = (b - a) + (c - b)
      /\ \A i \in 1 .. (b - a) + (c - b) :
           (s \o t)[i] = IF i <= b - a THEN s[i] ELSE t[i - (b - a)]
  <2>1. /\ s \o t \in Seq(Int) /\ Len(s \o t) = Len(s) + Len(t)
        /\ \A i \in 1 .. Len(s) + Len(t) :
             (s \o t)[i] = IF i <= Len(s) THEN s[i] ELSE t[i - Len(s)]
    BY <1>1, ConcatProperties
  <2> QED
    BY <1>1, <2>1
<1>3. (b - a) + (c - b) = c - a
  OBVIOUS
<1>4. ASSUME NEW i \in 1 .. c - a
      PROVE  (s \o t)[i] = a + i - 1
  <2>1. CASE i <= b - a
    BY <1>1, <1>2, <1>3, <2>1
  <2>2. CASE ~(i <= b - a)
    <3>1. i - (b - a) \in 1 .. c - b /\ b + (i - (b - a)) - 1 = a + i - 1
      BY <2>2
    <3> QED
      BY <1>1, <1>2, <1>3, <2>2, <3>1
  <2> QED
    BY <2>1, <2>2
<1>5. s \o t = Part(a, c)
  <2>1. a <= c /\ Len(s \o t) = c - a
    BY <1>2, <1>3
  <2> QED
    BY <1>2, <1>4, <2>1, IsPart
<1> QED
  BY <1>5 DEF s, t

LEMMA PartCut ==
    ASSUME NEW a \in Int, NEW b \in Int, NEW n \in Nat, a + n <= b
    PROVE  /\ SubSeq(Part(a, b), 1, n) = Part(a, a + n)
           /\ SubSeq(Part(a, b), n + 1, Len(Part(a, b))) = Part(a + n, b)
<1> DEFINE s == Part(a, b)
<1>1. /\ s \in Seq(Int) /\ Len(s) = b - a /\ \A i \in 1 .. b - a : s[i] = a + i - 1
  <2>1. a <= b
    OBVIOUS
  <2> QED
    BY <2>1, PartIs
<1> HIDE DEF s
<1>2. SubSeq(s, 1, n) = Part(a, a + n)
  <2> DEFINE t == SubSeq(s, 1, n)
             c == a + n
  <2>1. \A i \in 1 .. n : s[i] \in Int /\ s[i] = a + i - 1
    BY <1>1
  <2>2. /\ t \in Seq(Int) /\ Len(t) = IF 1 <= n THEN n - 1 + 1 ELSE 0
        /\ \A i \in 1 .. n - 1 + 1 : t[i] = s[1 + i - 1]
    BY <2>1, SubSeqProperties
  <2> HIDE DEF t
  <2>3. Len(t) = n /\ \A i \in 1 .. n : t[i] = a + i - 1
    BY <2>1, <2>2
  <2>4. c \in Int /\ a <= c /\ c - a = n
    OBVIOUS
  <2> HIDE DEF c
  <2>5. t = Part(a, c)
    BY <2>2, <2>3, <2>4, IsPart
  <2> QED
    BY <2>5 DEF c, t
<1>3. SubSeq(s, n + 1, Len(s)) = Part(a + n, b)
  <2> DEFINE m == b - a
             t == SubSeq(s, n + 1, m)
  <2>1. \A i \in n + 1 .. m : s[i] \in Int /\ s[i] = a + i - 1
    BY <1>1
  <2>2. /\ t \in Seq(Int)
        /\ Len(t) = IF n + 1 <= m THEN m - (n + 1) + 1 ELSE 0
        /\ \A i \in 1 .. m - (n + 1) + 1 : t[i] = s[n + 1 + i - 1]
    BY <2>1, SubSeqProperties
  <2> HIDE DEF t
  <2>3. Len(t) = b - (a + n)
    BY <2>2
  <2>4. ASSUME NEW i \in 1 .. b - (a + n)
        PROVE  t[i] = a + n + i - 1
    <3>1. i \in 1 .. m - (n + 1) + 1 /\ n + 1 + i - 1 \in n + 1 .. m
          /\ a + (n + 1 + i - 1) - 1 = a + n + i - 1
      OBVIOUS
    <3> QED
      BY <2>1, <2>2, <3>1
  <2>5. t = Part(a + n, b)
    BY <2>2, <2>3, <2>4, IsPart
  <2> QED
    BY <1>1, <2>5 DEF t
<1> QED
  BY <1>2, <1>3 DEF s

LEMMA Smallest ==
    ASSUME NEW T \in SUBSET Nat, T # {}
    PROVE  \E m \in T : \A k \in T : m <= k
<1>1. PICK m \in T : \A k \in T : ~(<<k, m>> \in OpToRel(<, Nat))
  BY NatLessThanWellFounded, WFMin
<1>2. \A k \in T : ~(k < m)
  BY <1>1 DEF OpToRel
<1> QED
  BY <1>2

(***************************************************************************)
(* Buffers of a pipe.                                                      *)
(***************************************************************************)

LEMMA SlotsAre == Page \in Nat \ {0} /\ Slots \in Nat \ {0} /\ HeaderLen \in 1 .. Page
  BY ServeAssumption

LEMMA BuffersAre ==
    ASSUME NEW s \in Seq(Int)
    PROVE  IsFiniteSet(Starts(s)) /\ Buffers(s) \in Nat
<1>1. DOMAIN s = 1 .. Len(s) /\ Len(s) \in Nat
  BY LenProperties
<1>2. IsFiniteSet(1 .. Len(s))
  BY <1>1, FS_Interval
<1>3. Starts(s) \in SUBSET (1 .. Len(s))
  BY <1>1 DEF Starts
<1> QED
  BY <1>2, <1>3, FS_Subset, FS_CardinalityType DEF Buffers

LEMMA NoBuffers == Buffers(<<>>) = 0 /\ Buffers(<<>>) <= Slots
<1>1. DOMAIN <<>> = {}
  OBVIOUS
<1>2. Starts(<<>>) = {}
  BY <1>1 DEF Starts
<1> QED
  BY <1>2, SlotsAre, FS_EmptySet DEF Buffers

\* A pipe takes a first part of what is spliced into it, and keeps to its
\* buffers.
LEMMA FitsAre ==
    ASSUME NEW p \in Seq(Int), NEW s \in Seq(Int), Buffers(p) <= Slots
    PROVE  \E m \in 0 .. Len(s) :
             /\ Fitting(p, s) = SubSeq(s, 1, m)
             /\ Buffers(p \o SubSeq(s, 1, m)) <= Slots
             /\ \A k \in 0 .. Len(s) : Buffers(p \o SubSeq(s, 1, k)) <= Slots => k <= m
<1> DEFINE R == Room(p, s)
           T == {n \in 0 .. Len(s) : Len(s) - n \in R}
<1>1. Len(s) \in Nat /\ R \in SUBSET (0 .. Len(s))
  BY LenProperties DEF Room
<1>2. 0 \in R
  <2>1. SubSeq(s, 1, 0) = <<>>
    BY SubSeqEmpty
  <2>2. p \o <<>> = p
    BY ConcatEmptySeq
  <2>3. p \o SubSeq(s, 1, 0) = p
    BY <2>1, <2>2
  <2>4. Buffers(p \o SubSeq(s, 1, 0)) <= Slots
    BY <2>3
  <2> QED
    BY <1>1, <2>4 DEF Room
<1>3. \A k : k \in R <=> k \in 0 .. Len(s) /\ Buffers(p \o SubSeq(s, 1, k)) <= Slots
  BY DEF Room
<1>4. Fitting(p, s) = SubSeq(s, 1, Max(R))
  BY DEF Fitting
<1> HIDE DEF R
<1>5. \E m \in R : \A k \in R : m >= k
  <2>1. T \in SUBSET Nat /\ Len(s) \in T
    BY <1>1, <1>2
  <2>2. PICK n \in T : \A k \in T : n <= k
    <3> HIDE DEF T
    <3> QED
      BY <2>1, Smallest
  <2>3. \A k \in R : Len(s) - k \in T
    BY <1>1
  <2>4. Len(s) - n \in R /\ n \in Nat
    BY <2>2
  <2>5. \A k \in R : n <= Len(s) - k
    BY <2>2, <2>3
  <2>6. \A k \in R : Len(s) - n >= k
    <3> HIDE DEF T
    <3> QED
      BY <1>1, <2>4, <2>5
  <2> QED
    BY <2>4, <2>6
<1>6. Max(R) \in R /\ \A k \in R : Max(R) >= k
  BY <1>5 DEF Max
<1> QED
  BY <1>1, <1>3, <1>4, <1>6

LEMMA FitsAll ==
    ASSUME NEW p \in Seq(Int), NEW s \in Seq(Int), Buffers(p) <= Slots,
           Buffers(p \o s) <= Slots
    PROVE  Fitting(p, s) = s
<1>1. PICK m \in 0 .. Len(s) :
             /\ Fitting(p, s) = SubSeq(s, 1, m)
             /\ \A k \in 0 .. Len(s) : Buffers(p \o SubSeq(s, 1, k)) <= Slots => k <= m
  BY FitsAre
<1>2. SubSeq(s, 1, Len(s)) = s
  BY SubSeqFull
<1>3. Len(s) \in Nat
  BY LenProperties
<1>4. Len(s) <= m
  <2>1. Buffers(p \o SubSeq(s, 1, Len(s))) <= Slots
    BY <1>2
  <2> QED
    BY <1>1, <1>3, <2>1
<1>5. m = Len(s)
  BY <1>3, <1>4
<1> QED
  BY <1>1, <1>2, <1>5

LEMMA FitsEmpty ==
    ASSUME NEW s \in Seq(Int), Buffers(s) <= Slots
    PROVE  Fitting(<<>>, s) = s
<1>1. <<>> \in Seq(Int) /\ <<>> \o s = s
  BY EmptySeq, ConcatEmptySeq
<1> QED
  BY <1>1, NoBuffers, FitsAll

\* What a pipe has is a sequence of bytes, in as many buffers as it takes.
PipeHas(s) == s \in Seq(Int) /\ Buffers(s) <= Slots

LEMMA FitsStay ==
    ASSUME NEW p, PipeHas(p), NEW s \in Seq(Int)
    PROVE  /\ Fitting(p, s) \in Seq(Int) /\ PipeHas(p \o Fitting(p, s))
           /\ Len(p \o Fitting(p, s)) = Len(p) + Len(Fitting(p, s))
           /\ Len(Fitting(p, s)) \in Nat
           /\ Len(Fitting(p, s)) <= Len(s)
           /\ \A i \in 1 .. Len(Fitting(p, s)) : Fitting(p, s)[i] = s[i]
<1>1. PICK m \in 0 .. Len(s) :
             /\ Fitting(p, s) = SubSeq(s, 1, m)
             /\ Buffers(p \o SubSeq(s, 1, m)) <= Slots
  BY FitsAre DEF PipeHas
<1> DEFINE t == SubSeq(s, 1, m)
<1>2. Len(s) \in Nat /\ \A i \in 1 .. m : s[i] \in Int
  BY LenProperties, ElementOfSeq
<1>3. /\ t \in Seq(Int) /\ Len(t) = IF 1 <= m THEN m - 1 + 1 ELSE 0
      /\ \A i \in 1 .. m - 1 + 1 : t[i] = s[1 + i - 1]
  BY <1>2, SubSeqProperties
<1> HIDE DEF t
<1>4. Len(t) = m /\ \A i \in 1 .. m : t[i] = s[i]
  BY <1>3
<1>5. p \o t \in Seq(Int) /\ Len(p \o t) = Len(p) + Len(t)
  BY <1>3, ConcatProperties DEF PipeHas
<1> QED
  BY <1>1, <1>2, <1>3, <1>4, <1>5 DEF PipeHas, t

\* A part of the file that begins with a page, and is no more than a pipe
\* takes, takes no more buffers than that.
LEMMA PagesFit ==
    ASSUME NEW q \in Int, NEW b \in Int, q * Page <= b, b <= q * Page + Cap
    PROVE  PipeHas(Part(q * Page, b))
<1> DEFINE a == q * Page
           s == Part(a, b)
           S == Starts(s)
           K == 0 .. Slots - 1
           f == [k \in K |-> k * Page + 1]
           T == {f[k] : k \in K}
<1>1. /\ Page \in Nat \ {0} /\ Slots \in Nat \ {0} /\ a \in Int
      /\ Cap = Page * Slots /\ Cap \in Nat /\ b - a <= Cap
  <2>1. Page \in Nat \ {0} /\ Slots \in Nat \ {0} /\ a \in Int /\ Cap = Page * Slots
    BY SlotsAre DEF Cap
  <2>2. Cap \in Nat
    BY <2>1
  <2>3. b - a <= Cap
    <3> HIDE DEF Cap
    <3> QED
      BY <2>1, <2>2
  <2> QED
    BY <2>1, <2>2, <2>3
<1>2. /\ s \in Seq(Int) /\ Len(s) = b - a /\ \A i \in 1 .. b - a : s[i] = a + i - 1
      /\ DOMAIN s = 1 .. b - a
  <2>1. /\ s \in Seq(Int) /\ Len(s) = b - a /\ \A i \in 1 .. b - a : s[i] = a + i - 1
    BY <1>1, PartIs
  <2> HIDE DEF s
  <2> QED
    BY <2>1, LenProperties
<1>3. ASSUME NEW i \in S
      PROVE  i \in T
  <2> HIDE DEF s
  <2>1. i \in 1 .. b - a /\ s[i] = a + i - 1
        /\ (i = 1 \/ s[i] % Page = 0 \/ s[i] # s[i - 1] + 1)
    BY <1>2 DEF Starts
  <2>2. i # 1 => i - 1 \in 1 .. b - a /\ s[i - 1] = a + (i - 1) - 1
    BY <1>1, <1>2, <2>1
  <2> HIDE DEF a
  <2>3. i = 1 \/ (a + i - 1) % Page = 0
    BY <1>1, <2>1, <2>2
  <2>4. (a + i - 1) % Page = 0
    <3>1. CASE i = 1
      <4>1. (q * Page) % Page = 0
        BY <1>1
      <4>2. a + i - 1 = q * Page
        BY <1>1, <3>1 DEF a
      <4> QED
        BY <4>1, <4>2
    <3> QED
      BY <2>3, <3>1
  <2> DEFINE x == a + i - 1
             d == x \div Page
  <2>5. x \in Int /\ x = d * Page /\ d \in Int
    BY <1>1, <2>1, <2>4
  <2> HIDE DEF x, d
  <2>6. (d - q) * Page = d * Page - q * Page
    BY <1>1, <2>5
  <2>7. i = (d - q) * Page + 1
    BY <1>1, <2>1, <2>5, <2>6 DEF x, a
  <2>8. d - q \in K
    <3> DEFINE k == d - q
    <3>1. k \in Int /\ i = k * Page + 1 /\ i >= 1 /\ i - 1 < Page * Slots
      <4>1. k \in Int /\ i = k * Page + 1
        BY <2>5, <2>7
      <4>2. i >= 1 /\ i - 1 < Cap
        BY <1>1, <2>1
      <4> QED
        BY <1>1, <4>1, <4>2
    <3> HIDE DEF k
    <3>2. k >= 0
      <4>1. CASE k <= -1
        <5>1. k * Page <= (-1) * Page
          BY <1>1, <3>1, <4>1
        <5> QED
          BY <1>1, <3>1, <5>1
      <4> QED
        BY <3>1, <4>1
    <3>3. k < Slots
      <4>1. CASE Slots <= k
        <5>1. Slots * Page <= k * Page
          BY <1>1, <3>1, <4>1
        <5>2. Slots * Page = Page * Slots
          BY <1>1
        <5> QED
          BY <1>1, <3>1, <5>1, <5>2
      <4> QED
        BY <1>1, <3>1, <4>1
    <3> QED
      BY <1>1, <3>1, <3>2, <3>3 DEF k
  <2>9. i = f[d - q]
    BY <2>7, <2>8
  <2> QED
    BY <2>8, <2>9
<1>4. IsFiniteSet(K) /\ Cardinality(K) = Slots
  <2> DEFINE c == Slots - 1
  <2>1. c \in Int /\ 0 \in Int /\ ~(0 > c) /\ c - 0 + 1 = Slots
    BY <1>1
  <2> HIDE DEF c
  <2>2. IsFiniteSet(0 .. c) /\ Cardinality(0 .. c) = IF 0 > c THEN 0 ELSE c - 0 + 1
    BY <2>1, FS_Interval
  <2>3. Cardinality(0 .. c) = Slots
    BY <2>1, <2>2
  <2> QED
    BY <2>2, <2>3 DEF c
<1>5. IsFiniteSet(T) /\ Cardinality(T) <= Cardinality(K)
  <2>1. f \in Surjection(K, T)
    BY DEF Surjection
  <2> QED
    BY <1>4, <2>1, FS_Surjection
<1> HIDE DEF S, T, K
<1>6. Cardinality(S) <= Cardinality(T) /\ Cardinality(S) \in Nat /\ Cardinality(T) \in Nat
  <2>1. S \in SUBSET T
    BY <1>3
  <2> QED
    BY <1>5, <2>1, FS_Subset, FS_CardinalityType
<1>7. Cardinality(S) <= Slots
  BY <1>1, <1>4, <1>5, <1>6
<1> QED
  BY <1>2, <1>7 DEF PipeHas, Buffers, S

\* No page begins inside the headers.
LEMMA NoPage ==
    ASSUME NEW x \in Int, -Page < x, x < 0
    PROVE  x % Page # 0
<1> DEFINE d == x \div Page
<1>1. Page \in Nat \ {0}
  BY SlotsAre
<1>2. d \in Int /\ (x % Page = 0 => x = d * Page)
  BY <1>1
<1> HIDE DEF d
<1>3. ASSUME x = d * Page
      PROVE  FALSE
  <2>1. d < 0
    <3>1. CASE d >= 0
      <4>1. d * Page >= 0
        BY <1>1, <1>2, <3>1
      <4> QED
        BY <1>3, <4>1
    <3> QED
      BY <1>2, <3>1
  <2>2. d * Page <= (-1) * Page
    BY <1>1, <1>2, <2>1
  <2> QED
    BY <1>1, <1>2, <1>3, <2>2
<1> QED
  BY <1>2, <1>3

\* The headers take one buffer.
LEMMA HeaderFits ==
    /\ PipeHas(Header) /\ Len(Header) = HeaderLen /\ Buffers(Header) = 1
    /\ \A i \in 1 .. HeaderLen : Header[i] = i - 1 - HeaderLen
<1>1. /\ Page \in Nat \ {0} /\ Slots \in Nat \ {0} /\ HeaderLen \in 1 .. Page
      /\ -HeaderLen \in Int /\ -HeaderLen <= 0
  BY SlotsAre
<1>2. /\ Header \in Seq(Int) /\ Len(Header) = 0 - (-HeaderLen)
      /\ \A i \in 1 .. 0 - (-HeaderLen) : Header[i] = -HeaderLen + i - 1
  <2>1. -HeaderLen \in Int /\ 0 \in Int /\ -HeaderLen <= 0
    BY <1>1
  <2> DEFINE h == -HeaderLen
  <2> HIDE DEF h
  <2>2. /\ Part(h, 0) \in Seq(Int) /\ Len(Part(h, 0)) = 0 - h
        /\ \A i \in 1 .. 0 - h : Part(h, 0)[i] = h + i - 1
    BY <2>1, PartIs DEF h
  <2> QED
    BY <2>2 DEF Header, h
<1>3. /\ Header \in Seq(Int) /\ Len(Header) = HeaderLen /\ DOMAIN Header = 1 .. HeaderLen
      /\ \A i \in 1 .. HeaderLen : Header[i] = i - 1 - HeaderLen
  <2>1. 0 - (-HeaderLen) = HeaderLen /\ \A i \in Int : -HeaderLen + i - 1 = i - 1 - HeaderLen
    BY <1>1
  <2> QED
    BY <1>2, <2>1, LenProperties
<1>4. Starts(Header) = {1}
  <2>1. ASSUME NEW i \in 2 .. HeaderLen
        PROVE  Header[i] % Page # 0 /\ Header[i] = Header[i - 1] + 1
    <3>1. i \in 1 .. HeaderLen /\ i - 1 \in 1 .. HeaderLen
      BY <1>1
    <3>2. Header[i] = Header[i - 1] + 1
      BY <1>1, <1>3, <3>1
    <3> DEFINE x == i - 1 - HeaderLen
    <3>3. x \in Int /\ -Page < x /\ x < 0 /\ Header[i] = x
      BY <1>1, <1>3, <3>1
    <3> HIDE DEF x
    <3>4. x % Page # 0
      BY <3>3, NoPage
    <3> QED
      BY <3>2, <3>3, <3>4
  <2>2. \A i \in 1 .. HeaderLen : i = 1 \/ i \in 2 .. HeaderLen
    BY <1>1
  <2>3. 1 \in 1 .. HeaderLen
    BY <1>1
  <2> QED
    BY <1>3, <2>1, <2>2, <2>3 DEF Starts
<1>5. Buffers(Header) = 1
  BY <1>4, FS_Singleton DEF Buffers
<1> QED
  BY <1>1, <1>3, <1>5 DEF PipeHas

(***************************************************************************)
(* The inductive invariant.                                                *)
(***************************************************************************)

\* What the code counts of a pipe is what is in it.
PipeIs(p) ==
    /\ p \in [data : Seq(Int), filled : Nat, locked : BOOLEAN]
    /\ PipeHas(p.data) /\ p.filled = Len(p.data)

FileBytes(s) == \A i \in 1 .. Len(s) : s[i] >= 0

\* The headers, and nothing but bytes of the file behind them.
HeadersFirst(s) ==
    /\ HeaderLen <= Len(s)
    /\ \A i \in 1 .. HeaderLen : s[i] = i - 1 - HeaderLen
    /\ \A i \in HeaderLen + 1 .. Len(s) : s[i] >= 0

Pooled == [data : Seq(Int), filled : Nat]

Types ==
    /\ size \in Nat \ {0}
    /\ header_len \in {0, HeaderLen}
    /\ req \in [Conns -> Requests \cup {NoReq}]
    /\ rcvd \in [Conns -> Seq(Int)]
    /\ pool \in [Workers -> Seq(Pooled)]
    /\ pc \in [Workers -> Labels]
    /\ conn \in [Workers -> Conns \cup {NoReq}]
    /\ early \in [Workers -> BOOLEAN]
    /\ want \in [Workers -> Int \X Int]

CacheOk ==
    /\ cache = [i \in Pipes |-> cache[i]]
    /\ \A i \in Pipes : PipeIs(cache[i]) /\ FileBytes(cache[i].data)

HeadersOk ==
    /\ PipeIs(headers)
    /\ headers.filled # 0 => header_len = HeaderLen /\ HeadersFirst(headers.data)

\* A request has come to a pipe of the cache or to their end, and never back
\* before the file.
ReqOk(r) ==
    r # NoReq => /\ r.filled = Len(r.buf) /\ Off(r) >= 0 /\ r.curr \in Pipes \cup {0}

PoolOk(s) == \A i \in 1 .. Len(s) : s[i].filled = Len(s[i].data)

AtPipe == {"fill", "vmsplice", "filled", "tee"}
AtHeaders == {"headers", "hlock", "hcheck", "hfile", "answer"}
AtLock == {"hcheck", "hfile"}
Afterwards == {"idle", "loop", "tee", "send", "end"}

\* A worker in a handler has a request of its own; until it is answered the
\* pipe of the request is empty.
WorkerOk(w) ==
    /\ pc[w] # "idle" => /\ conn[w] \in Conns /\ WorkerOf[conn[w]] = w
                         /\ Req(w) # NoReq
    /\ pc[w] \in AtPipe => Req(w).curr # 0
    /\ pc[w] \in Afterwards => ~early[w]
    /\ pc[w] \in AtHeaders => early[w]
    /\ early[w] \/ pc[w] = "tee" => Req(w).filled = 0
    /\ pc[w] = "vmsplice" => 0 <= want[w][1] /\ want[w][1] <= want[w][2]
    /\ pc[w] \in AtLock => headers.locked
    /\ pc[w] = "hfile" => headers.data = Header

OneLocks == \A v, w \in Workers : pc[v] \in AtLock /\ pc[w] \in AtLock => v = w

IInv ==
    /\ Types /\ CacheOk /\ HeadersOk /\ OneLocks
    /\ \A c \in Conns : ReqOk(req[c])
    /\ \A w \in Workers : PoolOk(pool[w]) /\ WorkerOk(w)
    /\ bug # "short"

LEMMA FirstPipe ==
    ASSUME Types
    PROVE  1 \in Pipes /\ Cap \in Nat \ {0} /\ Pipes \in SUBSET (Nat \ {0})
<1> DEFINE n == size + Cap - 1
           d == n \div Cap
<1>1. size \in Nat \ {0} /\ Cap \in Nat \ {0}
  <2>1. Page \in Nat \ {0} /\ Slots \in Nat \ {0} /\ size \in Nat \ {0}
    BY SlotsAre DEF Types
  <2>2. Page * Slots \in Nat /\ Page * Slots # 0
    BY <2>1
  <2> QED
    BY <2>1, <2>2 DEF Cap
<1> HIDE DEF Cap
<1>2. n \in Nat /\ Cap <= n
  BY <1>1
<1> HIDE DEF n
<1>3. d \in Nat /\ 1 <= d
  <2>1. d \in Nat /\ n < d * Cap + Cap
    BY <1>1, <1>2
  <2>2. CASE d = 0
    <3>1. d * Cap = 0
      BY <1>1, <2>2
    <3> QED
      BY <1>1, <1>2, <2>1, <3>1
  <2> QED
    BY <2>1, <2>2
<1>4. Pipes = 1 .. d
  BY DEF Pipes, n
<1> HIDE DEF d
<1> QED
  BY <1>1, <1>3, <1>4

LEMMA EmptyIs == PipeIs(EmptyPipe) /\ FileBytes(<<>>)
<1>1. <<>> \in Seq(Int) /\ Len(<<>>) = 0
  BY EmptySeq
<1>2. PipeHas(<<>>)
  BY <1>1, NoBuffers DEF PipeHas
<1> QED
  BY <1>1, <1>2 DEF PipeIs, FileBytes, EmptyPipe

LEMMA InitIInv == Init => IInv
<1> SUFFICES ASSUME Init
             PROVE  IInv
  OBVIOUS
<1>1. <<>> \in Seq(Int) /\ <<>> \in Seq(Pooled) /\ Len(<<>>) = 0
  BY EmptySeq
<1>2. Types
  <2>1. size \in Nat \ {0} /\ header_len \in {0, HeaderLen}
    BY ServeAssumption DEF Init
  <2>2. /\ req \in [Conns -> Requests \cup {NoReq}]
        /\ rcvd \in [Conns -> Seq(Int)]
        /\ conn \in [Workers -> Conns \cup {NoReq}]
        /\ pool \in [Workers -> Seq(Pooled)]
    <3> HIDE DEF Requests, Pooled
    <3> QED
      BY <1>1 DEF Init
  <2>3. pc \in [Workers -> Labels] /\ early \in [Workers -> BOOLEAN]
    BY DEF Init, Labels
  <2>4. want \in [Workers -> Int \X Int]
    <3>1. <<0, 0>> \in Int \X Int
      OBVIOUS
    <3> QED
      BY <3>1 DEF Init
  <2> QED
    BY <2>1, <2>2, <2>3, <2>4 DEF Types
<1>3. CacheOk
  BY EmptyIs DEF Init, CacheOk, EmptyPipe
<1>4. HeadersOk
  BY EmptyIs DEF Init, HeadersOk, EmptyPipe
<1>5. OneLocks
  BY DEF Init, OneLocks, AtLock
<1>6. \A c \in Conns : ReqOk(req[c])
  BY DEF Init, ReqOk
<1>7. \A w \in Workers : PoolOk(pool[w]) /\ WorkerOk(w)
  BY <1>1 DEF Init, PoolOk, WorkerOk, AtPipe, AtHeaders, AtLock, Afterwards
<1>8. bug # "short"
  BY DEF Init
<1> QED
  BY <1>2, <1>3, <1>4, <1>5, <1>6, <1>7, <1>8 DEF IInv

\* A worker that does not move keeps its invariant, for nobody else changes
\* its request, or the headers while it has them locked.
LEMMA Others ==
    ASSUME IInv, NEW w \in Workers, NEW v \in Workers, v # w,
           pc'[v] = pc[v], conn'[v] = conn[v], early'[v] = early[v], want'[v] = want[v],
           \A c \in Conns : WorkerOf[c] # w => req'[c] = req[c],
           pc[v] \in AtLock => headers'.locked /\ headers'.data = headers.data
    PROVE  WorkerOk(v)'
<1>1. WorkerOk(v)
  BY DEF IInv
<1>2. pc[v] # "idle" => conn[v] \in Conns /\ req'[conn[v]] = req[conn[v]]
  BY <1>1 DEF WorkerOk
<1>3. /\ pc'[v] # "idle" => conn'[v] \in Conns /\ WorkerOf[conn'[v]] = v
                            /\ Req(v)' # NoReq /\ Req(v)' = Req(v)
      /\ pc'[v] \in Afterwards => ~early'[v]
      /\ pc'[v] \in AtHeaders => early'[v]
      /\ pc'[v] = "vmsplice" => 0 <= want'[v][1] /\ want'[v][1] <= want'[v][2]
      /\ pc'[v] \in AtLock => headers'.locked
      /\ pc'[v] = "hfile" => headers'.data = Header
  BY <1>1, <1>2 DEF WorkerOk, Req, AtLock
<1>4. /\ pc'[v] \in AtPipe => Req(v)'.curr # 0
      /\ early'[v] \/ pc'[v] = "tee" => Req(v)'.filled = 0
  BY <1>1, <1>3 DEF WorkerOk, AtPipe, Afterwards
<1> QED
  BY <1>3, <1>4 DEF WorkerOk, Afterwards, AtHeaders

\* Who has the headers locked while a worker moves to l.
LEMMA KeepOneLocks ==
    ASSUME IInv, NEW w \in Workers, NEW l, Goto(w, l),
           l \in AtLock => pc[w] \in AtLock
    PROVE  OneLocks'
<1>1. \A v \in Workers : pc'[v] \in AtLock => pc[v] \in AtLock
  BY DEF IInv, Types, Goto
<1> QED
  BY <1>1 DEF IInv, OneLocks

\* The parts of the invariant that steps leave alone.
LEMMA KeepCache ==
    ASSUME IInv, UNCHANGED <<size, cache>>
    PROVE  CacheOk'
  BY DEF IInv, CacheOk, Pipes

LEMMA KeepHeaders ==
    ASSUME IInv, UNCHANGED <<headers, header_len>>
    PROVE  HeadersOk'
  BY DEF IInv, HeadersOk

\* A step of worker w, as the invariant sees it.
OfWorker(w) ==
    /\ \A v \in Workers : v # w =>
         /\ pc'[v] = pc[v] /\ conn'[v] = conn[v] /\ early'[v] = early[v]
         /\ want'[v] = want[v] /\ pool'[v] = pool[v]
         /\ pc[v] \in AtLock => headers'.locked /\ headers'.data = headers.data
    /\ \A c \in Conns : WorkerOf[c] # w => req'[c] = req[c]

LEMMA StepKeeps ==
    ASSUME IInv, NEW w \in Workers, OfWorker(w), Types', CacheOk', HeadersOk', OneLocks',
           \A c \in Conns : WorkerOf[c] = w => ReqOk(req[c])',
           UNCHANGED size, PoolOk(pool[w])', WorkerOk(w)', bug' # "short"
    PROVE  IInv'
<1>1. ASSUME NEW v \in Workers
      PROVE  PoolOk(pool[v])' /\ WorkerOk(v)'
  <2>1. CASE v = w
    BY <2>1
  <2>2. CASE v # w
    <3>1. WorkerOk(v)'
      BY <2>2, Others DEF OfWorker
    <3>2. PoolOk(pool[v])'
      <4>1. pool'[v] = pool[v] /\ PoolOk(pool[v])
        BY <2>2 DEF OfWorker, IInv
      <4> QED
        BY <4>1 DEF PoolOk
    <3> QED
      BY <3>1, <3>2
  <2> QED
    BY <2>1, <2>2
<1>2. ASSUME NEW c \in Conns
      PROVE  ReqOk(req[c])'
  <2>1. CASE WorkerOf[c] = w
    BY <2>1
  <2>2. CASE WorkerOf[c] # w
    BY <2>2 DEF OfWorker, IInv, ReqOk, Off, Pipes
  <2> QED
    BY <2>1, <2>2
<1> QED
  BY <1>1, <1>2 DEF IInv

\* A step that only moves a worker, or counts what the client got.
LEMMA Moves ==
    ASSUME IInv, NEW w \in Workers, NEW l \in Labels, Goto(w, l),
           UNCHANGED <<file, req, pool>>,
           NEW c \in Conns \cup {NoReq}, conn' = [conn EXCEPT ![w] = c],
           NEW e \in BOOLEAN, early' = [early EXCEPT ![w] = e],
           NEW t \in Int \X Int, want' = [want EXCEPT ![w] = t],
           rcvd' \in [Conns -> Seq(Int)],
           l \in AtLock => pc[w] \in AtLock,
           WorkerOk(w)', bug' # "short"
    PROVE  IInv'
<1>1. Types
  BY DEF IInv
<1>2. Types'
  <2>1. /\ pc' \in [Workers -> Labels] /\ conn' \in [Workers -> Conns \cup {NoReq}]
        /\ early' \in [Workers -> BOOLEAN] /\ want' \in [Workers -> Int \X Int]
    BY <1>1 DEF Types, Goto
  <2> QED
    BY <1>1, <2>1 DEF Types, file
<1>3. OfWorker(w)
  BY <1>1 DEF OfWorker, Types, Goto, file, IInv, WorkerOk
<1>4. CacheOk' /\ HeadersOk'
  BY KeepCache, KeepHeaders DEF file
<1>5. OneLocks'
  BY KeepOneLocks
<1>6. \A d \in Conns : ReqOk(req[d])'
  BY DEF IInv, ReqOk, Off, Pipes, file
<1>7. PoolOk(pool[w])'
  BY DEF IInv, PoolOk
<1> QED
  BY <1>2, <1>3, <1>4, <1>5, <1>6, <1>7, StepKeeps DEF file

LEMMA MovesOnly ==
    ASSUME IInv, NEW w \in Workers, NEW l \in Labels, Goto(w, l),
           UNCHANGED <<file, req, pool, locals>>,
           rcvd' \in [Conns -> Seq(Int)],
           l \in AtLock => pc[w] \in AtLock,
           WorkerOk(w)', bug' # "short"
    PROVE  IInv'
<1>1. /\ conn[w] \in Conns \cup {NoReq} /\ conn = [conn EXCEPT ![w] = conn[w]]
      /\ early[w] \in BOOLEAN /\ early = [early EXCEPT ![w] = early[w]]
      /\ want[w] \in Int \X Int /\ want = [want EXCEPT ![w] = want[w]]
  BY DEF IInv, Types
<1>2. UNCHANGED <<file, req, pool>> /\ conn' = conn /\ early' = early /\ want' = want
  BY DEF locals
<1> QED
  BY <1>1, <1>2, Moves

\* What is known of the request a worker serves.
LEMMA Serving ==
    ASSUME IInv, NEW w \in Workers, pc[w] # "idle"
    PROVE  /\ WorkerOk(w) /\ conn[w] \in Conns /\ WorkerOf[conn[w]] = w
           /\ pc \in [Workers -> Labels] /\ conn \in [Workers -> Conns \cup {NoReq}]
           /\ early \in [Workers -> BOOLEAN]
           /\ Req(w) \in Requests /\ Req(w) # NoReq /\ Req(w) = req[conn[w]]
           /\ Req(w).bytes_offset \in Int /\ Req(w).bytes_to_send \in Int
           /\ Req(w).buf \in Seq(Int) /\ Req(w).filled \in Nat
           /\ Req(w).filled = Len(Req(w).buf) /\ Off(Req(w)) \in Nat
           /\ Req(w).curr \in Pipes \cup {0}
<1>1. /\ WorkerOk(w) /\ Types /\ \A c \in Conns : ReqOk(req[c])
  BY DEF IInv
<1>2. conn[w] \in Conns /\ WorkerOf[conn[w]] = w /\ Req(w) # NoReq /\ Req(w) = req[conn[w]]
  BY <1>1 DEF WorkerOk, Req
<1>3. Req(w) \in Requests
  BY <1>1, <1>2 DEF Types
<1> DEFINE r == Req(w)
<1>4. ReqOk(r)
  BY <1>1, <1>2
<1> HIDE DEF r
<1>5. r.bytes_offset \in Int /\ r.bytes_to_send \in Int /\ r.buf \in Seq(Int) /\ r.filled \in Int
  BY <1>3 DEF r, Requests
<1>6. r.filled = Len(r.buf) /\ Off(r) >= 0 /\ r.curr \in Pipes \cup {0}
  BY <1>2, <1>4 DEF r, ReqOk
<1>7. r.filled \in Nat /\ Off(r) \in Nat
  BY <1>5, <1>6, LenProperties DEF Off
<1> QED
  BY <1>1, <1>2, <1>3, <1>5, <1>6, <1>7 DEF r, Types

(***************************************************************************)
(* The steps.                                                              *)
(***************************************************************************)

LEMMA HeadersKeeps ==
    ASSUME IInv, NEW w \in Workers, Headers(w)
    PROVE  IInv'
<1> USE DEF AtPipe, AtHeaders, AtLock, Afterwards
<1>1. PICK l \in {"hlock", "answer"} : Goto(w, l)
  BY DEF Headers
<1>2. pc[w] = "headers" /\ UNCHANGED <<file, req, rcvd, pool, locals, bug>>
  BY DEF Headers
<1>3. WorkerOk(w)'
  BY <1>1, <1>2, Serving DEF WorkerOk, Req, Goto, file, locals
<1>4. l \in Labels /\ rcvd' \in [Conns -> Seq(Int)] /\ bug' # "short"
  BY <1>1, <1>2 DEF Labels, IInv, Types
<1> QED
  BY <1>1, <1>2, <1>3, <1>4, MovesOnly

LEMMA AnswerDirectKeeps ==
    ASSUME IInv, NEW w \in Workers, AnswerDirect(w)
    PROVE  IInv'
<1> USE DEF AtPipe, AtHeaders, AtLock, Afterwards
<1>1. /\ pc[w] = "answer" /\ Goto(w, "loop") /\ early' = [early EXCEPT ![w] = FALSE]
      /\ rcvd' = [rcvd EXCEPT ![conn[w]] = @ \o Header]
      /\ UNCHANGED <<file, req, pool, conn, want, bug>>
  BY DEF AnswerDirect
<1>2. WorkerOk(w)'
  BY <1>1, Serving DEF WorkerOk, Req, Goto, file, locals
<1>3. rcvd' \in [Conns -> Seq(Int)]
  <2>1. \A c \in Conns : rcvd[c] \in Seq(Int) /\ rcvd[c] \o Header \in Seq(Int)
    BY HeaderFits, ConcatProperties DEF IInv, Types, PipeHas
  <2> QED
    BY <1>1, <2>1 DEF IInv, Types
<1>4. /\ "loop" \in Labels /\ conn[w] \in Conns \cup {NoReq} /\ conn = [conn EXCEPT ![w] = conn[w]]
      /\ want[w] \in Int \X Int /\ want = [want EXCEPT ![w] = want[w]] /\ bug # "short"
  BY DEF IInv, Types, Labels
<1> QED
  BY <1>1, <1>2, <1>3, <1>4, Moves

\* What cache_req_fill_curr has found when it returns.
LEMMA FillReturnsOk ==
    ASSUME IInv, NEW w \in Workers, pc[w] \in {"fill", "filled"}, NEW b \in BOOLEAN,
           FillReturns(w, b), UNCHANGED <<req, headers, locals>>
    PROVE  WorkerOk(w)' /\ \E l \in Labels : Goto(w, l) /\ l \notin AtLock
<1> USE DEF AtPipe, AtHeaders, AtLock, Afterwards
<1>1. PICK l \in {"headers", "tee", "send"} :
            /\ Goto(w, l)
            /\ l = "headers" <=> early[w]
            /\ l = "tee" => Req(w).filled = 0
  BY DEF FillReturns
<1>2. l \in Labels
  BY DEF Labels
<1>3. WorkerOk(w)'
  BY <1>1, Serving DEF WorkerOk, Req, Goto, locals
<1> QED
  BY <1>1, <1>2, <1>3

LEMMA FilledKeeps ==
    ASSUME IInv, NEW w \in Workers, Filled(w)
    PROVE  IInv'
<1>1. /\ pc[w] \in {"fill", "filled"} /\ UNCHANGED <<file, req, rcvd, pool, locals, bug>>
      /\ UNCHANGED <<req, headers, locals>>
      /\ \E b \in BOOLEAN : FillReturns(w, b)
  BY DEF Filled, file
<1>2. PICK l \in Labels : Goto(w, l) /\ l \notin AtLock /\ WorkerOk(w)'
  BY <1>1, FillReturnsOk
<1>3. rcvd' \in [Conns -> Seq(Int)] /\ bug' # "short"
  BY <1>1 DEF IInv, Types
<1> QED
  BY <1>1, <1>2, <1>3, MovesOnly

LEMMA FillKeeps ==
    ASSUME IInv, NEW w \in Workers, Fill(w)
    PROVE  IInv'
<1> DEFINE r == Req(w)
           from == Off(r) + Curr(w).filled
           to == Off(r) + FillLen(r)
           t == <<from, to>>
<1>1. pc[w] = "fill" /\ UNCHANGED <<file, req, rcvd, pool, conn, early, ret>>
      /\ MkBugUnless(Off(r) <= size /\ FillLen(r) >= 0, "past")
  BY DEF Fill
<1>2. rcvd' \in [Conns -> Seq(Int)] /\ bug' # "short"
  BY <1>1 DEF IInv, Types, MkBugUnless
<1>3. CASE ~(Curr(w).filled < FillLen(r))
  <2>1. /\ pc[w] \in {"fill", "filled"} /\ UNCHANGED <<file, req, pool, locals>>
        /\ UNCHANGED <<req, headers, locals>>
        /\ \E b \in BOOLEAN : FillReturns(w, b)
    BY <1>1, <1>3 DEF Fill, file, locals
  <2>2. PICK l \in Labels : Goto(w, l) /\ l \notin AtLock /\ WorkerOk(w)'
    BY <2>1, FillReturnsOk
  <2> QED
    BY <1>2, <2>1, <2>2, MovesOnly
<1>4. CASE Curr(w).filled < FillLen(r)
  <2>1. want' = [want EXCEPT ![w] = t] /\ Goto(w, "vmsplice")
    BY <1>4 DEF Fill
  <2>2. /\ Off(r) \in Nat /\ Curr(w).filled \in Nat /\ size \in Int /\ Cap \in Int
    <3>1. r.curr \in Pipes /\ Types
      BY <1>1, Serving DEF WorkerOk, AtPipe, IInv
    <3>2. PipeIs(Curr(w))
      BY <3>1 DEF Curr, IInv, CacheOk
    <3> QED
      BY <1>1, <3>1, <3>2, Serving, FirstPipe DEF PipeIs, Types
  <2>3. FillLen(r) \in Int
    <3> HIDE DEF r, Cap
    <3> QED
      BY <2>2 DEF FillLen
  <2>4. from \in Nat /\ to \in Int /\ from <= to
    <3> HIDE DEF r
    <3> QED
      BY <1>4, <2>2, <2>3
  <2> HIDE DEF from, to
  <2>5. t \in Int \X Int /\ t[1] = from /\ t[2] = to
    BY <2>4
  <2>6. "vmsplice" \in Labels /\ "vmsplice" \notin AtLock
    BY DEF Labels, AtLock
  <2> HIDE DEF t
  <2>7. want'[w] = t /\ pc'[w] = "vmsplice" /\ conn' = conn /\ early' = early /\ Req(w)' = Req(w)
    BY <1>1, <2>1 DEF IInv, Types, Goto, Req
  <2>8. WorkerOk(w)'
    BY <1>1, <2>4, <2>5, <2>7, Serving DEF WorkerOk, AtPipe, AtHeaders, AtLock, Afterwards
  <2>9. /\ conn[w] \in Conns \cup {NoReq} /\ conn = [conn EXCEPT ![w] = conn[w]]
        /\ early[w] \in BOOLEAN /\ early = [early EXCEPT ![w] = early[w]]
    BY DEF IInv, Types
  <2> QED
    BY <1>1, <1>2, <2>1, <2>5, <2>6, <2>8, <2>9, Moves
<1> QED
  BY <1>3, <1>4

LEMMA ServeReturnsKeeps ==
    ASSUME IInv, NEW w \in Workers, pc[w] \in {"loop", "send"}, NEW result,
           ServeReturns(w, result), UNCHANGED <<file, req, rcvd, pool>>, bug' # "short"
    PROVE  IInv'
<1>1. PICK l \in {"idle", "end"}, c \in Conns \cup {NoReq} :
            /\ Goto(w, l) /\ conn' = [conn EXCEPT ![w] = c]
            /\ UNCHANGED <<early, want>>
            /\ l = "end" => c = conn[w]
  <2>1. CASE result = "more"
    BY <2>1 DEF ServeReturns, Leave
  <2>2. CASE result # "more"
    <3>1. conn = [conn EXCEPT ![w] = conn[w]] /\ conn[w] \in Conns \cup {NoReq}
      BY DEF IInv, Types
    <3> QED
      BY <2>2, <3>1 DEF ServeReturns
  <2> QED
    BY <2>1, <2>2
<1>2. /\ l \in Labels /\ l \notin AtLock /\ pc[w] # "idle" /\ UNCHANGED <<file, req, pool>>
      /\ early[w] \in BOOLEAN /\ early' = [early EXCEPT ![w] = early[w]]
      /\ want[w] \in Int \X Int /\ want' = [want EXCEPT ![w] = want[w]]
      /\ rcvd' \in [Conns -> Seq(Int)]
  BY <1>1 DEF IInv, Types, Labels, AtLock
<1>3. WorkerOk(w)'
  BY <1>1, <1>2, Serving
  DEF WorkerOk, Req, Goto, AtPipe, AtHeaders, AtLock, Afterwards
<1> QED
  BY <1>1, <1>2, <1>3, Moves

LEMMA SendNothingKeeps ==
    ASSUME IInv, NEW w \in Workers, SendNothing(w) \/ SendFails(w)
    PROVE  IInv'
<1>1. /\ pc[w] \in {"loop", "send"} /\ UNCHANGED <<file, req, rcvd, pool>> /\ bug' # "short"
      /\ \E result : ServeReturns(w, result)
  BY DEF SendNothing, SendFails, IInv
<1> QED
  BY <1>1, ServeReturnsKeeps

LEMMA LoopKeeps ==
    ASSUME IInv, NEW w \in Workers, Loop(w)
    PROVE  IInv'
<1> DEFINE r == Req(w)
           goes == r.bytes_to_send > 0 /\ (r.curr # 0 \/ r.filled # 0)
<1>1. pc[w] = "loop" /\ UNCHANGED <<file, req, rcvd, pool>>
  BY DEF Loop
<1>2. bug' # "short"
  BY DEF Loop, MkBugUnless, IInv
<1>3. CASE ~goes
  <2>1. \E result : ServeReturns(w, result)
    BY <1>3 DEF Loop
  <2> QED
    BY <1>1, <1>2, <2>1, ServeReturnsKeeps
<1>4. CASE goes
  <2>1. PICK l \in {"fill", "send"} :
              /\ Goto(w, l)
              /\ l = "fill" => r.curr # 0
    BY <1>4 DEF Loop
  <2>2. UNCHANGED locals
    BY <1>4 DEF Loop
  <2>3. l \in Labels /\ l \notin AtLock /\ rcvd' \in [Conns -> Seq(Int)]
    BY <1>1 DEF IInv, Types, Labels, AtLock
  <2>4. WorkerOk(w)'
    BY <1>1, <2>1, <2>2, Serving
    DEF WorkerOk, Req, Goto, locals, AtPipe, AtHeaders, AtLock, Afterwards
  <2> QED
    BY <1>1, <1>2, <2>1, <2>2, <2>3, <2>4, MovesOnly
<1> QED
  BY <1>3, <1>4

LEMMA EventWriteKeeps ==
    ASSUME IInv, NEW w \in Workers, NEW c \in Conns, EventWrite(w, c)
    PROVE  IInv'
<1>1. /\ pc[w] = "idle" /\ Goto(w, "loop") /\ conn' = [conn EXCEPT ![w] = c]
      /\ WorkerOf[c] = w /\ req[c] # NoReq
      /\ UNCHANGED <<file, req, rcvd, pool, early, want, bug>>
  BY DEF EventWrite, Enter
<1>2. /\ "loop" \in Labels /\ "loop" \notin AtLock /\ UNCHANGED <<file, req, pool>>
      /\ early[w] \in BOOLEAN /\ early' = [early EXCEPT ![w] = early[w]]
      /\ want[w] \in Int \X Int /\ want' = [want EXCEPT ![w] = want[w]]
      /\ rcvd' \in [Conns -> Seq(Int)] /\ bug' # "short"
  BY <1>1 DEF IInv, Types, Labels, AtLock
<1>3. WorkerOk(w)'
  <2>1. WorkerOk(w) /\ pc'[w] = "loop" /\ conn'[w] = c /\ Req(w)' = req[c]
    BY <1>1 DEF IInv, Types, Goto, Req
  <2> QED
    BY <1>1, <2>1 DEF WorkerOk, AtPipe, AtHeaders, AtLock, Afterwards
<1> QED
  BY <1>1, <1>2, <1>3, Moves

LEMMA EventDropKeeps ==
    ASSUME IInv, NEW w \in Workers, NEW c \in Conns, EventDrop(w, c)
    PROVE  IInv'
<1>1. /\ pc[w] = "idle" /\ Goto(w, "end") /\ conn' = [conn EXCEPT ![w] = c]
      /\ WorkerOf[c] = w /\ req[c] # NoReq
      /\ UNCHANGED <<file, req, rcvd, pool, early, want, bug>>
  BY DEF EventDrop, Enter
<1>2. /\ "end" \in Labels /\ "end" \notin AtLock /\ UNCHANGED <<file, req, pool>>
      /\ early[w] \in BOOLEAN /\ early' = [early EXCEPT ![w] = early[w]]
      /\ want[w] \in Int \X Int /\ want' = [want EXCEPT ![w] = want[w]]
      /\ rcvd' \in [Conns -> Seq(Int)] /\ bug' # "short"
  BY <1>1 DEF IInv, Types, Labels, AtLock
<1>3. WorkerOk(w)'
  <2>1. WorkerOk(w) /\ pc'[w] = "end" /\ conn'[w] = c /\ Req(w)' = req[c]
    BY <1>1 DEF IInv, Types, Goto, Req
  <2> QED
    BY <1>1, <2>1 DEF WorkerOk, AtPipe, AtHeaders, AtLock, Afterwards
<1> QED
  BY <1>1, <1>2, <1>3, Moves

\* A step that moves a worker and changes its request, or ends it, or begins
\* another.
LEMMA Changes ==
    ASSUME IInv, NEW w \in Workers, NEW l \in Labels, Goto(w, l), l \notin AtLock,
           NEW c \in Conns, WorkerOf[c] = w,
           NEW x \in Requests \cup {NoReq}, req' = [req EXCEPT ![c] = x], ReqOk(x),
           NEW q \in Seq(Pooled), pool' = [pool EXCEPT ![w] = q], PoolOk(q),
           NEW d \in Conns \cup {NoReq}, conn' = [conn EXCEPT ![w] = d],
           NEW e \in BOOLEAN, early' = [early EXCEPT ![w] = e],
           UNCHANGED <<file, want>>, rcvd' \in [Conns -> Seq(Int)],
           WorkerOk(w)', bug' # "short"
    PROVE  IInv'
<1>1. Types
  BY DEF IInv
<1>2. Types'
  <2>1. /\ pc' \in [Workers -> Labels] /\ conn' \in [Workers -> Conns \cup {NoReq}]
        /\ early' \in [Workers -> BOOLEAN] /\ pool' \in [Workers -> Seq(Pooled)]
    BY <1>1 DEF Types, Goto
  <2>2. req' \in [Conns -> Requests \cup {NoReq}]
    <3> HIDE DEF Requests
    <3> QED
      BY <1>1 DEF Types
  <2> QED
    BY <1>1, <2>1, <2>2 DEF Types, file
<1>3. OfWorker(w)
  <2>1. \A v \in Workers : v # w =>
          /\ pc'[v] = pc[v] /\ conn'[v] = conn[v] /\ early'[v] = early[v]
          /\ want'[v] = want[v] /\ pool'[v] = pool[v]
    BY <1>1 DEF Types, Goto
  <2>2. \A b \in Conns : WorkerOf[b] # w => req'[b] = req[b]
    BY <1>1 DEF Types
  <2>3. \A v \in Workers : pc[v] \in AtLock => headers'.locked /\ headers'.data = headers.data
    BY DEF IInv, WorkerOk, file
  <2> QED
    BY <2>1, <2>2, <2>3 DEF OfWorker
<1>4. CacheOk' /\ HeadersOk'
  BY KeepCache, KeepHeaders DEF file
<1>5. OneLocks'
  BY KeepOneLocks
<1>6. ASSUME NEW b \in Conns
      PROVE  ReqOk(req[b])'
  <2>1. req'[b] = x \/ req'[b] = req[b]
    BY <1>1 DEF Types
  <2>2. ReqOk(req[b])
    BY DEF IInv
  <2>3. UNCHANGED size
    BY DEF file
  <2> QED
    BY <2>1, <2>2, <2>3 DEF ReqOk, Off, Pipes
<1>7. PoolOk(pool[w])'
  <2>1. pool'[w] = q
    BY <1>1 DEF Types
  <2> QED
    BY <2>1 DEF PoolOk
<1>8. UNCHANGED size
  BY DEF file
<1> QED
  BY <1>2, <1>3, <1>4, <1>5, <1>6, <1>7, <1>8, StepKeeps

\* The same for a step in the request of the worker.
LEMMA ChangesOwn ==
    ASSUME IInv, NEW w \in Workers, pc[w] # "idle", NEW l \in Labels, Goto(w, l),
           l \notin AtLock, NEW x \in Requests, req' = [req EXCEPT ![conn[w]] = x], ReqOk(x),
           NEW e \in BOOLEAN, early' = [early EXCEPT ![w] = e],
           UNCHANGED <<file, pool, conn, want>>, rcvd' \in [Conns -> Seq(Int)],
           l \in {"loop", "send"}, ~e, bug' # "short"
    PROVE  IInv'
<1>1. /\ conn[w] \in Conns \cup {NoReq} /\ conn' = [conn EXCEPT ![w] = conn[w]]
      /\ pool[w] \in Seq(Pooled) /\ pool' = [pool EXCEPT ![w] = pool[w]] /\ PoolOk(pool[w])
  BY DEF IInv, Types
<1>2. conn[w] \in Conns /\ WorkerOf[conn[w]] = w
  BY Serving
<1>3. WorkerOk(w)'
  <2>1. pc'[w] = l /\ conn'[w] = conn[w] /\ early'[w] = e
    BY DEF IInv, Types, Goto
  <2>2. Req(w)' # NoReq
    <3>1. x # NoReq
      <4> HIDE DEF Requests
      <4> QED
        BY ServeAssumption
    <3>2. req'[conn[w]] = x
      BY <1>2 DEF IInv, Types
    <3> QED
      BY <2>1, <3>1, <3>2 DEF Req
  <2> QED
    BY <1>2, <2>1, <2>2 DEF WorkerOk, AtPipe, AtHeaders, AtLock, Afterwards
<1>4. UNCHANGED <<file, want>> /\ x \in Requests \cup {NoReq}
  OBVIOUS
<1> QED
  BY <1>1, <1>2, <1>3, <1>4, Changes

LEMMA SendSomeKeeps ==
    ASSUME IInv, NEW w \in Workers, SendSome(w)
    PROVE  IInv'
<1> DEFINE r == Req(w)
<1>1. pc[w] = "send" /\ Goto(w, "loop") /\ UNCHANGED <<file, pool, locals>>
  BY DEF SendSome
<1>2. PICK n \in 1 .. Least(r.filled, Len(r.buf)) :
        /\ req' = [req EXCEPT ![conn[w]] =
                     [bytes_offset |-> r.bytes_offset + n,
                      bytes_to_send |-> r.bytes_to_send - n, curr |-> r.curr,
                      buf |-> DropBytes(r.buf, n), filled |-> r.filled - n]]
        /\ rcvd' = [rcvd EXCEPT ![conn[w]] = @ \o TakeBytes(r.buf, n)]
        /\ MkBugUnless(r.bytes_to_send >= n, "over")
  BY DEF SendSome
<1> DEFINE rest == DropBytes(r.buf, n)
           some == TakeBytes(r.buf, n)
           x == [bytes_offset |-> r.bytes_offset + n,
                 bytes_to_send |-> r.bytes_to_send - n, curr |-> r.curr,
                 buf |-> rest, filled |-> r.filled - n]
<1>3. /\ r \in Requests /\ r.bytes_offset \in Int /\ r.bytes_to_send \in Int
      /\ r.buf \in Seq(Int) /\ r.filled = Len(r.buf) /\ r.filled \in Nat
      /\ Off(r) \in Nat /\ r.curr \in Pipes \cup {0} /\ conn[w] \in Conns
      /\ ~early[w] /\ early \in [Workers -> BOOLEAN]
  BY <1>1, Serving DEF WorkerOk, Afterwards
<1>4. n \in Nat /\ n <= Len(r.buf)
  <2> HIDE DEF r
  <2> QED
    BY <1>3 DEF Least
<1>5. some \in Seq(Int) /\ rest \in Seq(Int) /\ Len(rest) = Len(r.buf) - n
  <2> HIDE DEF r
  <2> DEFINE s == r.buf
  <2>1. s \in Seq(Int) /\ Len(s) \in Nat /\ \A i \in 1 .. Len(s) : s[i] \in Int
    BY <1>3, ElementOfSeq, LenProperties
  <2> HIDE DEF s
  <2>2. \A i \in 1 .. n : s[i] \in Int
    BY <1>3, <1>4, <2>1 DEF s
  <2>3. SubSeq(s, 1, n) \in Seq(Int)
    BY <1>4, <2>2, SubSeqProperties
  <2> DEFINE m == Len(s)
             k == n + 1
  <2>4. m \in Int /\ k \in Int /\ \A i \in k .. m : s[i] \in Int
    BY <1>4, <2>1
  <2>5. IF k <= m THEN m - k + 1 = m - n ELSE 0 = m - n
    BY <1>3, <1>4, <2>4 DEF s
  <2>6. Least(n, m) = n
    BY <1>4, <2>4 DEF Least, s
  <2> HIDE DEF m, k
  <2>7. /\ SubSeq(s, k, m) \in Seq(Int)
        /\ Len(SubSeq(s, k, m)) = IF k <= m THEN m - k + 1 ELSE 0
    BY <2>4, SubSeqProperties
  <2>8. Len(SubSeq(s, k, m)) = m - n
    BY <2>5, <2>7
  <2> QED
    BY <2>3, <2>6, <2>7, <2>8 DEF TakeBytes, DropBytes, s, m, k
<1> HIDE DEF r, rest, some
<1>6. x \in Requests /\ ReqOk(x)
  <2>1. /\ r.bytes_offset + n \in Int /\ r.bytes_to_send - n \in Int /\ r.filled - n \in Int
        /\ r.filled - n = Len(rest) /\ (r.bytes_offset + n) + (r.filled - n) >= 0
    <3> DEFINE a == r.bytes_offset
               b == r.filled
    <3>1. a \in Int /\ b \in Nat /\ a + b >= 0 /\ n \in Nat
      BY <1>3, <1>4 DEF Off
    <3> HIDE DEF a, b
    <3>2. a + n \in Int /\ b - n \in Int /\ (a + n) + (b - n) >= 0
      BY <3>1
    <3>3. r.bytes_to_send - n \in Int /\ r.filled - n = Len(rest)
      BY <1>3, <1>4, <1>5
    <3> QED
      BY <3>2, <3>3 DEF a, b
  <2>2. r.curr \in Nat
    BY <1>3 DEF Requests
  <2> QED
    BY <1>3, <1>5, <2>1, <2>2 DEF Requests, ReqOk, Off
<1>7. rcvd' \in [Conns -> Seq(Int)]
  <2>1. rcvd \in [Conns -> Seq(Int)] /\ rcvd[conn[w]] \o some \in Seq(Int)
    BY <1>3, <1>5, ConcatProperties DEF IInv, Types
  <2> QED
    BY <1>2, <2>1 DEF some
<1>8. /\ req' = [req EXCEPT ![conn[w]] = x] /\ bug' # "short"
      /\ FALSE \in BOOLEAN /\ early' = [early EXCEPT ![w] = FALSE]
      /\ UNCHANGED <<file, pool, conn, want>> /\ "loop" \in Labels /\ "loop" \notin AtLock
  BY <1>1, <1>2, <1>3 DEF rest, r, MkBugUnless, IInv, locals, Labels, AtLock
<1> HIDE DEF x
<1> QED
  BY <1>1, <1>6, <1>7, <1>8, ChangesOwn

\* All that a pipe has is duplicated into an empty one.
LEMMA TeeAll ==
    ASSUME NEW p, PipeIs(p)
    PROVE  TakeBytes(p.data, p.filled) = p.data /\ Tee(p.data, <<>>, p.filled) = p.data
<1> DEFINE s == p.data
<1>1. s \in Seq(Int) /\ Buffers(s) <= Slots /\ p.filled = Len(s) /\ Len(s) \in Nat
  BY LenProperties DEF PipeIs, PipeHas
<1> HIDE DEF s
<1>2. SubSeq(s, 1, Len(s)) = s
  BY <1>1, SubSeqFull
<1>3. Least(Len(s), Len(s)) = Len(s)
  BY DEF Least
<1>4. TakeBytes(s, p.filled) = s
  BY <1>1, <1>2, <1>3 DEF TakeBytes
<1>5. Fitting(<<>>, s) = s
  BY <1>1, FitsEmpty
<1> QED
  BY <1>4, <1>5 DEF Tee, s

LEMMA EmptyBuf ==
    ASSUME NEW s \in Seq(Int), Len(s) = 0
    PROVE  s = <<>>
  BY EmptySeq

LEMMA TeeCurrKeeps ==
    ASSUME IInv, NEW w \in Workers, TeeCurr(w)
    PROVE  IInv'
<1> DEFINE r == Req(w)
           p == Curr(w)
           some == Tee(p.data, r.buf, p.filled)
           i == IF r.curr + 1 \in Pipes THEN r.curr + 1 ELSE 0
           x == [bytes_offset |-> r.bytes_offset, bytes_to_send |-> r.bytes_to_send,
                 curr |-> i, buf |-> r.buf \o some, filled |-> r.filled + Len(some)]
           eagain == some = <<>> /\ p.filled # 0
<1>1. /\ pc[w] = "tee" /\ Goto(w, "send") /\ UNCHANGED <<file, rcvd, pool, locals, bug>>
      /\ req' = IF eagain THEN req ELSE [req EXCEPT ![conn[w]] = x]
  BY DEF TeeCurr
<1>2. /\ r \in Requests /\ r.bytes_offset \in Int /\ r.bytes_to_send \in Int
      /\ r.buf \in Seq(Int) /\ r.filled = 0 /\ r.filled = Len(r.buf)
      /\ Off(r) \in Nat /\ r.curr \in Pipes /\ conn[w] \in Conns
      /\ ~early[w] /\ early \in [Workers -> BOOLEAN]
  BY <1>1, Serving DEF WorkerOk, Afterwards, AtPipe
<1>3. "send" \in Labels /\ "send" \notin AtLock /\ bug' # "short" /\ rcvd' \in [Conns -> Seq(Int)]
  BY <1>1 DEF Labels, AtLock, IInv, Types
<1>4. CASE eagain
  <2>1. UNCHANGED <<file, req, pool, locals>>
    BY <1>1, <1>4
  <2>2. WorkerOk(w)'
    BY <1>1, <2>1, Serving
    DEF WorkerOk, Req, Goto, locals, AtPipe, AtHeaders, AtLock, Afterwards
  <2> QED
    BY <1>1, <1>3, <2>1, <2>2, MovesOnly
<1>5. CASE ~eagain
  <2>1. req' = [req EXCEPT ![conn[w]] = x]
    BY <1>1, <1>5
  <2>2. p.data \in Seq(Int) /\ some = p.data /\ r.buf = <<>>
    <3>1. PipeIs(p)
      BY <1>2 DEF IInv, CacheOk, Curr
    <3>2. r.buf = <<>>
      <4> HIDE DEF r
      <4> QED
        BY <1>2, EmptyBuf
    <3> QED
      BY <3>1, <3>2, TeeAll DEF PipeIs
  <2>3. /\ r.buf \o some \in Seq(Int) /\ r.filled + Len(some) = Len(r.buf \o some)
        /\ Len(some) \in Nat
    <3> HIDE DEF p, some, r
    <3> QED
      BY <1>2, <2>2, ConcatProperties, LenProperties
  <2>4. i \in Nat /\ i \in Pipes \cup {0}
    BY <1>2, FirstPipe DEF IInv
  <2> HIDE DEF r, p, some, i
  <2>5. x \in Requests /\ ReqOk(x)
    <3>1. /\ r.filled + Len(some) \in Int
          /\ r.bytes_offset + (r.filled + Len(some)) >= 0
      BY <1>2, <2>3 DEF Off
    <3> QED
      BY <1>2, <2>3, <2>4, <3>1 DEF Requests, ReqOk, Off
  <2>6. /\ FALSE \in BOOLEAN /\ early' = [early EXCEPT ![w] = FALSE]
        /\ UNCHANGED <<file, pool, conn, want>>
    BY <1>1, <1>2 DEF locals
  <2> HIDE DEF x
  <2> QED
    BY <1>1, <1>3, <2>1, <2>5, <2>6, ChangesOwn
<1> QED
  BY <1>4, <1>5

LEMMA AnswerCachedKeeps ==
    ASSUME IInv, NEW w \in Workers, AnswerCached(w)
    PROVE  IInv'
<1> DEFINE r == Req(w)
           some == Tee(headers.data, r.buf, headers.filled)
           x == [bytes_offset |-> r.bytes_offset - header_len,
                 bytes_to_send |-> r.bytes_to_send + header_len, curr |-> r.curr,
                 buf |-> r.buf \o some, filled |-> r.filled + Len(some)]
<1>1. /\ pc[w] = "answer" /\ Goto(w, "loop") /\ headers.filled # 0
      /\ early' = [early EXCEPT ![w] = FALSE] /\ req' = [req EXCEPT ![conn[w]] = x]
      /\ UNCHANGED <<file, rcvd, pool, conn, want>>
      /\ MkBugUnless(Len(some) >= header_len, "short")
  BY DEF AnswerCached
<1>2. /\ r \in Requests /\ r.bytes_offset \in Int /\ r.bytes_to_send \in Int
      /\ r.buf \in Seq(Int) /\ r.filled = 0 /\ r.filled = Len(r.buf)
      /\ Off(r) \in Nat /\ r.curr \in Pipes \cup {0}
  BY <1>1, Serving DEF WorkerOk, AtHeaders
<1>3. header_len \in Int /\ HeaderLen \in Int
  BY SlotsAre DEF IInv, Types
<1>4. /\ headers.data \in Seq(Int) /\ some = headers.data /\ r.buf = <<>>
      /\ Len(some) \in Nat /\ Len(some) >= header_len
  <2>1. PipeIs(headers) /\ header_len = HeaderLen /\ HeadersFirst(headers.data)
    BY <1>1 DEF IInv, HeadersOk
  <2>2. r.buf = <<>>
    <3> HIDE DEF r
    <3> QED
      BY <1>2, EmptyBuf
  <2>3. headers.data \in Seq(Int) /\ some = headers.data
    BY <2>1, <2>2, TeeAll DEF PipeIs
  <2>4. Len(some) \in Nat /\ HeaderLen <= Len(some)
    <3>1. Len(headers.data) \in Nat
      BY <2>3, LenProperties
    <3> HIDE DEF some
    <3> QED
      BY <2>1, <2>3, <3>1 DEF HeadersFirst
  <2> QED
    BY <1>3, <2>1, <2>2, <2>3, <2>4
<1>5. /\ r.buf \o some \in Seq(Int) /\ r.filled + Len(some) = Len(r.buf \o some)
  <2> HIDE DEF some, r
  <2> QED
    BY <1>2, <1>4, ConcatProperties, LenProperties
<1>6. bug' # "short"
  <2> HIDE DEF some
  <2> QED
    BY <1>1, <1>4 DEF MkBugUnless, IInv
<1> HIDE DEF r, some
<1>7. x \in Requests /\ ReqOk(x)
  <2>1. /\ r.filled + Len(some) \in Int /\ r.bytes_offset - header_len \in Int
        /\ r.bytes_to_send + header_len \in Int
        /\ (r.bytes_offset - header_len) + (r.filled + Len(some)) >= 0
    BY <1>2, <1>3, <1>4 DEF Off
  <2>2. r.curr \in Nat
    BY <1>2 DEF Requests
  <2> QED
    BY <1>2, <1>5, <2>1, <2>2 DEF Requests, ReqOk, Off
<1>8. /\ FALSE \in BOOLEAN /\ UNCHANGED <<file, pool, conn, want>> /\ pc[w] # "idle"
      /\ "loop" \in Labels /\ "loop" \notin AtLock /\ rcvd' \in [Conns -> Seq(Int)]
  BY <1>1 DEF Labels, AtLock, IInv, Types
<1> HIDE DEF x
<1> QED
  BY <1>1, <1>6, <1>7, <1>8, ChangesOwn

LEMMA EndReqKeeps ==
    ASSUME IInv, NEW w \in Workers, EndReq(w)
    PROVE  IInv'
<1> DEFINE r == Req(w)
           s == pool[w]
           p == [data |-> r.buf, filled |-> r.filled]
           q == IF Len(s) < PoolMax THEN Append(s, p) ELSE s
<1>1. /\ pc[w] = "end" /\ Goto(w, "idle") /\ conn' = [conn EXCEPT ![w] = NoReq]
      /\ req' = [req EXCEPT ![conn[w]] = NoReq] /\ pool' = [pool EXCEPT ![w] = q]
      /\ UNCHANGED <<file, rcvd, bug, early, want>>
  BY DEF EndReq, Leave
<1>2. /\ r.buf \in Seq(Int) /\ r.filled \in Nat /\ r.filled = Len(r.buf)
      /\ conn[w] \in Conns /\ WorkerOf[conn[w]] = w /\ ~early[w]
  BY <1>1, Serving DEF WorkerOk, Afterwards
<1>3. s \in Seq(Pooled) /\ PoolOk(s)
  BY DEF IInv, Types
<1> HIDE DEF r, s
<1>4. p \in Pooled /\ p.filled = Len(p.data)
  BY <1>2 DEF Pooled
<1> HIDE DEF p
<1>5. q \in Seq(Pooled) /\ PoolOk(q)
  <2>1. /\ Append(s, p) \in Seq(Pooled) /\ Len(Append(s, p)) = Len(s) + 1
        /\ \A i \in 1 .. Len(s) : Append(s, p)[i] = s[i]
        /\ Append(s, p)[Len(s) + 1] = p /\ Len(s) \in Nat
    BY <1>3, <1>4, AppendProperties, LenProperties
  <2>2. PoolOk(Append(s, p))
    BY <1>3, <1>4, <2>1 DEF PoolOk
  <2> QED
    BY <1>3, <2>1, <2>2
<1> HIDE DEF q
<1>6. WorkerOk(w)'
  <2>1. pc'[w] = "idle" /\ ~early'[w]
    BY <1>1, <1>2 DEF IInv, Types, Goto
  <2> QED
    BY <2>1 DEF WorkerOk, AtPipe, AtHeaders, AtLock, Afterwards
<1>7. /\ "idle" \in Labels /\ "idle" \notin AtLock /\ NoReq \in Requests \cup {NoReq}
      /\ NoReq \in Conns \cup {NoReq} /\ ReqOk(NoReq) /\ UNCHANGED <<file, want>>
      /\ early[w] \in BOOLEAN /\ early' = [early EXCEPT ![w] = early[w]]
      /\ rcvd' \in [Conns -> Seq(Int)] /\ bug' # "short"
  <2>1. NoReq \in Requests \cup {NoReq} /\ NoReq \in Conns \cup {NoReq}
    <3> HIDE DEF Requests
    <3> QED
      OBVIOUS
  <2> QED
    BY <1>1, <2>1 DEF Labels, AtLock, ReqOk, IInv, Types
<1> QED
  BY <1>1, <1>2, <1>5, <1>6, <1>7, Changes

\* A pipe of the pool is drained by as much as the code counts in it, which
\* is all that it has.
LEMMA FlushDrains ==
    ASSUME NEW p, p.data \in Seq(Int), p.filled = Len(p.data)
    PROVE  /\ DropBytes(p.data, p.filled) = <<>>
           /\ p.filled - (Len(p.data) - Len(DropBytes(p.data, p.filled))) = 0
<1> DEFINE s == p.data
           n == Len(s) + 1
           t == SubSeq(s, n, Len(s))
<1>1. s \in Seq(Int) /\ p.filled = Len(s) /\ Len(s) \in Nat /\ n > Len(s)
  BY LenProperties
<1>2. t = <<>>
  BY <1>1, SubSeqEmpty
<1>3. DropBytes(p.data, p.filled) = <<>>
  BY <1>1, <1>2 DEF DropBytes
<1>4. Len(<<>>) = 0
  BY EmptySeq
<1> QED
  BY <1>1, <1>3, <1>4

LEMMA Stage30Keeps ==
    ASSUME IInv, NEW w \in Workers, NEW c \in Conns, Stage30(w, c)
    PROVE  IInv'
<1> DEFINE reused == pool[w] # <<>>
           old == IF reused THEN Head(pool[w]) ELSE EmptyPipe
           rest == DropBytes(old.data, old.filled)
           left == old.filled - (Len(old.data) - Len(rest))
           x == [bytes_offset |-> 0, bytes_to_send |-> size, curr |-> 1,
                 buf |-> rest, filled |-> left]
           q == IF reused THEN Tail(pool[w]) ELSE pool[w]
<1>1. /\ WorkerOf[c] = w /\ pc[w] = "idle" /\ Goto(w, "fill")
      /\ conn' = [conn EXCEPT ![w] = c] /\ req' = [req EXCEPT ![c] = x]
      /\ pool' = [pool EXCEPT ![w] = q] /\ rcvd' = [rcvd EXCEPT ![c] = <<>>]
      /\ early' = [early EXCEPT ![w] = TRUE] /\ MkBugUnless(left = 0, "stale")
      /\ UNCHANGED <<file, want, ret>>
  BY DEF Stage30, Enter
<1>2. pool[w] \in Seq(Pooled) /\ PoolOk(pool[w]) /\ Types
  BY DEF IInv, Types
<1>3. old.data \in Seq(Int) /\ old.filled = Len(old.data) /\ q \in Seq(Pooled) /\ PoolOk(q)
  <2>1. CASE reused
    <3> DEFINE s == pool[w]
    <3>1. s \in Seq(Pooled) /\ s # <<>> /\ PoolOk(s)
      BY <1>2, <2>1
    <3> HIDE DEF s
    <3>2. /\ Head(s) = s[1] /\ Head(s) \in Pooled /\ Len(s) \in Nat /\ Len(s) # 0
          /\ Tail(s) \in Seq(Pooled) /\ Len(Tail(s)) = Len(s) - 1
          /\ \A i \in 1 .. Len(Tail(s)) : Tail(s)[i] = s[i + 1]
      <4>1. Len(s) \in Nat /\ Len(s) # 0
        BY <3>1, LenProperties, EmptySeq
      <4>2. Head(s) = s[1] /\ Head(s) \in Pooled
        BY <3>1, <4>1, HeadTailProperties, ElementOfSeq
      <4> QED
        BY <3>1, <4>1, <4>2, HeadTailProperties
    <3>3. Head(s).data \in Seq(Int) /\ Head(s).filled = Len(Head(s).data)
      <4>1. Head(s).filled = Len(Head(s).data)
        BY <3>1, <3>2 DEF PoolOk
      <4> QED
        BY <3>2, <4>1 DEF Pooled
    <3>4. PoolOk(Tail(s))
      <4>1. ASSUME NEW i \in 1 .. Len(Tail(s))
            PROVE  Tail(s)[i].filled = Len(Tail(s)[i].data)
        <5>1. i + 1 \in 1 .. Len(s) /\ Tail(s)[i] = s[i + 1]
          BY <3>2
        <5> QED
          BY <3>1, <5>1 DEF PoolOk
      <4> QED
        BY <4>1 DEF PoolOk
    <3>5. old = Head(s) /\ q = Tail(s)
      BY <2>1 DEF s
    <3> QED
      BY <3>2, <3>3, <3>4, <3>5
  <2>2. CASE ~reused
    <3>1. old = EmptyPipe /\ q = pool[w]
      BY <2>2
    <3>2. EmptyPipe.data \in Seq(Int) /\ EmptyPipe.filled = Len(EmptyPipe.data)
      BY EmptyIs DEF PipeIs
    <3> HIDE DEF old, q
    <3> QED
      BY <1>2, <3>1, <3>2
  <2> QED
    BY <2>1, <2>2
<1> HIDE DEF q, old
<1>4. rest = <<>> /\ left = 0 /\ rest \in Seq(Int) /\ Len(rest) = 0
  <2>1. rest = <<>> /\ left = 0
    BY <1>3, FlushDrains
  <2> QED
    BY <2>1, EmptySeq
<1> HIDE DEF rest, left
<1>5. x \in Requests /\ ReqOk(x) /\ x.filled = 0
  <2>1. size \in Int /\ 1 \in Pipes
    BY <1>2, FirstPipe DEF Types
  <2> QED
    BY <1>4, <2>1 DEF Requests, ReqOk, Off
<1>6. x # NoReq /\ x.curr # 0 /\ x.filled = 0
  <2>1. x # NoReq
    <3> HIDE DEF x, Requests
    <3> QED
      BY <1>5, ServeAssumption
  <2> QED
    BY <1>5, <2>1
<1> HIDE DEF x
<1>7. WorkerOk(w)'
  <2>1. pc'[w] = "fill" /\ early'[w] /\ conn'[w] = c /\ req'[c] = x /\ Req(w)' = x
    BY <1>1, <1>2 DEF Types, Goto, Req
  <2> QED
    BY <1>1, <1>6, <2>1 DEF WorkerOk, AtPipe, AtHeaders, AtLock, Afterwards
<1>8. /\ "fill" \in Labels /\ "fill" \notin AtLock /\ x \in Requests \cup {NoReq}
      /\ c \in Conns \cup {NoReq} /\ TRUE \in BOOLEAN /\ UNCHANGED <<file, want>>
  BY <1>1, <1>5 DEF Labels, AtLock
<1>9. rcvd' \in [Conns -> Seq(Int)] /\ bug' # "short"
  <2>1. <<>> \in Seq(Int)
    BY EmptySeq
  <2>2. rcvd' \in [Conns -> Seq(Int)]
    BY <1>1, <1>2, <2>1 DEF Types
  <2> QED
    BY <1>1, <2>2 DEF MkBugUnless, IInv
<1> QED
  BY <1>1, <1>3, <1>5, <1>7, <1>8, <1>9, Changes

\* A step that moves a worker and changes the headers.
LEMMA ChangesHeaders ==
    ASSUME IInv, NEW w \in Workers, NEW l \in Labels, Goto(w, l),
           UNCHANGED <<size, cache, req, rcvd, pool, locals>>,
           header_len' \in {0, HeaderLen}, HeadersOk', OneLocks',
           \A v \in Workers : v # w /\ pc[v] \in AtLock =>
               headers'.locked /\ headers'.data = headers.data,
           WorkerOk(w)', bug' # "short"
    PROVE  IInv'
<1>1. Types
  BY DEF IInv
<1>2. Types'
  <2>1. pc' \in [Workers -> Labels]
    BY <1>1 DEF Types, Goto
  <2> QED
    BY <1>1, <2>1 DEF Types, locals
<1>3. OfWorker(w)
  BY <1>1 DEF OfWorker, Types, Goto, locals
<1>4. CacheOk'
  BY KeepCache
<1>5. \A c \in Conns : ReqOk(req[c])'
  BY DEF IInv, ReqOk, Off, Pipes
<1>6. PoolOk(pool[w])'
  BY DEF IInv, PoolOk
<1> QED
  BY <1>2, <1>3, <1>4, <1>5, <1>6, StepKeeps

LEMMA LockHeadersKeeps ==
    ASSUME IInv, NEW w \in Workers, LockHeaders(w)
    PROVE  IInv'
<1>1. /\ pc[w] = "hlock" /\ Goto(w, IF headers.locked THEN "answer" ELSE "hcheck")
      /\ headers' = [data |-> headers.data, filled |-> headers.filled, locked |-> TRUE]
      /\ UNCHANGED <<size, cache, header_len, req, rcvd, pool, locals, bug>>
  BY DEF LockHeaders
<1>2. PICK l \in {"answer", "hcheck"} :
            /\ Goto(w, l)
            /\ l = "hcheck" => ~headers.locked
  BY <1>1
<1>3. HeadersOk'
  BY <1>1 DEF IInv, HeadersOk, PipeIs
<1>4. \A v \in Workers : pc[v] \in AtLock => headers.locked
  BY DEF IInv, WorkerOk
<1>5. OneLocks'
  <2>1. \A v \in Workers : pc'[v] \in AtLock => pc[v] \in AtLock \/ v = w
    BY <1>2 DEF IInv, Types, Goto
  <2>2. CASE l = "hcheck"
    BY <1>2, <1>4, <2>1, <2>2 DEF OneLocks
  <2>3. CASE l = "answer"
    BY <1>2, <2>3, KeepOneLocks DEF AtLock
  <2> QED
    BY <2>2, <2>3
<1>6. WorkerOk(w)'
  BY <1>1, <1>2, Serving
  DEF WorkerOk, Req, Goto, locals, AtPipe, AtHeaders, AtLock, Afterwards
<1>7. l \in Labels /\ header_len' \in {0, HeaderLen} /\ bug' # "short"
  BY <1>1 DEF Labels, IInv, Types
<1> QED
  BY <1>1, <1>2, <1>3, <1>5, <1>6, <1>7, ChangesHeaders

\* A worker that has the headers locked is the only one.
LEMMA OnlyLocker ==
    ASSUME IInv, NEW w \in Workers, pc[w] \in AtLock
    PROVE  \A v \in Workers : v # w => pc[v] \notin AtLock
  BY DEF IInv, OneLocks

LEMMA FillHeadersKeeps ==
    ASSUME IInv, NEW w \in Workers, FillHeaders(w)
    PROVE  IInv'
<1>1. /\ pc[w] = "hcheck" /\ pc[w] \in AtLock
      /\ UNCHANGED <<size, cache, req, rcvd, pool, locals, bug>>
  BY DEF FillHeaders, AtLock
<1>2. \A v \in Workers : v # w => pc[v] \notin AtLock
  BY <1>1, OnlyLocker
<1>3. PICK l \in {"hfile", "answer"} : Goto(w, l)
  BY DEF FillHeaders
<1>4. OneLocks'
  BY <1>1, <1>3, KeepOneLocks
<1>5. PipeIs(headers) /\ headers.data \in Seq(Int) /\ headers.filled = Len(headers.data)
  BY DEF IInv, HeadersOk, PipeIs
<1>6. CASE headers.filled = 0
  <2>1. /\ headers' = [data |-> headers.data \o Header, filled |-> HeaderLen, locked |-> TRUE]
        /\ header_len' = HeaderLen /\ Goto(w, "hfile")
    BY <1>6 DEF FillHeaders
  <2>2. headers.data \o Header = Header
    <3>1. headers.data = <<>>
      BY <1>5, <1>6, EmptyBuf
    <3> QED
      BY <3>1, HeaderFits, ConcatEmptySeq DEF PipeHas
  <2>3. headers'.data = Header /\ headers'.filled = HeaderLen /\ headers'.locked = TRUE
    BY <2>1, <2>2
  <2>4. HeadersOk'
    <3>1. Header \in Seq(Int) /\ PipeHas(Header) /\ Len(Header) = HeaderLen /\ HeaderLen \in Nat
      BY HeaderFits, SlotsAre DEF PipeHas
    <3>2. HeadersFirst(Header)
      BY <3>1, HeaderFits DEF HeadersFirst
    <3>3. PipeIs(headers)'
      BY <2>1, <2>2, <3>1 DEF PipeIs
    <3> QED
      BY <2>1, <2>3, <3>2, <3>3 DEF HeadersOk
  <2>5. WorkerOk(w)'
    BY <1>1, <2>1, <2>3, Serving
    DEF WorkerOk, Req, Goto, locals, AtPipe, AtHeaders, AtLock, Afterwards
  <2>6. "hfile" \in Labels /\ header_len' \in {0, HeaderLen} /\ bug' # "short"
    BY <1>1, <2>1 DEF Labels, IInv
  <2> QED
    BY <1>1, <1>2, <1>4, <2>1, <2>4, <2>5, <2>6, ChangesHeaders
<1>7. CASE headers.filled # 0
  <2>1. /\ headers' = [data |-> headers.data, filled |-> headers.filled, locked |-> FALSE]
        /\ header_len' = header_len /\ Goto(w, "answer")
    BY <1>7 DEF FillHeaders
  <2>2. HeadersOk'
    BY <2>1 DEF IInv, HeadersOk, PipeIs
  <2>3. WorkerOk(w)'
    BY <1>1, <2>1, Serving
    DEF WorkerOk, Req, Goto, locals, AtPipe, AtHeaders, AtLock, Afterwards
  <2>4. "answer" \in Labels /\ header_len' \in {0, HeaderLen} /\ bug' # "short"
    BY <1>1, <2>1 DEF Labels, IInv, Types
  <2> QED
    BY <1>1, <1>2, <1>4, <2>1, <2>2, <2>3, <2>4, ChangesHeaders
<1> QED
  BY <1>6, <1>7

LEMMA FillFirstKeeps ==
    ASSUME IInv, NEW w \in Workers, FillFirst(w)
    PROVE  IInv'
<1> DEFINE first == cache[1]
           fits == Cap - headers.filled > first.filled /\ first.filled # 0
           fit == Fitting(Header, first.data)
           some == IF fits THEN Tee(first.data, headers.data, first.filled) ELSE <<>>
<1>1. /\ pc[w] = "hfile" /\ pc[w] \in AtLock /\ Goto(w, "answer")
      /\ headers' = Push(headers, some, FALSE)
      /\ MkBugUnless(fits => some # <<>>, "nofile")
      /\ UNCHANGED <<size, cache, header_len, req, rcvd, pool, locals>>
  BY DEF FillFirst, AtLock
<1>2. \A v \in Workers : v # w => pc[v] \notin AtLock
  BY <1>1, OnlyLocker
<1>3. OneLocks'
  BY <1>1, KeepOneLocks
<1>4. /\ headers.data = Header /\ PipeIs(headers) /\ headers.filled = HeaderLen
      /\ header_len = HeaderLen /\ HeaderLen \in Nat \ {0}
  <2>1. headers.data = Header /\ HeadersOk
    BY <1>1 DEF IInv, WorkerOk
  <2>2. HeaderLen \in Nat \ {0}
    BY SlotsAre
  <2> QED
    BY <2>1, <2>2, HeaderFits DEF HeadersOk, PipeIs
<1>5. PipeIs(first) /\ FileBytes(first.data)
  BY FirstPipe DEF IInv, CacheOk
<1>6. /\ some \in Seq(Int) /\ PipeHas(Header \o some)
      /\ Len(Header \o some) = HeaderLen + Len(some) /\ Len(some) \in Nat
      /\ \A i \in 1 .. Len(some) : some[i] >= 0
  <2>1. CASE fits
    <3>1. some = fit
      BY <1>4, <1>5, <2>1, TeeAll DEF Tee
    <3>2. /\ fit \in Seq(Int) /\ PipeHas(Header \o fit)
          /\ Len(Header \o fit) = Len(Header) + Len(fit) /\ Len(fit) \in Nat
          /\ Len(fit) <= Len(first.data)
          /\ \A i \in 1 .. Len(fit) : fit[i] = first.data[i]
      BY <1>5, HeaderFits, FitsStay DEF PipeIs
    <3>3. \A i \in 1 .. Len(fit) : fit[i] >= 0
      <4>1. Len(first.data) \in Nat
        BY <1>5, LenProperties DEF PipeIs
      <4> HIDE DEF fit
      <4> QED
        BY <1>5, <3>2, <4>1 DEF FileBytes
    <3> QED
      BY <3>1, <3>2, <3>3, HeaderFits
  <2>2. CASE ~fits
    <3>1. some = <<>> /\ <<>> \in Seq(Int) /\ Len(<<>>) = 0
      BY <2>2, EmptySeq
    <3>2. Header \o <<>> = Header
      BY HeaderFits, ConcatEmptySeq DEF PipeHas
    <3> HIDE DEF some
    <3> QED
      BY <1>4, <3>1, <3>2, HeaderFits
  <2> QED
    BY <2>1, <2>2
<1>7. bug' # "short"
  BY <1>1 DEF MkBugUnless, IInv
<1> HIDE DEF some
<1>8. HeadersOk'
  <2>1. headers' = [data |-> Header \o some, filled |-> HeaderLen + Len(some), locked |-> FALSE]
    BY <1>1, <1>4 DEF Push
  <2>2. PipeIs(headers)'
    <3>1. HeaderLen + Len(some) \in Nat /\ Header \o some \in Seq(Int)
      BY <1>4, <1>6 DEF PipeHas
    <3> QED
      BY <1>6, <2>1, <3>1 DEF PipeIs
  <2>3. HeadersFirst(Header \o some)
    <3>1. \A i \in 1 .. Len(Header) + Len(some) :
            (Header \o some)[i] = IF i <= Len(Header) THEN Header[i] ELSE some[i - Len(Header)]
      BY <1>6, HeaderFits, ConcatProperties DEF PipeHas
    <3>2. \A i \in 1 .. HeaderLen + Len(some) :
            (Header \o some)[i] = IF i <= HeaderLen THEN Header[i] ELSE some[i - HeaderLen]
      BY <3>1, HeaderFits
    <3>3. \A i \in 1 .. HeaderLen : (Header \o some)[i] = i - 1 - HeaderLen
      BY <1>4, <1>6, <3>2, HeaderFits
    <3>4. ASSUME NEW i \in HeaderLen + 1 .. Len(Header \o some)
          PROVE  (Header \o some)[i] >= 0
      <4>1. i \in 1 .. HeaderLen + Len(some) /\ ~(i <= HeaderLen)
            /\ i - HeaderLen \in 1 .. Len(some)
        BY <1>4, <1>6
      <4> QED
        BY <1>6, <3>2, <4>1
    <3> QED
      BY <1>4, <1>6, <3>3, <3>4 DEF HeadersFirst
  <2>4. headers'.data = Header \o some
    BY <2>1
  <2>5. header_len' = HeaderLen
    BY <1>1, <1>4
  <2> QED
    BY <2>2, <2>3, <2>4, <2>5 DEF HeadersOk
<1>9. WorkerOk(w)'
  BY <1>1, Serving DEF WorkerOk, Req, Goto, locals, AtPipe, AtHeaders, AtLock, Afterwards
<1>10. "answer" \in Labels /\ header_len' \in {0, HeaderLen}
  BY <1>1, <1>4 DEF Labels
<1> QED
  BY <1>1, <1>2, <1>3, <1>7, <1>8, <1>9, <1>10, ChangesHeaders

LEMMA VmspliceKeeps ==
    ASSUME IInv, NEW w \in Workers, Vmsplice(w)
    PROVE  IInv'
<1> DEFINE k == Req(w).curr
           from == want[w][1]
           to == want[w][2]
           room == Cap - cache[k].filled >= to - from
           bs == IF room THEN Fitting(cache[k].data, Part(from, to)) ELSE <<>>
           p == Push(cache[k], bs, Len(bs) < to - from)
<1>1. /\ pc[w] = "vmsplice" /\ Goto(w, "filled") /\ MkBugUnless(room, "space")
      /\ cache' = [cache EXCEPT ![k] = p] /\ want' = [want EXCEPT ![w] = <<0, 0>>]
      /\ UNCHANGED <<size, headers, header_len, req, rcvd, pool, conn, early, ret>>
  BY DEF Vmsplice
<1>2. Types /\ k \in Pipes /\ PipeIs(cache[k]) /\ FileBytes(cache[k].data)
  <2>1. k \in Pipes
    BY <1>1, Serving DEF WorkerOk, AtPipe
  <2> QED
    BY <2>1 DEF IInv, CacheOk
<1>3. from \in Int /\ to \in Int /\ 0 <= from /\ from <= to
  <2>1. want[w] \in Int \X Int
    BY <1>2 DEF Types
  <2>2. from \in Int /\ to \in Int
    BY <2>1
  <2> QED
    BY <1>1, <2>2 DEF IInv, WorkerOk
<1> HIDE DEF k
<1> DEFINE s == cache[k].data
<1>4. s \in Seq(Int) /\ PipeHas(s) /\ Len(s) \in Nat /\ cache[k].filled = Len(s)
  BY <1>2, LenProperties DEF PipeIs
<1>5. /\ bs \in Seq(Int) /\ PipeHas(s \o bs) /\ Len(s \o bs) = Len(s) + Len(bs)
      /\ Len(bs) \in Nat /\ \A i \in 1 .. Len(bs) : bs[i] >= 0
  <2>1. CASE room
    <3> DEFINE t == Part(from, to)
               f == Fitting(s, t)
    <3>1. /\ t \in Seq(Int) /\ Len(t) = to - from
          /\ \A i \in 1 .. to - from : t[i] = from + i - 1
      <4> HIDE DEF from, to
      <4> QED
        BY <1>3, PartIs
    <3> HIDE DEF from, to, t, s
    <3>2. /\ f \in Seq(Int) /\ PipeHas(s \o f) /\ Len(s \o f) = Len(s) + Len(f)
          /\ Len(f) \in Nat /\ Len(f) <= Len(t)
          /\ \A i \in 1 .. Len(f) : f[i] = t[i]
      BY <1>4, <3>1, FitsStay
    <3>3. bs = f
      BY <2>1 DEF s, t
    <3> HIDE DEF f, bs
    <3>4. \A i \in 1 .. Len(bs) : bs[i] >= 0
      BY <1>3, <3>1, <3>2, <3>3
    <3> QED
      BY <3>2, <3>3, <3>4
  <2>2. CASE ~room
    <3>1. bs = <<>> /\ <<>> \in Seq(Int) /\ Len(<<>>) = 0
      BY <2>2, EmptySeq
    <3> HIDE DEF bs, s
    <3>2. s \o <<>> = s
      BY <1>4, ConcatEmptySeq
    <3> QED
      BY <1>4, <3>1, <3>2
  <2> QED
    BY <2>1, <2>2
<1>6. bug' # "short"
  BY <1>1 DEF MkBugUnless, IInv
<1> HIDE DEF room, bs, from, to
<1>7. PipeIs(p) /\ FileBytes(p.data)
  <2>1. p = [data |-> s \o bs, filled |-> Len(s) + Len(bs), locked |-> Len(bs) < to - from]
    BY <1>4 DEF Push
  <2> HIDE DEF p, s
  <2>2. PipeIs(p)
    <3>1. (Len(bs) < to - from) \in BOOLEAN /\ Len(s) + Len(bs) \in Nat /\ s \o bs \in Seq(Int)
      BY <1>4, <1>5 DEF PipeHas
    <3> QED
      BY <1>5, <2>1, <3>1 DEF PipeIs
  <2>3. \A i \in 1 .. Len(s) : s[i] >= 0
    BY <1>2 DEF FileBytes, s
  <2>4. FileBytes(s \o bs)
    <3>1. \A i \in 1 .. Len(s) + Len(bs) :
            (s \o bs)[i] = IF i <= Len(s) THEN s[i] ELSE bs[i - Len(s)]
      BY <1>4, <1>5, ConcatProperties
    <3>2. ASSUME NEW i \in 1 .. Len(s) + Len(bs)
          PROVE  (s \o bs)[i] >= 0
      <4>1. CASE i <= Len(s)
        BY <1>4, <1>5, <2>3, <3>1, <4>1
      <4>2. CASE ~(i <= Len(s))
        <5>1. i - Len(s) \in 1 .. Len(bs)
          BY <1>4, <1>5, <4>2
        <5> QED
          BY <1>5, <3>1, <4>2, <5>1
      <4> QED
        BY <4>1, <4>2
    <3> QED
      BY <1>5, <3>2 DEF FileBytes
  <2> QED
    BY <2>1, <2>2, <2>4
<1> HIDE DEF p
<1>8. CacheOk'
  <2>1. Pipes' = Pipes
    BY <1>1 DEF Pipes
  <2>2. cache = [i \in Pipes |-> cache[i]] /\ \A i \in Pipes : PipeIs(cache[i]) /\ FileBytes(cache[i].data)
    BY DEF IInv, CacheOk
  <2>3. cache' = [i \in Pipes |-> cache'[i]] /\ \A i \in Pipes : cache'[i] = IF i = k THEN p ELSE cache[i]
    BY <1>1, <1>2, <2>2
  <2>4. \A i \in Pipes : PipeIs(cache'[i]) /\ FileBytes(cache'[i].data)
    BY <1>7, <2>2, <2>3
  <2> QED
    BY <2>1, <2>3, <2>4 DEF CacheOk
<1>9. Types'
  <2>1. pc' \in [Workers -> Labels] /\ want' \in [Workers -> Int \X Int]
    <3>1. "filled" \in Labels /\ <<0, 0>> \in Int \X Int
      BY DEF Labels
    <3> QED
      BY <1>1, <1>2, <3>1 DEF Types, Goto
  <2> QED
    BY <1>1, <1>2, <2>1 DEF Types
<1>10. OfWorker(w)
  BY <1>1, <1>2 DEF OfWorker, Types, Goto, IInv, WorkerOk
<1>11. HeadersOk' /\ OneLocks'
  <2>1. UNCHANGED <<headers, header_len>> /\ "filled" \notin AtLock
    BY <1>1 DEF AtLock
  <2> QED
    BY <1>1, <2>1, KeepHeaders, KeepOneLocks
<1>12. (\A c \in Conns : ReqOk(req[c])') /\ PoolOk(pool[w])'
  BY <1>1 DEF IInv, ReqOk, Off, Pipes, PoolOk
<1>13. WorkerOk(w)'
  BY <1>1, Serving DEF WorkerOk, Req, Goto, AtPipe, AtHeaders, AtLock, Afterwards
<1> QED
  BY <1>1, <1>6, <1>8, <1>9, <1>10, <1>11, <1>12, <1>13, StepKeeps

LEMMA NextKeeps == IInv /\ [Next]_vars => IInv'
<1> SUFFICES ASSUME IInv, [Next]_vars
             PROVE  IInv'
  OBVIOUS
<1>1. CASE Next
  <2>1. PICK w \in Workers : Event(w) \/ Step(w)
    BY <1>1 DEF Next
  <2>2. CASE Event(w)
    BY <2>2, Stage30Keeps, EventWriteKeeps, EventDropKeeps DEF Event
  <2>3. CASE Step(w)
    <3>1. CASE Fill(w) \/ Vmsplice(w) \/ Filled(w)
      BY <3>1, FillKeeps, VmspliceKeeps, FilledKeeps
    <3>2. CASE Headers(w) \/ LockHeaders(w) \/ FillHeaders(w) \/ FillFirst(w)
      BY <3>2, HeadersKeeps, LockHeadersKeeps, FillHeadersKeeps, FillFirstKeeps
    <3>3. CASE AnswerDirect(w) \/ AnswerCached(w)
      BY <3>3, AnswerDirectKeeps, AnswerCachedKeeps
    <3>4. CASE \/ Loop(w) \/ TeeCurr(w) \/ SendNothing(w) \/ SendFails(w) \/ SendSome(w)
               \/ EndReq(w)
      BY <3>4, LoopKeeps, TeeCurrKeeps, SendNothingKeeps, SendSomeKeeps, EndReqKeeps
    <3> QED
      BY <2>3, <3>1, <3>2, <3>3, <3>4 DEF Step
  <2> QED
    BY <2>1, <2>2, <2>3
<1>2. CASE UNCHANGED vars
  <2>1. CacheOk' /\ HeadersOk' /\ OneLocks' /\ Types' /\ bug' # "short"
    BY <1>2 DEF IInv, Types, CacheOk, HeadersOk, OneLocks, Pipes, vars, file, locals
  <2>2. \A c \in Conns : ReqOk(req[c])'
    BY <1>2 DEF IInv, ReqOk, Off, Pipes, vars, file
  <2>3. \A w \in Workers : PoolOk(pool[w])' /\ WorkerOk(w)'
    BY <1>2 DEF IInv, PoolOk, WorkerOk, Req, vars, file, locals
  <2> QED
    BY <2>1, <2>2, <2>3 DEF IInv
<1> QED
  BY <1>1, <1>2

\* What is known of the byte path however many workers there are: what the
\* code counts in a pipe is what is in it, no pipe has more than it takes,
\* and one worker at most has the headers locked.
THEOREM Invariant == Spec => []IInv
<1> QED
  BY InitIInv, NextKeeps, PTL DEF Spec

\* However many workers meet the file first, its headers are written into the
\* pipe once and sent only when complete (fill_cache_headers and
\* serve_cache_headers, cache.c:163-182, 105-109).
THEOREM HeadersAreOnce == Spec => []HeadersOnce
<1>1. IInv => HeadersOnce
  <2> SUFFICES ASSUME IInv
               PROVE  HeadersOnce
    OBVIOUS
  <2>1. ASSUME headers.filled # 0
        PROVE  /\ header_len = HeaderLen
               /\ SubSeq(headers.data, 1, HeaderLen) = Header
               /\ \A i \in HeaderLen + 1 .. Len(headers.data) : headers.data[i] >= 0
    <3> DEFINE s == headers.data
               t == SubSeq(s, 1, HeaderLen)
    <3>1. /\ header_len = HeaderLen /\ HeadersFirst(s) /\ s \in Seq(Int)
          /\ HeaderLen \in Nat \ {0} /\ Len(s) \in Nat
      BY <2>1, SlotsAre, LenProperties DEF IInv, HeadersOk, PipeIs
    <3> HIDE DEF s
    <3>2. \A i \in 1 .. HeaderLen : s[i] \in Int /\ s[i] = i - 1 - HeaderLen
      BY <3>1 DEF HeadersFirst
    <3>3. /\ t \in Seq(Int) /\ Len(t) = IF 1 <= HeaderLen THEN HeaderLen - 1 + 1 ELSE 0
          /\ \A i \in 1 .. HeaderLen - 1 + 1 : t[i] = s[1 + i - 1]
      BY <3>1, <3>2, SubSeqProperties
    <3> HIDE DEF t
    <3>4. Len(t) = HeaderLen /\ \A i \in 1 .. HeaderLen : t[i] = i - 1 - HeaderLen
      BY <3>1, <3>2, <3>3
    <3>5. t = Header
      <4>1. Header \in Seq(Int) /\ Len(t) = Len(Header)
        BY <3>4, HeaderFits DEF PipeHas
      <4>2. \A i \in 1 .. Len(t) : t[i] = Header[i]
        BY <3>4, HeaderFits
      <4> QED
        BY <3>3, <4>1, <4>2, SeqEqual
    <3> QED
      BY <3>1, <3>5 DEF HeadersFirst, s, t
  <2> QED
    BY <2>1 DEF HeadersOnce, IInv
<1> QED
  BY <1>1, Invariant, PTL
=============================================================================
