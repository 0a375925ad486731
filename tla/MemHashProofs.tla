--------------------------- MODULE MemHashProofs ----------------------------
(* Theorems about MemHash, for any keys, values, cursors and hash function, *)
(* any finite memory and any initial number of buckets.                     *)
EXTENDS MemHash, FiniteSetTheorems, SequenceTheorems, NaturalsInduction, TLAPS

(***************************************************************************)
(* Lists that are linked both ways.                                        *)
(***************************************************************************)

Pointer == Recs \cup {NULL}
Links == [Recs -> Pointer]

\* The place i of the n records s, NULL before the first and after the last.
At(s, n, i) == IF i \in 1 .. n THEN s[i] ELSE NULL

\* s are the n records of D, each once.
Ordered(s, n, D) ==
    /\ n \in Nat /\ s \in [1 .. n -> Recs]
    /\ \A i, j \in 1 .. n : s[i] = s[j] => i = j
    /\ D = {s[i] : i \in 1 .. n}

\* The records of D are linked in the order s, from head on.
Chained(s, n, D, head, fwd, back) ==
    /\ Ordered(s, n, D)
    /\ head = At(s, n, 1)
    /\ \A i \in 1 .. n : fwd[s[i]] = At(s, n, i + 1) /\ back[s[i]] = At(s, n, i - 1)

LEMMA NullIs == NULL \notin Recs
  BY MemHashAssumption

\* What links nothing of D is of no concern to the list.
LEMMA ChainKept ==
    ASSUME NEW s, NEW n, NEW D, NEW head, NEW fwd, NEW back, NEW fwd2, NEW back2,
           Chained(s, n, D, head, fwd, back),
           \A r \in D : fwd2[r] = fwd[r] /\ back2[r] = back[r]
    PROVE  Chained(s, n, D, head, fwd2, back2)
  BY DEF Chained, Ordered

LEMMA ChainEmpty ==
    ASSUME NEW fwd, NEW back
    PROVE  \E s : Chained(s, 0, {}, NULL, fwd, back)
<1>1. [i \in 1 .. 0 |-> NULL] \in [1 .. 0 -> Recs]
  OBVIOUS
<1>2. Chained([i \in 1 .. 0 |-> NULL], 0, {}, NULL, fwd, back)
  BY <1>1 DEF Chained, Ordered, At
<1> QED
  BY <1>2

\* A list with a record before the first.
Pushed(s, n, r) == [i \in 1 .. n + 1 |-> IF i = 1 THEN r ELSE s[i - 1]]

LEMMA ChainPush ==
    ASSUME NEW s, NEW n, NEW D, NEW head, NEW fwd \in Links, NEW back \in Links,
           NEW r \in Recs, r \notin D, Chained(s, n, D, head, fwd, back)
    PROVE  Chained(Pushed(s, n, r), n + 1, D \cup {r}, r,
                   [fwd EXCEPT ![r] = head], Set([back EXCEPT ![r] = NULL], head, r))
<1> DEFINE t == Pushed(s, n, r)
           f2 == [fwd EXCEPT ![r] = head]
           b2 == Set([back EXCEPT ![r] = NULL], head, r)
<1>1. /\ n \in Nat /\ s \in [1 .. n -> Recs]
      /\ \A i, j \in 1 .. n : s[i] = s[j] => i = j
      /\ D = {s[i] : i \in 1 .. n}
      /\ head = IF n = 0 THEN NULL ELSE s[1]
      /\ \A i \in 1 .. n : /\ fwd[s[i]] = IF i = n THEN NULL ELSE s[i + 1]
                           /\ back[s[i]] = IF i = 1 THEN NULL ELSE s[i - 1]
  BY DEF Chained, Ordered, At
<1>2. /\ t \in [1 .. n + 1 -> Recs] /\ t[1] = r
      /\ \A i \in 2 .. n + 1 : t[i] = s[i - 1] /\ i - 1 \in 1 .. n
      /\ \A i \in 1 .. n : t[i + 1] = s[i]
  BY <1>1 DEF Pushed
<1>3. /\ f2[r] = head /\ \A q \in D : f2[q] = fwd[q]
      /\ b2[r] = NULL /\ (head # NULL => b2[head] = r)
      /\ \A q \in D : q # head => b2[q] = back[q]
  BY <1>1, NullIs DEF Set, Links
<1> HIDE DEF t, f2, b2
<1>4. Ordered(t, n + 1, D \cup {r})
  <2>1. \A i, j \in 1 .. n + 1 : t[i] = t[j] => i = j
    <3> SUFFICES ASSUME NEW i \in 1 .. n + 1, NEW j \in 1 .. n + 1, t[i] = t[j]
                 PROVE  i = j
      OBVIOUS
    <3>1. i \in 2 .. n + 1 \/ i = 1
      BY <1>1
    <3>2. j \in 2 .. n + 1 \/ j = 1
      BY <1>1
    <3> QED
      BY <1>1, <1>2, <3>1, <3>2
  <2>2. D \cup {r} = {t[i] : i \in 1 .. n + 1}
    <3>1. ASSUME NEW q \in D \cup {r}
          PROVE  \E i \in 1 .. n + 1 : t[i] = q
      <4>1. CASE q = r
        BY <1>1, <1>2, <4>1
      <4>2. CASE q \in D
        <5>1. PICK i \in 1 .. n : s[i] = q
          BY <1>1, <4>2
        <5>2. i + 1 \in 1 .. n + 1
          BY <1>1
        <5> QED
          BY <1>2, <5>1, <5>2
      <4> QED
        BY <4>1, <4>2
    <3>2. ASSUME NEW i \in 1 .. n + 1
          PROVE  t[i] \in D \cup {r}
      <4>1. i \in 2 .. n + 1 \/ i = 1
        BY <1>1
      <4> QED
        BY <1>1, <1>2, <4>1
    <3> QED
      BY <3>1, <3>2
  <2>3. n + 1 \in Nat /\ t \in [1 .. n + 1 -> Recs]
    BY <1>1, <1>2
  <2> QED
    BY <2>1, <2>2, <2>3 DEF Ordered
<1>5. r = At(t, n + 1, 1)
  BY <1>1, <1>2 DEF At
<1>6. ASSUME NEW i \in 1 .. n + 1
      PROVE  f2[t[i]] = At(t, n + 1, i + 1) /\ b2[t[i]] = At(t, n + 1, i - 1)
  <2>1. CASE i = 1
    <3>1. f2[t[i]] = head /\ b2[t[i]] = NULL
      BY <1>2, <1>3, <2>1
    <3>2. At(t, n + 1, i - 1) = NULL
      BY <2>1 DEF At
    <3>3. At(t, n + 1, i + 1) = head
      BY <1>1, <1>2, <2>1 DEF At
    <3> QED
      BY <3>1, <3>2, <3>3
  <2>2. CASE i \in 2 .. n + 1
    <3> DEFINE k == i - 1
    <3>1. k \in 1 .. n /\ t[i] = s[k] /\ i = k + 1 /\ s[k] \in D
      BY <1>1, <1>2, <2>2
    <3> HIDE DEF k
    <3>2. f2[t[i]] = At(t, n + 1, i + 1)
      <4>1. f2[t[i]] = IF k = n THEN NULL ELSE s[k + 1]
        BY <1>1, <1>3, <3>1
      <4>2. CASE k = n
        BY <1>1, <3>1, <4>1, <4>2 DEF At
      <4>3. CASE k # n
        <5>1. k + 1 \in 1 .. n /\ i + 1 = k + 1 + 1 /\ i + 1 \in 1 .. n + 1
          BY <1>1, <3>1, <4>3
        <5> QED
          BY <1>2, <4>1, <4>3, <5>1 DEF At
      <4> QED
        BY <4>2, <4>3
    <3>3. b2[t[i]] = At(t, n + 1, i - 1)
      <4>1. CASE k = 1
        <5>1. s[k] = head /\ head # NULL
          BY <1>1, <3>1, <4>1, NullIs
        <5>2. At(t, n + 1, i - 1) = r
          BY <1>1, <1>2, <3>1, <4>1 DEF At
        <5> QED
          BY <1>3, <3>1, <5>1, <5>2
      <4>2. CASE k # 1
        <5>1. s[k] # head
          BY <1>1, <3>1, <4>2, NullIs
        <5>2. b2[t[i]] = s[k - 1]
          BY <1>1, <1>3, <3>1, <4>2, <5>1
        <5>3. k - 1 \in 1 .. n /\ i - 1 = k - 1 + 1 /\ i - 1 \in 1 .. n + 1
          BY <1>1, <3>1, <4>2
        <5>4. t[k - 1 + 1] = s[k - 1]
          BY <1>2, <5>3
        <5> QED
          BY <5>2, <5>3, <5>4 DEF At
      <4> QED
        BY <4>1, <4>2
    <3> QED
      BY <3>2, <3>3
  <2>3. i = 1 \/ i \in 2 .. n + 1
    BY <1>1
  <2> QED
    BY <2>1, <2>2, <2>3
<1>7. Chained(t, n + 1, D \cup {r}, r, f2, b2)
  BY <1>4, <1>5, <1>6 DEF Chained
<1> QED
  BY <1>7 DEF t, f2, b2

\* A list without its m-th record.
Dropped(s, n, m) == [i \in 1 .. n - 1 |-> IF i < m THEN s[i] ELSE s[i + 1]]

LEMMA DroppedIs ==
    ASSUME NEW s, NEW n, NEW D, Ordered(s, n, D), NEW m \in 1 .. n
    PROVE  /\ Ordered(Dropped(s, n, m), n - 1, D \ {s[m]})
           /\ \A i \in 0 .. n : At(Dropped(s, n, m), n - 1, i) =
                                  IF i < m THEN At(s, n, i) ELSE At(s, n, i + 1)
<1> DEFINE t == Dropped(s, n, m)
<1>1. /\ n \in Nat \ {0} /\ n - 1 \in Nat /\ s \in [1 .. n -> Recs] /\ m \in Nat
      /\ \A i, j \in 1 .. n : s[i] = s[j] => i = j
      /\ D = {s[i] : i \in 1 .. n}
  BY DEF Ordered
<1>2. /\ \A i \in 1 .. n - 1 : i \in 1 .. n /\ i + 1 \in 1 .. n
      /\ t \in [1 .. n - 1 -> Recs]
      /\ \A i \in 1 .. n - 1 : t[i] = IF i < m THEN s[i] ELSE s[i + 1]
  <2>1. \A i \in 1 .. n - 1 : i \in 1 .. n /\ i + 1 \in 1 .. n
    BY <1>1
  <2> QED
    BY <1>1, <2>1 DEF Dropped
<1> HIDE DEF t
<1>3. \A i \in 0 .. n : At(t, n - 1, i) = IF i < m THEN At(s, n, i) ELSE At(s, n, i + 1)
  <2> TAKE i \in 0 .. n
  <2>1. CASE i \in 1 .. n - 1
    BY <1>1, <1>2, <2>1 DEF At
  <2>2. CASE i = 0
    BY <1>1, <2>2 DEF At
  <2>3. CASE i = n
    BY <1>1, <2>3 DEF At
  <2>4. i \in 1 .. n - 1 \/ i = 0 \/ i = n
    BY <1>1
  <2> QED
    BY <2>1, <2>2, <2>3, <2>4
<1>4. \A i, j \in 1 .. n - 1 : t[i] = t[j] => i = j
  <2> SUFFICES ASSUME NEW i \in 1 .. n - 1, NEW j \in 1 .. n - 1, t[i] = t[j]
               PROVE  i = j
    OBVIOUS
  <2>1. /\ i \in Nat /\ j \in Nat /\ i \in 1 .. n /\ i + 1 \in 1 .. n
        /\ j \in 1 .. n /\ j + 1 \in 1 .. n
    BY <1>2
  <2>2. CASE i < m /\ j < m
    BY <1>1, <1>2, <2>1, <2>2
  <2>3. CASE i < m /\ ~(j < m)
    BY <1>1, <1>2, <2>1, <2>3
  <2>4. CASE ~(i < m) /\ j < m
    BY <1>1, <1>2, <2>1, <2>4
  <2>5. CASE ~(i < m) /\ ~(j < m)
    BY <1>1, <1>2, <2>1, <2>5
  <2> QED
    BY <2>2, <2>3, <2>4, <2>5
<1>5. D \ {s[m]} = {t[i] : i \in 1 .. n - 1}
  <2>1. ASSUME NEW q \in D \ {s[m]}
        PROVE  \E i \in 1 .. n - 1 : t[i] = q
    <3>1. PICK j \in 1 .. n : s[j] = q /\ j # m
      BY <1>1
    <3>2. CASE j < m
      <4>1. j \in 1 .. n - 1
        BY <1>1, <3>2
      <4> QED
        BY <1>2, <3>1, <3>2, <4>1
    <3>3. CASE j > m
      <4>1. j - 1 \in 1 .. n - 1 /\ ~(j - 1 < m) /\ j - 1 + 1 = j
        BY <1>1, <3>3
      <4>2. t[j - 1] = s[j]
        BY <1>2, <4>1
      <4> QED
        BY <3>1, <4>1, <4>2
    <3> QED
      BY <1>1, <3>1, <3>2, <3>3
  <2>2. ASSUME NEW i \in 1 .. n - 1
        PROVE  t[i] \in D \ {s[m]}
    <3>1. i \in 1 .. n /\ i + 1 \in 1 .. n
      BY <1>2
    <3>2. CASE i < m
      <4>1. t[i] = s[i] /\ i # m
        BY <1>1, <1>2, <3>2
      <4> QED
        BY <1>1, <3>1, <4>1
    <3>3. CASE ~(i < m)
      <4>1. t[i] = s[i + 1] /\ i + 1 # m
        BY <1>1, <1>2, <3>1, <3>3
      <4> QED
        BY <1>1, <3>1, <4>1
    <3> QED
      BY <3>2, <3>3
  <2> QED
    BY <2>1, <2>2
<1>6. Ordered(t, n - 1, D \ {s[m]})
  BY <1>1, <1>2, <1>4, <1>5 DEF Ordered
<1> QED
  BY <1>3, <1>6 DEF t

\* Taking a record out of a list: its neighbours are linked to each other, and
\* when it was the first or the last, its neighbour is.
LEMMA ChainDrop ==
    ASSUME NEW s, NEW n, NEW D, NEW head, NEW fwd \in Links, NEW back \in Links,
           Chained(s, n, D, head, fwd, back), NEW m \in 1 .. n, NEW r, r = s[m]
    PROVE  /\ Chained(Dropped(s, n, m), n - 1, D \ {r},
                      IF back[r] = NULL THEN fwd[r] ELSE head,
                      Bypass(fwd, r, back[r]), Bypass(back, r, fwd[r]))
           /\ back[r] = NULL <=> r = head
           /\ At(Dropped(s, n, m), n - 1, n - 1) =
                IF r = At(s, n, n) THEN back[r] ELSE At(s, n, n)
<1> DEFINE t == Dropped(s, n, m)
           f2 == Bypass(fwd, r, back[r])
           b2 == Bypass(back, r, fwd[r])
<1>1. /\ n \in Nat \ {0} /\ s \in [1 .. n -> Recs] /\ m \in Nat /\ m <= n
      /\ \A i, j \in 1 .. n : s[i] = s[j] => i = j
      /\ D = {s[i] : i \in 1 .. n} /\ r \in Recs
      /\ head = At(s, n, 1) /\ fwd[r] = At(s, n, m + 1) /\ back[r] = At(s, n, m - 1)
      /\ \A i \in 1 .. n : /\ fwd[s[i]] = At(s, n, i + 1)
                           /\ back[s[i]] = At(s, n, i - 1)
  BY DEF Chained, Ordered
<1>2. /\ Ordered(t, n - 1, D \ {r})
      /\ \A i \in 0 .. n : At(t, n - 1, i) = IF i < m THEN At(s, n, i) ELSE At(s, n, i + 1)
  BY DroppedIs DEF Chained
<1>3. \A i \in 1 .. n - 1 : t[i] = At(t, n - 1, i) /\ i \in 0 .. n
  BY <1>1 DEF At
<1>4. \A i, j \in 0 .. n + 1 : /\ i \in 1 .. n => At(s, n, i) = s[i] /\ s[i] # NULL
                               /\ i \notin 1 .. n => At(s, n, i) = NULL
                               /\ i \in 1 .. n /\ At(s, n, i) = At(s, n, j) => i = j
  BY <1>1, NullIs DEF At
<1>5. \A q \in D \ {r} : /\ f2[q] = IF q = back[r] THEN fwd[r] ELSE fwd[q]
                         /\ b2[q] = IF q = fwd[r] THEN back[r] ELSE back[q]
  <2> TAKE q \in D \ {r}
  <2>1. q \in Recs /\ q # NULL /\ q # r
    BY <1>1, NullIs
  <2>2. back[r] \in Recs \cup {NULL} /\ fwd[r] \in Recs \cup {NULL}
    BY <1>1 DEF Links, Pointer
  <2> QED
    BY <2>1, <2>2 DEF Bypass, Set, Links
<1> HIDE DEF t, f2, b2
<1>6. ASSUME NEW i \in 1 .. n - 1
      PROVE  f2[t[i]] = At(t, n - 1, i + 1) /\ b2[t[i]] = At(t, n - 1, i - 1)
  <2>1. t[i] \in D \ {r}
    BY <1>2 DEF Ordered
  <2>2. t[i] = IF i < m THEN At(s, n, i) ELSE At(s, n, i + 1)
    BY <1>2, <1>3
  <2>3. /\ i - 1 \in 0 .. n /\ i + 1 \in 0 .. n /\ i \in 1 .. n /\ i + 1 \in 1 .. n
        /\ i \in 0 .. n + 1 /\ i + 2 \in 0 .. n + 1 /\ m - 1 \in 0 .. n + 1
        /\ m + 1 \in 0 .. n + 1 /\ i \in Nat /\ i + 1 \in 0 .. n + 1
    BY <1>1
  <2>4. /\ At(t, n - 1, i + 1) =
             IF i + 1 < m THEN At(s, n, i + 1) ELSE At(s, n, i + 2)
        /\ At(t, n - 1, i - 1) = IF i - 1 < m THEN At(s, n, i - 1) ELSE At(s, n, i)
    <3>1. i + 1 + 1 = i + 2 /\ i - 1 + 1 = i
      BY <2>3
    <3> QED
      BY <1>2, <2>3, <3>1
  <2>5. CASE i < m
    <3>1. t[i] = s[i] /\ t[i] = At(s, n, i)
      BY <1>4, <2>2, <2>3, <2>5
    <3>2. fwd[t[i]] = At(s, n, i + 1) /\ back[t[i]] = At(s, n, i - 1)
      BY <1>1, <2>3, <3>1
    <3>3. t[i] = back[r] <=> i = m - 1
      BY <1>1, <1>4, <2>3, <3>1
    <3>4. t[i] # fwd[r]
      BY <1>1, <1>4, <2>3, <2>5, <3>1
    <3>5. b2[t[i]] = At(t, n - 1, i - 1)
      BY <1>5, <2>1, <2>3, <2>4, <2>5, <3>2, <3>4
    <3>6. CASE i = m - 1
      <4>1. f2[t[i]] = At(s, n, m + 1)
        BY <1>1, <1>5, <2>1, <3>3, <3>6
      <4>2. ~(i + 1 < m) /\ i + 2 = m + 1
        BY <1>1, <3>6
      <4> QED
        BY <2>4, <3>5, <4>1, <4>2
    <3>7. CASE i # m - 1
      <4>1. f2[t[i]] = At(s, n, i + 1)
        BY <1>5, <2>1, <3>2, <3>3, <3>7
      <4>2. i + 1 < m
        BY <1>1, <2>3, <2>5, <3>7
      <4> QED
        BY <2>4, <3>5, <4>1, <4>2
    <3> QED
      BY <3>6, <3>7
  <2>6. CASE ~(i < m)
    <3>1. t[i] = s[i + 1] /\ t[i] = At(s, n, i + 1)
      BY <1>4, <2>2, <2>3, <2>6
    <3>2. fwd[t[i]] = At(s, n, i + 2) /\ back[t[i]] = At(s, n, i)
      <4>1. fwd[s[i + 1]] = At(s, n, i + 1 + 1) /\ back[s[i + 1]] = At(s, n, i + 1 - 1)
        BY <1>1, <2>3
      <4>2. i + 1 + 1 = i + 2 /\ i + 1 - 1 = i
        BY <2>3
      <4> QED
        BY <3>1, <4>1, <4>2
    <3>3. t[i] # back[r]
      <4>1. i + 1 # m - 1
        BY <1>1, <2>3, <2>6
      <4> QED
        BY <1>1, <1>4, <2>3, <3>1, <4>1
    <3>4. t[i] = fwd[r] <=> i = m
      <4>1. i + 1 = m + 1 <=> i = m
        BY <1>1, <2>3
      <4> QED
        BY <1>1, <1>4, <2>3, <3>1, <4>1
    <3>5. f2[t[i]] = At(t, n - 1, i + 1)
      <4>1. ~(i + 1 < m)
        BY <1>1, <2>3, <2>6
      <4> QED
        BY <1>5, <2>1, <2>4, <3>2, <3>3, <4>1
    <3>6. CASE i = m
      <4>1. b2[t[i]] = At(s, n, m - 1)
        BY <1>1, <1>5, <2>1, <3>4, <3>6
      <4>2. i - 1 < m /\ i - 1 = m - 1
        BY <1>1, <3>6
      <4> QED
        BY <2>4, <3>5, <4>1, <4>2
    <3>7. CASE i # m
      <4>1. b2[t[i]] = At(s, n, i)
        BY <1>5, <2>1, <3>2, <3>4, <3>7
      <4>2. ~(i - 1 < m)
        BY <1>1, <2>3, <2>6, <3>7
      <4> QED
        BY <2>4, <3>5, <4>1, <4>2
    <3> QED
      BY <3>6, <3>7
  <2> QED
    BY <2>5, <2>6
<1>7. /\ back[r] = NULL <=> m = 1
      /\ r = head <=> m = 1
  <2>1. m - 1 \in 0 .. n + 1 /\ m \in 0 .. n + 1 /\ 1 \in 0 .. n + 1 /\ 1 \in 1 .. n
    BY <1>1
  <2>2. m - 1 \in 1 .. n <=> m # 1
    BY <1>1
  <2>3. r = At(s, n, m)
    BY <1>4, <2>1
  <2> QED
    BY <1>1, <1>4, <2>1, <2>2, <2>3
<1>8. (IF back[r] = NULL THEN fwd[r] ELSE head) = At(t, n - 1, 1)
  <2>1. At(t, n - 1, 1) = IF 1 < m THEN At(s, n, 1) ELSE At(s, n, 2)
    <3>1. 1 \in 0 .. n /\ 1 + 1 = 2
      BY <1>1
    <3> QED
      BY <1>2, <3>1
  <2>2. CASE m = 1
    BY <1>1, <1>7, <2>1, <2>2
  <2>3. CASE m # 1
    <3>1. 1 < m
      BY <1>1, <2>3
    <3> QED
      BY <1>1, <1>7, <2>1, <2>3, <3>1
  <2> QED
    BY <2>2, <2>3
<1>9. At(t, n - 1, n - 1) = IF r = At(s, n, n) THEN back[r] ELSE At(s, n, n)
  <2>1. At(t, n - 1, n - 1) = IF n - 1 < m THEN At(s, n, n - 1) ELSE At(s, n, n)
    <3>1. n - 1 \in 0 .. n /\ n - 1 + 1 = n
      BY <1>1
    <3> QED
      BY <1>2, <3>1
  <2>2. r = At(s, n, n) <=> m = n
    <3>1. m \in 0 .. n + 1 /\ n \in 0 .. n + 1 /\ n \in 1 .. n
      BY <1>1
    <3> QED
      BY <1>4, <3>1
  <2>3. n - 1 < m <=> m = n
    BY <1>1
  <2> QED
    BY <1>1, <2>1, <2>2, <2>3
<1>10. Chained(t, n - 1, D \ {r}, IF back[r] = NULL THEN fwd[r] ELSE head, f2, b2)
  BY <1>2, <1>6, <1>8 DEF Chained
<1> QED
  BY <1>7, <1>9, <1>10 DEF t, f2, b2

(***************************************************************************)
(* Walks along a list.                                                     *)
(***************************************************************************)

LEMMA Smallest ==
    ASSUME NEW T \in SUBSET Nat, T # {}
    PROVE  \E m \in T : \A k \in T : m <= k
<1>1. PICK m \in T : \A k \in T : ~(<<k, m>> \in OpToRel(<, Nat))
  BY NatLessThanWellFounded, WFMin
<1>2. \A k \in T : ~(k < m)
  BY <1>1 DEF OpToRel
<1> QED
  BY <1>2

\* There are no more records in a list than there are addresses.
LEMMA OrderedFits ==
    ASSUME NEW s, NEW n, NEW D, Ordered(s, n, D)
    PROVE  /\ IsFiniteSet(D) /\ Cardinality(D) = n
           /\ Cardinality(Recs) \in Nat /\ n <= Cardinality(Recs)
<1>1. n \in Nat /\ s \in [1 .. n -> D]
  BY DEF Ordered
<1>2. s \in Bijection(1 .. n, D)
  BY <1>1 DEF Ordered, Bijection, Injection, Surjection, IsInjective
<1>3. ExistsBijection(1 .. n, D)
  BY <1>2 DEF ExistsBijection
<1>4. IsFiniteSet(D) /\ Cardinality(D) = n
  BY <1>1, <1>3, FS_NatBijection, FS_CountingElements
<1>5. D \subseteq Recs /\ IsFiniteSet(Recs)
  BY MemHashAssumption DEF Ordered
<1> QED
  BY <1>4, <1>5, FS_Subset, FS_CardinalityType

LEMMA FollowIs ==
    ASSUME NEW s, NEW n, NEW D, Ordered(s, n, D), NEW link,
           \A i \in 1 .. n : link[s[i]] = At(s, n, i + 1)
    PROVE  Follow(At(s, n, 1), link) = s
<1> DEFINE N == Cardinality(Recs)
           p == At(s, n, 1)
           at == CHOOSE at : at = [i \in 1 .. N + 1 |->
                                     IF i = 1 THEN p
                                     ELSE IF at[i - 1] = NULL THEN NULL
                                     ELSE link[at[i - 1]]]
<1>1. Follow(p, link) =
        [i \in 1 .. Cardinality({j \in 1 .. N : at[j] # NULL}) |-> at[i]]
  BY DEF Follow
<1>2. /\ n \in Nat /\ N \in Nat /\ n <= N /\ s \in [1 .. n -> Recs]
      /\ \A i \in 1 .. n : s[i] # NULL
  <2>1. N \in Nat /\ n <= N
    BY OrderedFits
  <2>2. n \in Nat /\ s \in [1 .. n -> Recs]
    BY DEF Ordered
  <2> QED
    BY <2>1, <2>2, NullIs
<1> HIDE DEF N
<1>3. \A i \in 2 .. N + 1 :
        At(s, n, i) = IF At(s, n, i - 1) = NULL THEN NULL ELSE link[At(s, n, i - 1)]
  <2> TAKE i \in 2 .. N + 1
  <2>1. CASE i - 1 \in 1 .. n
    <3>1. At(s, n, i - 1) = s[i - 1] /\ s[i - 1] # NULL /\ i - 1 + 1 = i
      BY <1>2, <2>1 DEF At
    <3>2. link[s[i - 1]] = At(s, n, i)
      BY <2>1, <3>1
    <3> QED
      BY <3>1, <3>2
  <2>2. CASE i - 1 \notin 1 .. n
    <3>1. At(s, n, i - 1) = NULL
      BY <2>2 DEF At
    <3>2. i \notin 1 .. n
      BY <1>2, <2>2
    <3> QED
      BY <3>1, <3>2 DEF At
  <2> QED
    BY <2>1, <2>2
<1>4. at = [i \in 1 .. N + 1 |-> IF i = 1 THEN p
                                 ELSE IF at[i - 1] = NULL THEN NULL
                                 ELSE link[at[i - 1]]]
  <2> DEFINE g == [i \in 1 .. N + 1 |-> At(s, n, i)]
  <2>1. g = [i \in 1 .. N + 1 |-> IF i = 1 THEN p
                                  ELSE IF g[i - 1] = NULL THEN NULL
                                  ELSE link[g[i - 1]]]
    <3>1. ASSUME NEW i \in 1 .. N + 1
          PROVE  At(s, n, i) = IF i = 1 THEN p
                               ELSE IF g[i - 1] = NULL THEN NULL
                               ELSE link[g[i - 1]]
      <4>1. CASE i = 1
        BY <4>1
      <4>2. CASE i # 1
        <5>1. i \in 2 .. N + 1 /\ i - 1 \in 1 .. N + 1
          BY <1>2, <4>2
        <5>2. g[i - 1] = At(s, n, i - 1)
          BY <5>1
        <5> HIDE DEF g
        <5> QED
          BY <1>3, <4>2, <5>1, <5>2
      <4> QED
        BY <4>1, <4>2
    <3> HIDE DEF p
    <3> QED
      BY <3>1
  <2> HIDE DEF g, p
  <2> QED
    BY <2>1
<1> HIDE DEF at
<1>5. \A i \in 1 .. N + 1 : at[i] = At(s, n, i)
  <2> DEFINE T == {i \in 1 .. N + 1 : at[i] # At(s, n, i)}
  <2> SUFFICES ASSUME T # {}
               PROVE  FALSE
    OBVIOUS
  <2>1. T \in SUBSET Nat
    BY <1>2
  <2>2. PICK m \in T : \A k \in T : m <= k
    BY <2>1, Smallest
  <2>3. m # 1
    BY <1>2, <1>4, <2>2
  <2>4. m \in 2 .. N + 1 /\ m - 1 \in 1 .. N + 1 /\ ~(m <= m - 1)
    BY <1>2, <2>2, <2>3
  <2>5. at[m - 1] = At(s, n, m - 1)
    BY <2>2, <2>4
  <2>6. at[m] = IF at[m - 1] = NULL THEN NULL ELSE link[at[m - 1]]
    BY <1>4, <2>3, <2>4
  <2> QED
    BY <1>3, <2>2, <2>4, <2>5, <2>6
<1>6. {j \in 1 .. N : at[j] # NULL} = 1 .. n
  <2>1. \A j \in 1 .. N : at[j] # NULL <=> j \in 1 .. n
    BY <1>2, <1>5 DEF At
  <2>2. 1 .. n \subseteq 1 .. N
    BY <1>2
  <2> QED
    BY <2>1, <2>2
<1>7. Cardinality(1 .. n) = n
  <2>1. Ordered(s, n, D)
    OBVIOUS
  <2>2. ExistsBijection(1 .. n, 1 .. n)
    <3>1. [i \in 1 .. n |-> i] \in Bijection(1 .. n, 1 .. n)
      BY DEF Bijection, Injection, Surjection, IsInjective
    <3> QED
      BY <3>1 DEF ExistsBijection
  <2>3. IsFiniteSet(1 .. n)
    BY <1>2, <2>2, FS_NatBijection
  <2> QED
    BY <1>2, <2>2, <2>3, FS_CountingElements
<1>8. Follow(p, link) = [i \in 1 .. n |-> at[i]]
  BY <1>1, <1>6, <1>7
<1>9. \A i \in 1 .. n : at[i] = s[i]
  BY <1>2, <1>5 DEF At
<1> QED
  BY <1>2, <1>8, <1>9

\* The first m of the records s, from the last of them on.
Backward(s, m) == [i \in 1 .. m |-> s[m + 1 - i]]

LEMMA FollowBack ==
    ASSUME NEW s, NEW n, NEW D, NEW head, NEW fwd, NEW back,
           Chained(s, n, D, head, fwd, back), NEW m \in 0 .. n
    PROVE  Follow(At(s, n, m), back) = Backward(s, m)
<1> DEFINE t == Backward(s, m)
<1>1. /\ n \in Nat /\ m \in Nat /\ m <= n /\ s \in [1 .. n -> Recs]
      /\ \A i, j \in 1 .. n : s[i] = s[j] => i = j
      /\ \A i \in 1 .. n : back[s[i]] = At(s, n, i - 1)
  BY DEF Chained, Ordered
<1>2. \A i \in 1 .. m : m + 1 - i \in 1 .. n /\ t[i] = s[m + 1 - i]
  BY <1>1 DEF Backward
<1>3. Ordered(t, m, {t[i] : i \in 1 .. m})
  <2>1. t \in [1 .. m -> Recs]
    BY <1>1, <1>2 DEF Backward
  <2>2. \A i, j \in 1 .. m : t[i] = t[j] => i = j
    BY <1>1, <1>2
  <2> QED
    BY <1>1, <2>1, <2>2 DEF Ordered
<1>4. \A i \in 1 .. m : back[t[i]] = At(t, m, i + 1)
  <2> TAKE i \in 1 .. m
  <2>1. back[t[i]] = At(s, n, m + 1 - i - 1)
    BY <1>1, <1>2
  <2>2. CASE i = m
    BY <1>1, <2>1, <2>2 DEF At
  <2>3. CASE i # m
    <3>1. i + 1 \in 1 .. m /\ m + 1 - i - 1 = m + 1 - (i + 1)
      BY <1>1, <2>3
    <3>2. t[i + 1] = s[m + 1 - (i + 1)] /\ m + 1 - (i + 1) \in 1 .. n
      BY <1>2, <3>1
    <3> QED
      BY <2>1, <3>1, <3>2 DEF At
  <2> QED
    BY <2>2, <2>3
<1>5. At(t, m, 1) = At(s, n, m)
  BY <1>1, <1>2 DEF At
<1>6. Follow(At(t, m, 1), back) = t
  BY <1>3, <1>4, FollowIs
<1> QED
  BY <1>5, <1>6

(***************************************************************************)
(* The chains.                                                             *)
(***************************************************************************)

IsChains(t, n) ==
    t \in [next: Links, prev: Links, buckets: [0 .. n - 1 -> Pointer]]

\* The records of D that are in bucket b of n.
Bucket(D, keys, n, b) == {r \in D : BucketOf(keys[r], n) = b}

\* The records of D are in the chains of their buckets.
Hashed(D, keys, n, t) ==
    \A b \in 0 .. n - 1 :
        \E s, m : Chained(s, m, Bucket(D, keys, n, b), t.buckets[b], t.next, t.prev)

LEMMA BucketIs ==
    ASSUME NEW k \in Keys, NEW n \in Nat \ {0}
    PROVE  BucketOf(k, n) \in 0 .. n - 1
<1>1. Hash[k] \in Nat
  BY MemHashAssumption
<1> QED
  BY <1>1 DEF BucketOf

LEMMA NothingHashed ==
    ASSUME NEW n \in Nat \ {0}, NEW t, IsChains(t, n), NEW keys,
           t.buckets = [b \in 0 .. n - 1 |-> NULL]
    PROVE  Hashed({}, keys, n, t)
<1>1. ASSUME NEW b \in 0 .. n - 1
      PROVE  \E s, m : Chained(s, m, Bucket({}, keys, n, b), t.buckets[b], t.next, t.prev)
  <2>1. Bucket({}, keys, n, b) = {} /\ t.buckets[b] = NULL
    BY DEF Bucket
  <2>2. PICK s : Chained(s, 0, {}, NULL, t.next, t.prev)
    BY ChainEmpty
  <2> QED
    BY <2>1, <2>2
<1> QED
  BY <1>1 DEF Hashed

LEMMA InstallIs ==
    ASSUME NEW n \in Nat \ {0}, NEW t, IsChains(t, n), NEW D \in SUBSET Recs, NEW keys,
           NEW r \in Recs \ D, keys[r] \in Keys, Hashed(D, keys, n, t),
           NEW u, u = Install(t, r, BucketOf(keys[r], n))
    PROVE  IsChains(u, n) /\ Hashed(D \cup {r}, keys, n, u)
<1> DEFINE b == BucketOf(keys[r], n)
           head == t.buckets[b]
           in(c) == Bucket(D, keys, n, c)
           in2(c) == Bucket(D \cup {r}, keys, n, c)
<1>1. b \in 0 .. n - 1
  BY BucketIs
<1>2. /\ u.next = [t.next EXCEPT ![r] = head]
      /\ u.prev = Set([t.prev EXCEPT ![r] = NULL], head, r)
      /\ u.buckets = [t.buckets EXCEPT ![b] = r]
      /\ u = [next |-> u.next, prev |-> u.prev, buckets |-> u.buckets]
  BY DEF Install
<1>3. /\ t.next \in Links /\ t.prev \in Links
      /\ t.buckets \in [0 .. n - 1 -> Pointer] /\ head \in Pointer
  BY <1>1 DEF IsChains
<1>4. IsChains(u, n)
  <2>1. u.next \in Links
    BY <1>2, <1>3 DEF Links
  <2>2. u.prev \in Links
    BY <1>2, <1>3 DEF Links, Pointer, Set
  <2>3. u.buckets \in [0 .. n - 1 -> Pointer]
    BY <1>2, <1>3 DEF Pointer
  <2> QED
    BY <1>2, <2>1, <2>2, <2>3 DEF IsChains
<1>5. in2(b) = in(b) \cup {r} /\ r \notin in(b)
  BY DEF Bucket
<1>6. \A c \in 0 .. n - 1 : c # b => in2(c) = in(c) /\ r \notin in(c)
  BY DEF Bucket
<1>7. \E s, m : Chained(s, m, in(b), head, t.next, t.prev)
  BY <1>1 DEF Hashed
<1>8. head = NULL \/ head \in in(b)
  <2>1. PICK s, m : Chained(s, m, in(b), head, t.next, t.prev)
    BY <1>7
  <2> HIDE DEF head, in
  <2> QED
    BY <2>1 DEF Chained, Ordered, At
<1> HIDE DEF head
<1>9. \E s, m : Chained(s, m, in2(b), u.buckets[b], u.next, u.prev)
  <2>1. PICK s, m : Chained(s, m, in(b), head, t.next, t.prev)
    BY <1>7
  <2>2. Chained(Pushed(s, m, r), m + 1, in2(b), r, u.next, u.prev)
    <3> HIDE DEF in, in2
    <3> QED
      BY <1>2, <1>3, <1>5, <2>1, ChainPush
  <2>3. u.buckets[b] = r
    BY <1>1, <1>2, <1>3
  <2> QED
    BY <2>2, <2>3
<1>10. ASSUME NEW c \in 0 .. n - 1, c # b
       PROVE  \E s, m : Chained(s, m, in2(c), u.buckets[c], u.next, u.prev)
  <2>1. PICK s, m : Chained(s, m, in(c), t.buckets[c], t.next, t.prev)
    BY DEF Hashed
  <2>2. u.buckets[c] = t.buckets[c]
    BY <1>2, <1>3, <1>10
  <2>3. ASSUME NEW q \in in(c)
        PROVE  u.next[q] = t.next[q] /\ u.prev[q] = t.prev[q]
    <3>1. q \in Recs /\ q # r /\ q # NULL
      BY <1>6, <1>10, NullIs DEF Bucket
    <3>2. q # head
      BY <1>8, <1>10, <3>1 DEF Bucket
    <3> HIDE DEF in, b
    <3>3. u.next[q] = t.next[q]
      BY <1>2, <1>3, <3>1 DEF Links
    <3>4. u.prev[q] = t.prev[q]
      BY <1>2, <1>3, <3>1, <3>2 DEF Links, Set, Pointer
    <3> QED
      BY <3>3, <3>4
  <2>4. Chained(s, m, in(c), t.buckets[c], u.next, u.prev)
    <3> HIDE DEF in
    <3> QED
      BY <2>1, <2>3, ChainKept
  <2>5. in2(c) = in(c)
    BY <1>6, <1>10
  <2> HIDE DEF in, in2
  <2> QED
    BY <2>2, <2>4, <2>5
<1> HIDE DEF in2, b
<1>11. Hashed(D \cup {r}, keys, n, u)
  BY <1>9, <1>10 DEF Hashed, in2
<1> QED
  BY <1>4, <1>11

\* One step of the loop of MemHashGrowTable after another.
LEMMA RehashIs ==
    ASSUME NEW n \in Nat \ {0}, NEW t, t.next \in Links, t.prev \in Links,
           t = [next |-> t.next, prev |-> t.prev, buckets |-> t.buckets],
           NEW list \in Seq(Recs), NEW D, Ordered(list, Len(list), D), NEW keys,
           \A r \in D : keys[r] \in Keys
    PROVE  /\ IsChains(Rehash(t, list, keys, n), n)
           /\ Hashed(D, keys, n, Rehash(t, list, keys, n))
<1> DEFINE N == Len(list)
           t0 == [t EXCEPT !.buckets = [b \in 0 .. n - 1 |-> NULL]]
           Step(x, r) == Install(x, r, BucketOf(keys[r], n))
           at == CHOOSE at : at = [i \in 0 .. N |->
                                     IF i = 0 THEN t0 ELSE Step(at[i - 1], list[i])]
<1>1. Rehash(t, list, keys, n) = at[N]
  BY DEF Rehash
<1>2. N \in Nat /\ \A i \in 1 .. N : list[i] \in Recs
  BY LenProperties, ElementOfSeq
<1>3. /\ t0.next = t.next /\ t0.prev = t.prev
      /\ t0.buckets = [b \in 0 .. n - 1 |-> NULL]
      /\ t0 = [next |-> t.next, prev |-> t.prev,
                buckets |-> [b \in 0 .. n - 1 |-> NULL]]
  <2> DEFINE none == [b \in 0 .. n - 1 |-> NULL]
  <2> HIDE DEF none
  <2>1. PICK f, p, c : t = [next |-> f, prev |-> p, buckets |-> c]
    OBVIOUS
  <2>2. [t EXCEPT !.buckets = none] = [next |-> f, prev |-> p, buckets |-> none]
    BY <2>1
  <2>3. t.next = f /\ t.prev = p
    BY <2>1
  <2>4. t0 = [next |-> t.next, prev |-> t.prev, buckets |-> none]
    BY <2>2, <2>3 DEF none
  <2> QED
    BY <2>4 DEF none
<1> HIDE DEF t0, Step
<1>4. at = [i \in 0 .. N |-> IF i = 0 THEN t0 ELSE Step(at[i - 1], list[i])]
  <2> DEFINE Upto(k, g) ==
                 \A i \in 0 .. k : g[i] = IF i = 0 THEN t0 ELSE Step(g[i - 1], list[i])
             T == {k \in 0 .. N : ~ \E g : Upto(k, g)}
  <2>1. T = {}
    <3> SUFFICES ASSUME T # {}
                 PROVE  FALSE
      OBVIOUS
    <3>1. T \in SUBSET Nat
      BY <1>2
    <3>2. PICK m \in T : \A k \in T : m <= k
      BY <3>1, Smallest
    <3>3. m # 0
      <4>1. Upto(0, [i \in 0 .. 0 |-> t0])
        <5>1. ASSUME NEW i \in 0 .. 0
              PROVE  i = 0
          OBVIOUS
        <5> QED
          BY <5>1
      <4> HIDE DEF Upto
      <4> QED
        BY <3>2, <4>1
    <3>4. m - 1 \in 0 .. N /\ m - 1 \notin T /\ m \in Nat
      BY <1>2, <3>2, <3>3
    <3>5. PICK g : Upto(m - 1, g)
      BY <3>4
    <3> DEFINE h == [i \in 0 .. m |-> IF i = m THEN Step(g[m - 1], list[m]) ELSE g[i]]
    <3>6. \A i \in 0 .. m - 1 : h[i] = g[i]
      <4>1. \A i \in 0 .. m - 1 : i \in 0 .. m /\ i # m
        BY <3>4
      <4> QED
        BY <4>1
    <3>7. h[m] = Step(g[m - 1], list[m])
      BY <3>4
    <3> HIDE DEF h
    <3>8. ASSUME NEW i \in 0 .. m
          PROVE  h[i] = IF i = 0 THEN t0 ELSE Step(h[i - 1], list[i])
      <4>1. CASE i = m
        <5>1. m - 1 \in 0 .. m - 1
          BY <3>3, <3>4
        <5> QED
          BY <3>3, <3>6, <3>7, <4>1, <5>1
      <4>2. CASE i # m
        <5>1. i \in 0 .. m - 1 /\ (i # 0 => i - 1 \in 0 .. m - 1)
          BY <3>4, <4>2
        <5>2. g[i] = IF i = 0 THEN t0 ELSE Step(g[i - 1], list[i])
          BY <3>5, <5>1
        <5> QED
          BY <3>6, <5>1, <5>2
      <4> QED
        BY <4>1, <4>2
    <3>9. Upto(m, h)
      BY <3>8
    <3> HIDE DEF Upto
    <3> QED
      BY <3>2, <3>9
  <2>2. N \in 0 .. N
    BY <1>2
  <2> HIDE DEF Upto
  <2>3. PICK g : Upto(N, g)
    BY <2>1, <2>2
  <2> USE DEF Upto
  <2> DEFINE h == [i \in 0 .. N |-> g[i]]
  <2>4. ASSUME NEW i \in 0 .. N
        PROVE  g[i] = IF i = 0 THEN t0 ELSE Step(h[i - 1], list[i])
    <3>1. i # 0 => i - 1 \in 0 .. N
      BY <1>2
    <3>2. i # 0 => h[i - 1] = g[i - 1]
      BY <3>1
    <3> HIDE DEF h
    <3> QED
      BY <2>3, <3>2
  <2>5. h = [i \in 0 .. N |-> IF i = 0 THEN t0 ELSE Step(h[i - 1], list[i])]
    BY <2>4
  <2> HIDE DEF h
  <2> QED
    BY <2>5
<1> HIDE DEF at, N
<1> DEFINE Done(i) == {list[j] : j \in 1 .. i}
           Good(i) == IsChains(at[i], n) /\ Hashed(Done(i), keys, n, at[i])
<1>5. Good(0)
  <2>1. at[0] = t0
    BY <1>2, <1>4
  <2>2. IsChains(t0, n)
    <3>1. [b \in 0 .. n - 1 |-> NULL] \in [0 .. n - 1 -> Pointer]
      BY DEF Pointer
    <3> QED
      BY <1>3, <3>1 DEF IsChains
  <2>3. Done(0) = {}
    OBVIOUS
  <2>4. Hashed({}, keys, n, t0)
    BY <1>3, <2>2, NothingHashed
  <2> HIDE DEF Done
  <2> QED
    BY <2>1, <2>2, <2>3, <2>4
<1>6. ASSUME NEW i \in 1 .. N, Good(i - 1)
      PROVE  Good(i)
  <2>1. i \in 0 .. N /\ i # 0 /\ i - 1 \in 0 .. N /\ i - 1 \in Nat /\ i \in Nat
    BY <1>2
  <2>2. at[i] = Step(at[i - 1], list[i])
    BY <1>4, <2>1
  <2>3. /\ \A j, k \in 1 .. N : list[j] = list[k] => j = k
        /\ D = {list[j] : j \in 1 .. N}
    BY DEF Ordered, N
  <2>4. /\ 1 .. i = 1 .. i - 1 \cup {i} /\ 1 .. i \subseteq 1 .. N
        /\ i \notin 1 .. i - 1
    BY <1>2, <2>1
  <2>5. /\ Done(i) = Done(i - 1) \cup {list[i]} /\ Done(i - 1) \in SUBSET Recs
        /\ list[i] \in Recs \ Done(i - 1) /\ keys[list[i]] \in Keys
    BY <1>2, <2>3, <2>4
  <2>6. /\ IsChains(at[i - 1], n) /\ Hashed(Done(i - 1), keys, n, at[i - 1])
    BY <1>6
  <2> HIDE DEF Done
  <2>7. IsChains(at[i], n) /\ Hashed(Done(i - 1) \cup {list[i]}, keys, n, at[i])
    BY <2>2, <2>5, <2>6, InstallIs DEF Step
  <2> QED
    BY <2>5, <2>7
<1>7. Good(N)
  <2> HIDE DEF Good
  <2> DEFINE T == {i \in 0 .. N : ~Good(i)}
  <2> SUFFICES ASSUME T # {}
               PROVE  FALSE
    BY <1>2
  <2>1. T \in SUBSET Nat
    BY <1>2
  <2>2. PICK m \in T : \A k \in T : m <= k
    BY <2>1, Smallest
  <2>3. m # 0
    BY <1>5, <2>2
  <2>4. m \in 1 .. N /\ m - 1 \in 0 .. N /\ ~(m <= m - 1)
    BY <1>2, <2>2, <2>3
  <2>5. Good(m - 1)
    BY <2>2, <2>4
  <2> QED
    BY <1>6, <2>2, <2>4, <2>5
<1>8. Done(N) = D
  BY DEF Ordered, N
<1> HIDE DEF Done
<1> QED
  BY <1>1, <1>7, <1>8

(***************************************************************************)
(* The inductive invariant.                                                *)
(***************************************************************************)

Types ==
    /\ nBucket \in Nat \ {0}
    /\ pKey \in [Recs -> Keys \cup {NULL}]
    /\ pData \in [Recs -> Vals \cup {NULL}]
    /\ \A r \in Live : pData[r] \in Vals
    /\ pNext \in Links /\ pPrev \in Links
    /\ IsChains(Chains, nBucket)
    /\ pCur \in [Cursors -> Pointer]

OneEach == \A r, q \in Live : pKey[r] = pKey[q] => r = q

\* All records are in the list, both ways.
Listed ==
    /\ Chained(List, nRecord, Live, pLast, pNext, pPrev)
    /\ pFirst = At(List, nRecord, nRecord)

IInv == Types /\ OneEach /\ Listed /\ Hashed(Live, pKey, nBucket, Chains)

LEMMA ListIs ==
    ASSUME NEW s, NEW n, NEW D, NEW head, NEW fwd, NEW back,
           Chained(s, n, D, head, fwd, back)
    PROVE  Follow(head, fwd) = s
  BY FollowIs DEF Chained

LEMMA InitIInv == Init => IInv
<1> SUFFICES ASSUME Init
             PROVE  IInv
  OBVIOUS
<1>1. /\ Nulls \in [Recs -> Keys \cup {NULL}] /\ Nulls \in [Recs -> Vals \cup {NULL}]
      /\ Nulls \in Links /\ \A r \in Recs : Nulls[r] = NULL
  BY DEF Nulls, Links, Pointer
<1>2. Live = {}
  BY <1>1 DEF Init, Live
<1>3. nBucket \in Nat \ {0} /\ apBucket = [b \in 0 .. nBucket - 1 |-> NULL]
  BY MemHashAssumption DEF Init
<1>4. IsChains(Chains, nBucket)
  <2>1. apBucket \in [0 .. nBucket - 1 -> Pointer]
    BY <1>3 DEF Pointer
  <2> QED
    BY <1>1, <2>1 DEF IsChains, Chains, Init
<1>5. Types
  <2>1. pCur \in [Cursors -> Pointer]
    BY DEF Init, Pointer
  <2> QED
    BY <1>1, <1>2, <1>3, <1>4, <2>1 DEF Init, Types
<1>6. Hashed(Live, pKey, nBucket, Chains)
  <2>1. Chains.buckets = [b \in 0 .. nBucket - 1 |-> NULL]
    BY <1>3 DEF Chains
  <2> QED
    BY <1>2, <1>3, <1>4, <2>1, NothingHashed
<1>7. Listed
  <2>1. PICK s : Chained(s, 0, {}, NULL, pNext, pPrev)
    BY ChainEmpty
  <2>2. List = s
    BY <2>1, ListIs DEF List, Init
  <2> QED
    BY <1>2, <2>1, <2>2 DEF Listed, Init, At
<1> QED
  BY <1>2, <1>5, <1>6, <1>7 DEF IInv, OneEach

(***************************************************************************)
(* Lookups.                                                                *)
(***************************************************************************)

LEMMA EntryIs ==
    ASSUME IInv, NEW k \in Keys
    PROVE  /\ GetEntry(k) # NULL => GetEntry(k) \in Live /\ pKey[GetEntry(k)] = k
           /\ \A r \in Live : pKey[r] = k => GetEntry(k) = r
<1> DEFINE b == BucketOf(k, nBucket)
           chain == Follow(apBucket[b], pNextHash)
           hits == {i \in DOMAIN chain : pKey[chain[i]] = k}
<1>1. b \in 0 .. nBucket - 1
  BY BucketIs DEF IInv, Types
<1>2. PICK s, m : Chained(s, m, Bucket(Live, pKey, nBucket, b), apBucket[b],
                          pNextHash, pPrevHash)
  <2>1. \E s, m : Chained(s, m, Bucket(Live, pKey, nBucket, b), Chains.buckets[b],
                          Chains.next, Chains.prev)
    BY <1>1 DEF IInv, Hashed
  <2> HIDE DEF b
  <2> QED
    BY <2>1 DEF Chains
<1>3. chain = s
  BY <1>2, ListIs
<1>4. GetEntry(k) = IF hits = {} THEN NULL ELSE chain[Min(hits)]
  BY DEF GetEntry
<1> HIDE DEF chain, hits
<1>5. /\ m \in Nat /\ DOMAIN s = 1 .. m
      /\ Bucket(Live, pKey, nBucket, b) = {s[i] : i \in 1 .. m}
  BY <1>2 DEF Chained, Ordered
<1>6. hits = {i \in 1 .. m : pKey[s[i]] = k}
  BY <1>3, <1>5 DEF hits
<1>7. \A i \in 1 .. m : s[i] \in Live
  BY <1>5 DEF Bucket
<1>8. hits # {} => Min(hits) \in hits
  <2>1. hits \in SUBSET Nat
    BY <1>5, <1>6
  <2>2. hits # {} => \E i \in hits : \A j \in hits : i <= j
    BY <2>1, Smallest
  <2> QED
    BY <2>2 DEF Min
<1>9. GetEntry(k) # NULL => GetEntry(k) \in Live /\ pKey[GetEntry(k)] = k
  BY <1>3, <1>4, <1>6, <1>7, <1>8
<1>10. ASSUME NEW r \in Live, pKey[r] = k
       PROVE  GetEntry(k) = r
  <2>1. r \in Bucket(Live, pKey, nBucket, b)
    BY <1>10 DEF Bucket
  <2>2. hits # {}
    BY <1>5, <1>6, <1>10, <2>1
  <2>3. GetEntry(k) \in Live /\ pKey[GetEntry(k)] = k
    BY <1>3, <1>4, <1>6, <1>7, <1>8, <2>2
  <2> QED
    BY <1>10, <2>3 DEF IInv, OneEach
<1> QED
  BY <1>9, <1>10

(***************************************************************************)
(* A new record.                                                           *)
(***************************************************************************)

LEMMA PushListed ==
    ASSUME IInv, NEW r \in Recs, r \notin Live, NEW k \in Keys, NEW v \in Vals,
           PushRecord(r, k, v)
    PROVE  /\ Live' = Live \cup {r} /\ List' = Pushed(List, nRecord, r) /\ Listed'
           /\ pNext' \in Links /\ pPrev' \in Links
<1> DEFINE s == List
           t == Pushed(s, nRecord, r)
<1>1. /\ pKey \in [Recs -> Keys \cup {NULL}] /\ pNext \in Links /\ pPrev \in Links
      /\ k # NULL
  BY MemHashAssumption DEF IInv, Types
<1>2. /\ pKey' = [pKey EXCEPT ![r] = k]
      /\ pNext' = [pNext EXCEPT ![r] = pLast]
      /\ pPrev' = Set([pPrev EXCEPT ![r] = NULL], pLast, r)
      /\ pFirst' = IF pFirst = NULL THEN r ELSE pFirst
      /\ pLast' = r /\ nRecord' = nRecord + 1
  BY DEF PushRecord
<1>3. Live' = Live \cup {r}
  BY <1>1, <1>2 DEF Live
<1>4. /\ Chained(s, nRecord, Live, pLast, pNext, pPrev)
      /\ pFirst = At(s, nRecord, nRecord)
  BY DEF IInv, Listed
<1> HIDE DEF s
<1>5. Chained(t, nRecord', Live', pLast', pNext', pPrev')
  BY <1>1, <1>2, <1>3, <1>4, ChainPush
<1>6. List' = t
  <2> HIDE DEF t
  <2>1. Follow(pLast', pNext') = t
    BY <1>5, ListIs
  <2> QED
    BY <2>1 DEF List
<1>7. nRecord \in Nat /\ s \in [1 .. nRecord -> Recs]
  BY <1>4 DEF Chained, Ordered
<1>8. pFirst' = At(t, nRecord', nRecord')
  <2>1. CASE nRecord = 0
    BY <1>2, <1>4, <1>7, <2>1 DEF At, Pushed
  <2>2. CASE nRecord # 0
    <3>1. pFirst = s[nRecord] /\ pFirst # NULL
      BY <1>4, <1>7, <2>2, NullIs DEF At
    <3>2. t[nRecord + 1] = s[nRecord]
      BY <1>7, <2>2 DEF Pushed
    <3>3. nRecord + 1 \in 1 .. nRecord + 1
      BY <1>7
    <3> QED
      BY <1>2, <3>1, <3>2, <3>3 DEF At
  <2> QED
    BY <2>1, <2>2
<1>9. Listed'
  BY <1>5, <1>6, <1>8 DEF Listed
<1>10. pLast \in Pointer
  BY <1>4, <1>7 DEF Chained, At, Pointer
<1>11. pNext' \in Links
  BY <1>1, <1>2, <1>10 DEF Links
<1>12. pPrev' \in Links
  BY <1>1, <1>2, <1>10 DEF Links, Pointer, Set
<1> QED
  BY <1>3, <1>6, <1>9, <1>11, <1>12 DEF s

LEMMA InsertKeeps ==
    ASSUME IInv, NEW r \in Recs, NEW k \in Keys, NEW v \in Vals, NEW memory,
           GetEntry(k) = NULL, Insert(r, k, v, memory), UNCHANGED pCur
    PROVE  /\ IInv'
           /\ r \notin Live /\ \A c \in Cursors : pCur[c] # r
           /\ Live' = Live \cup {r} /\ List' = Pushed(List, nRecord, r)
<1> DEFINE linked == Install(Chains, r, BucketOf(k, nBucket))
           list == <<r>> \o SubSeq(Follow(pLast, pNext), 1, nRecord)
           grow == /\ nRecord + 1 >= nBucket * FillFactor
                   /\ nRecord + 1 < GrowLimit
                   /\ memory
           n == IF grow THEN 2 * nBucket ELSE nBucket
           t == IF grow THEN Rehash(linked, list, [pKey EXCEPT ![r] = k], n)
                        ELSE linked
<1>1. /\ Fresh(r) /\ PushRecord(r, k, v) /\ nBucket' = n
      /\ pNextHash' = t.next /\ pPrevHash' = t.prev /\ apBucket' = t.buckets
  BY DEF Insert
<1> HIDE DEF grow
<1>2. r \notin Live /\ \A c \in Cursors : pCur[c] # r
  BY <1>1 DEF Fresh
<1>3. /\ Live' = Live \cup {r} /\ List' = Pushed(List, nRecord, r) /\ Listed'
      /\ pNext' \in Links /\ pPrev' \in Links
  BY <1>1, <1>2, PushListed
<1>4. /\ Types /\ OneEach /\ Listed /\ Hashed(Live, pKey, nBucket, Chains)
      /\ nBucket \in Nat \ {0} /\ Live \subseteq Recs
  BY DEF IInv, Types, Live
<1>5. /\ pKey' = [pKey EXCEPT ![r] = k] /\ pData' = [pData EXCEPT ![r] = v]
      /\ pKey'[r] = k /\ \A q \in Live : pKey'[q] = pKey[q]
  BY <1>1, <1>2, <1>4 DEF PushRecord, Types
<1>6. Hashed(Live, pKey', nBucket, Chains)
  <2>1. \A b : Bucket(Live, pKey', nBucket, b) = Bucket(Live, pKey, nBucket, b)
    BY <1>5 DEF Bucket
  <2> QED
    BY <1>4, <2>1 DEF Hashed
<1>7. IsChains(linked, nBucket) /\ Hashed(Live', pKey', nBucket, linked)
  <2>1. IsChains(Chains, nBucket)
    BY <1>4 DEF Types
  <2>2. linked = Install(Chains, r, BucketOf(pKey'[r], nBucket)) /\ pKey'[r] \in Keys
    BY <1>5
  <2> HIDE DEF linked
  <2> QED
    BY <1>2, <1>3, <1>4, <1>6, <2>1, <2>2, InstallIs
<1> HIDE DEF linked
<1>8. \A q \in Live' : pKey'[q] \in Keys
  BY <1>3, <1>4, <1>5 DEF Types, Live
<1>9. /\ list \in Seq(Recs) /\ Ordered(list, Len(list), Live')
  <2> DEFINE s == List
  <2>1. /\ Ordered(s, nRecord, Live) /\ nRecord \in Nat
        /\ s \in [1 .. nRecord -> Recs] /\ Follow(pLast, pNext) = s
    BY <1>4 DEF Listed, Chained, Ordered, List
  <2> HIDE DEF s
  <2>2. s \in Seq(Recs) /\ Len(s) = nRecord
    BY <2>1, SeqDef, LenProperties
  <2>3. SubSeq(s, 1, nRecord) = s
    BY <2>2, SubSeqFull
  <2>4. <<r>> \in Seq(Recs) /\ Len(<<r>>) = 1 /\ <<r>>[1] = r
    OBVIOUS
  <2> DEFINE one == <<r>>
  <2> HIDE DEF one
  <2>5. /\ one \o s \in Seq(Recs) /\ Len(one \o s) = 1 + nRecord
        /\ \A i \in 1 .. 1 + nRecord :
             (one \o s)[i] = IF i <= 1 THEN one[i] ELSE s[i - 1]
    BY <2>2, <2>4, ConcatProperties DEF one
  <2>6. list = one \o s
    BY <2>1, <2>3 DEF one
  <2> HIDE DEF list
  <2>7. list \in Seq(Recs) /\ Len(list) = nRecord + 1
    BY <2>1, <2>5, <2>6
  <2>8. list = Pushed(s, nRecord, r)
    <3>1. list \in [1 .. nRecord + 1 -> Recs]
      BY <2>7, LenProperties
    <3>2. \A i \in 1 .. nRecord + 1 : list[i] = IF i = 1 THEN r ELSE s[i - 1]
      BY <2>1, <2>4, <2>5, <2>6 DEF one
    <3> QED
      BY <3>1, <3>2 DEF Pushed
  <2>9. Ordered(Pushed(s, nRecord, r), nRecord + 1, Live')
    <3>1. List' = Pushed(s, nRecord, r) /\ nRecord' = nRecord + 1
      BY <1>1, <1>3 DEF s, PushRecord
    <3>2. Ordered(List', nRecord', Live')
      BY <1>3 DEF Listed, Chained
    <3> QED
      BY <3>1, <3>2
  <2> QED
    BY <2>7, <2>8, <2>9
<1> HIDE DEF list
<1>10. n \in Nat \ {0} /\ IsChains(t, n) /\ Hashed(Live', pKey', n, t)
  <2>1. CASE grow
    <3>1. n = 2 * nBucket /\ n \in Nat \ {0} /\ t = Rehash(linked, list, pKey', n)
      BY <1>4, <1>5, <2>1
    <3>2. /\ linked.next \in Links /\ linked.prev \in Links
          /\ linked = [next |-> linked.next, prev |-> linked.prev,
                       buckets |-> linked.buckets]
      BY <1>7 DEF IsChains
    <3> HIDE DEF n, t
    <3> QED
      BY <1>8, <1>9, <3>1, <3>2, RehashIs
  <2>2. CASE ~grow
    BY <1>4, <1>7, <2>2
  <2> QED
    BY <2>1, <2>2
<1> HIDE DEF n, t
<1>11. Chains' = t
  BY <1>1, <1>10 DEF Chains, IsChains
<1>12. OneEach'
  <2>1. \A q \in Live : pKey[q] # k
    <3> SUFFICES ASSUME NEW q \in Live, pKey[q] = k
                 PROVE  FALSE
      OBVIOUS
    <3>1. q = NULL
      BY EntryIs
    <3> QED
      BY <1>4, <3>1, NullIs
  <2> QED
    BY <1>3, <1>4, <1>5, <2>1 DEF OneEach
<1>13. Types'
  <2>1. pKey' \in [Recs -> Keys \cup {NULL}] /\ pData' \in [Recs -> Vals \cup {NULL}]
    BY <1>4, <1>5 DEF Types
  <2>2. \A q \in Live' : pData'[q] \in Vals
    BY <1>2, <1>3, <1>4, <1>5 DEF Types
  <2>3. pCur' \in [Cursors -> Pointer]
    BY <1>4 DEF Types
  <2> QED
    BY <1>1, <1>3, <1>10, <1>11, <2>1, <2>2, <2>3 DEF Types
<1>14. IInv'
  BY <1>1, <1>3, <1>10, <1>11, <1>12, <1>13 DEF IInv
<1> QED
  BY <1>2, <1>3, <1>14

(***************************************************************************)
(* A record less.                                                          *)
(***************************************************************************)

\* A list links its own records only.
LEMMA ChainWithin ==
    ASSUME NEW s, NEW n, NEW D, NEW head, NEW fwd, NEW back,
           Chained(s, n, D, head, fwd, back)
    PROVE  /\ head \in D \cup {NULL}
           /\ \A r \in D : fwd[r] \in D \cup {NULL} /\ back[r] \in D \cup {NULL}
<1>1. \A i : At(s, n, i) \in D \cup {NULL}
  BY DEF At, Chained, Ordered
<1> QED
  BY <1>1 DEF Chained, Ordered

LEMMA DropListed ==
    ASSUME IInv, NEW r \in Live, UnlinkRecord(r)
    PROVE  /\ Live' = Live \ {r} /\ Listed'
           /\ pNext' \in Links /\ pPrev' \in Links
           /\ \E m \in 1 .. nRecord :
                List[m] = r /\ List' = Dropped(List, nRecord, m)
<1> DEFINE s == List
<1>1. /\ pKey \in [Recs -> Keys \cup {NULL}] /\ pNext \in Links /\ pPrev \in Links
      /\ r \in Recs
  BY DEF IInv, Types, Live
<1>2. /\ pKey' = [pKey EXCEPT ![r] = NULL]
      /\ pLast' = IF r = pLast THEN pNext[r] ELSE pLast
      /\ pNext' = Bypass(pNext, r, pPrev[r])
      /\ pPrev' = Bypass(pPrev, r, pNext[r])
      /\ pFirst' = IF r = pFirst THEN pPrev[r] ELSE pFirst
      /\ nRecord' = nRecord - 1
  BY DEF UnlinkRecord, Free
<1>3. Live' = Live \ {r}
  BY <1>1, <1>2 DEF Live
<1>4. /\ Chained(s, nRecord, Live, pLast, pNext, pPrev)
      /\ pFirst = At(s, nRecord, nRecord)
  BY DEF IInv, Listed
<1>5. List = s
  OBVIOUS
<1> HIDE DEF s
<1>6. PICK m \in 1 .. nRecord : s[m] = r
  BY <1>4 DEF Chained, Ordered
<1> DEFINE t == Dropped(s, nRecord, m)
<1>7. /\ Chained(t, nRecord - 1, Live \ {r},
                 IF pPrev[r] = NULL THEN pNext[r] ELSE pLast, pNext', pPrev')
      /\ pPrev[r] = NULL <=> r = pLast
      /\ At(t, nRecord - 1, nRecord - 1) =
           IF r = At(s, nRecord, nRecord) THEN pPrev[r] ELSE At(s, nRecord, nRecord)
  BY <1>1, <1>2, <1>4, <1>6, ChainDrop
<1> HIDE DEF t
<1>8. Chained(t, nRecord', Live', pLast', pNext', pPrev')
  BY <1>2, <1>3, <1>7
<1>9. List' = t
  <2>1. Follow(pLast', pNext') = t
    BY <1>8, ListIs
  <2> QED
    BY <2>1 DEF List
<1>10. pFirst' = At(t, nRecord', nRecord')
  BY <1>2, <1>4, <1>7
<1>11. Listed'
  BY <1>8, <1>9, <1>10 DEF Listed
<1>12. pPrev[r] \in Pointer /\ pNext[r] \in Pointer
  BY <1>1 DEF Links
<1>13. pNext' \in Links
  BY <1>1, <1>2, <1>12 DEF Links, Bypass, Set, Pointer
<1>14. pPrev' \in Links
  BY <1>1, <1>2, <1>12 DEF Links, Bypass, Set, Pointer
<1>15. \E i \in 1 .. nRecord : s[i] = r /\ List' = Dropped(s, nRecord, i)
  BY <1>6, <1>9 DEF t
<1> QED
  BY <1>3, <1>5, <1>11, <1>13, <1>14, <1>15

LEMMA UnlinkKeeps ==
    ASSUME IInv, NEW r \in Live, UnlinkRecord(r), UNCHANGED pCur
    PROVE  /\ IInv'
           /\ Live' = Live \ {r}
           /\ \E m \in 1 .. nRecord :
                List[m] = r /\ List' = Dropped(List, nRecord, m)
<1> DEFINE b == BucketOf(pKey[r], nBucket)
           in(c) == Bucket(Live, pKey, nBucket, c)
           in2(c) == Bucket(Live', pKey', nBucket, c)
<1>1. /\ Live' = Live \ {r} /\ Listed' /\ pNext' \in Links /\ pPrev' \in Links
      /\ \E m \in 1 .. nRecord :
           List[m] = r /\ List' = Dropped(List, nRecord, m)
  BY DropListed
<1>2. /\ Types /\ OneEach /\ Hashed(Live, pKey, nBucket, Chains)
      /\ nBucket \in Nat \ {0} /\ r \in Recs /\ pKey[r] \in Keys
  BY DEF IInv, Types, Live
<1>3. /\ pKey' = [pKey EXCEPT ![r] = NULL] /\ pData' = [pData EXCEPT ![r] = NULL]
      /\ apBucket' = IF pPrevHash[r] = NULL
                     THEN [apBucket EXCEPT ![b] = pNextHash[r]] ELSE apBucket
      /\ pNextHash' = Bypass(pNextHash, r, pPrevHash[r])
      /\ pPrevHash' = Bypass(pPrevHash, r, pNextHash[r])
      /\ nBucket' = nBucket
  BY DEF UnlinkRecord, Free
<1>4. b \in 0 .. nBucket - 1
  BY <1>2, BucketIs
<1>5. /\ pNextHash \in Links /\ pPrevHash \in Links
      /\ apBucket \in [0 .. nBucket - 1 -> Pointer]
  BY <1>2 DEF Types, IsChains, Chains
<1>6. \A q \in Live' : q \in Recs /\ q # r /\ q \in Live /\ pKey'[q] = pKey[q]
  BY <1>1, <1>2, <1>3 DEF Types, Live
<1>7. /\ in2(b) = in(b) \ {r} /\ r \in in(b)
      /\ \A c \in 0 .. nBucket - 1 : c # b => in2(c) = in(c) /\ r \notin in(c)
  BY <1>1, <1>6 DEF Bucket
<1>8. \A c \in 0 .. nBucket - 1 : \E s, m :
        Chained(s, m, in(c), apBucket[c], pNextHash, pPrevHash)
  BY <1>2 DEF Hashed, Chains
<1>9. /\ pNextHash[r] \in in(b) \cup {NULL} /\ pPrevHash[r] \in in(b) \cup {NULL}
      /\ pNextHash[r] \in Pointer /\ pPrevHash[r] \in Pointer
  <2>1. PICK s, m : Chained(s, m, in(b), apBucket[b], pNextHash, pPrevHash)
    BY <1>4, <1>8
  <2>2. pNextHash[r] \in Pointer /\ pPrevHash[r] \in Pointer
    BY <1>2, <1>5 DEF Links
  <2> HIDE DEF in, b
  <2> QED
    BY <1>7, <2>1, <2>2, ChainWithin
<1>10. \E s, m : Chained(s, m, in2(b), apBucket'[b], pNextHash', pPrevHash')
  <2>1. PICK s, n : Chained(s, n, in(b), apBucket[b], pNextHash, pPrevHash)
    BY <1>4, <1>8
  <2> HIDE DEF in, in2, b
  <2>2. PICK m \in 1 .. n : s[m] = r
    BY <1>7, <2>1 DEF Chained, Ordered
  <2>3. Chained(Dropped(s, n, m), n - 1, in(b) \ {r},
                IF pPrevHash[r] = NULL THEN pNextHash[r] ELSE apBucket[b],
                Bypass(pNextHash, r, pPrevHash[r]), Bypass(pPrevHash, r, pNextHash[r]))
    BY <1>5, <2>1, <2>2, ChainDrop
  <2>4. apBucket'[b] = IF pPrevHash[r] = NULL THEN pNextHash[r] ELSE apBucket[b]
    BY <1>3, <1>4, <1>5
  <2>5. Chained(Dropped(s, n, m), n - 1, in2(b), apBucket'[b], pNextHash', pPrevHash')
    BY <1>3, <1>7, <2>3, <2>4
  <2> QED
    BY <2>5
<1>11. ASSUME NEW c \in 0 .. nBucket - 1, c # b
       PROVE  \E s, m : Chained(s, m, in2(c), apBucket'[c], pNextHash', pPrevHash')
  <2>1. PICK s, m : Chained(s, m, in(c), apBucket[c], pNextHash, pPrevHash)
    BY <1>8
  <2>2. apBucket'[c] = apBucket[c]
    BY <1>3, <1>5, <1>11
  <2>3. ASSUME NEW q \in in(c)
        PROVE  pNextHash'[q] = pNextHash[q] /\ pPrevHash'[q] = pPrevHash[q]
    <3>1. q \in Recs /\ q # NULL /\ q # r
      BY <1>7, <1>11, NullIs DEF Bucket, Live
    <3>2. q # pNextHash[r] /\ q # pPrevHash[r]
      BY <1>9, <1>11, <3>1 DEF Bucket
    <3> HIDE DEF in, b
    <3> QED
      BY <1>2, <1>3, <1>5, <1>9, <3>1, <3>2 DEF Bypass, Set, Links, Pointer
  <2>4. in2(c) = in(c)
    BY <1>7, <1>11
  <2> HIDE DEF in, in2
  <2>5. Chained(s, m, in(c), apBucket[c], pNextHash', pPrevHash')
    BY <2>1, <2>3, ChainKept
  <2> QED
    BY <2>2, <2>4, <2>5
<1>12. IsChains(Chains', nBucket)
  <2>1. apBucket' \in [0 .. nBucket - 1 -> Pointer]
    BY <1>3, <1>5, <1>9
  <2>2. pNextHash' \in Links
    BY <1>3, <1>5, <1>9 DEF Bypass, Set, Links, Pointer
  <2>3. pPrevHash' \in Links
    BY <1>3, <1>5, <1>9 DEF Bypass, Set, Links, Pointer
  <2> QED
    BY <2>1, <2>2, <2>3 DEF Chains, IsChains
<1> HIDE DEF b, in, in2
<1>13. Hashed(Live', pKey', nBucket, Chains')
  BY <1>10, <1>11 DEF Hashed, Chains, in2
<1>14. Types'
  <2>1. pKey' \in [Recs -> Keys \cup {NULL}] /\ pData' \in [Recs -> Vals \cup {NULL}]
    BY <1>2, <1>3 DEF Types
  <2>2. \A q \in Live' : pData'[q] \in Vals
    BY <1>2, <1>3, <1>6 DEF Types
  <2>3. pCur' \in [Cursors -> Pointer]
    BY <1>2 DEF Types
  <2> QED
    BY <1>1, <1>2, <1>3, <1>12, <2>1, <2>2, <2>3 DEF Types
<1>15. OneEach'
  BY <1>2, <1>6 DEF OneEach
<1> QED
  BY <1>1, <1>3, <1>13, <1>14, <1>15 DEF IInv

(***************************************************************************)
(* The other steps.                                                        *)
(***************************************************************************)

LEMMA OverwriteKeeps ==
    ASSUME IInv, NEW r \in Live, NEW v \in Vals, Overwrite(r, v), UNCHANGED pCur
    PROVE  IInv' /\ Live' = Live /\ List' = List
<1>1. /\ pData' = [pData EXCEPT ![r] = v]
      /\ UNCHANGED <<pKey, pNext, pPrev, pNextHash, pPrevHash, apBucket, nBucket,
                     nRecord, pFirst, pLast>>
  BY DEF Overwrite
<1>2. Live' = Live /\ List' = List /\ Chains' = Chains
  BY <1>1 DEF Live, List, Follow, Chains
<1>3. Types'
  BY <1>1, <1>2 DEF IInv, Types, Live
<1>4. OneEach' /\ Listed' /\ Hashed(Live', pKey', nBucket', Chains')
  BY <1>1, <1>2 DEF IInv, OneEach, Listed
<1> QED
  BY <1>2, <1>3, <1>4 DEF IInv

LEMMA CursorKeeps ==
    ASSUME IInv, UNCHANGED engine, pCur' \in [Cursors -> Pointer]
    PROVE  IInv' /\ Live' = Live /\ List' = List
<1>1. UNCHANGED <<pKey, pData, pNext, pPrev, pNextHash, pPrevHash, apBucket, nBucket,
                  nRecord, pFirst, pLast>>
  BY DEF engine, records
<1>2. Live' = Live /\ List' = List /\ Chains' = Chains
  BY <1>1 DEF Live, List, Follow, Chains
<1>3. Types'
  BY <1>1, <1>2 DEF IInv, Types
<1>4. OneEach' /\ Listed' /\ Hashed(Live', pKey', nBucket', Chains')
  BY <1>1, <1>2 DEF IInv, OneEach, Listed
<1> QED
  BY <1>2, <1>3, <1>4 DEF IInv

LEMMA CursorStays ==
    ASSUME IInv, NEW c \in Cursors, CursorFirst(c) \/ CursorNext(c)
    PROVE  UNCHANGED engine /\ pCur' \in [Cursors -> Pointer]
<1>1. pCur \in [Cursors -> Pointer] /\ pPrev \in Links
  BY DEF IInv, Types
<1>2. CASE CursorFirst(c)
  <2>1. pFirst \in Pointer
    <3>1. Ordered(List, nRecord, Live) /\ pFirst = At(List, nRecord, nRecord)
      BY DEF IInv, Listed, Chained
    <3> HIDE DEF List
    <3> QED
      BY <3>1 DEF Ordered, At, Pointer
  <2> QED
    BY <1>1, <1>2, <2>1 DEF CursorFirst
<1>3. CASE CursorNext(c)
  <2>1. pPrev[pCur[c]] \in Pointer
    BY <1>1, <1>3 DEF CursorNext, Live, Links
  <2> QED
    BY <1>1, <1>3, <2>1 DEF CursorNext
<1> QED
  BY <1>2, <1>3

LEMMA NextIInv == IInv /\ [Next]_vars => IInv'
<1> SUFFICES ASSUME IInv, [Next]_vars
             PROVE  IInv'
  OBVIOUS
<1>1. ASSUME NEW k \in Keys, NEW v \in Vals, Store(k, v)
      PROVE  IInv'
  <2>1. CASE /\ GetEntry(k) = NULL
             /\ \E r \in Recs, memory \in BOOLEAN : Insert(r, k, v, memory)
    BY <1>1, <2>1, InsertKeeps DEF Store
  <2>2. CASE GetEntry(k) # NULL /\ Overwrite(GetEntry(k), v)
    <3>1. GetEntry(k) \in Live /\ pCur' = pCur
      BY <1>1, <2>2, EntryIs DEF Store
    <3> QED
      BY <2>2, <3>1, OverwriteKeeps
  <2> QED
    BY <1>1, <2>1, <2>2 DEF Store
<1>2. ASSUME NEW k \in Keys, Delete(k)
      PROVE  IInv'
  <2>1. GetEntry(k) \in Live /\ UnlinkRecord(GetEntry(k)) /\ pCur' = pCur
    BY <1>2, EntryIs DEF Delete
  <2> QED
    BY <2>1, UnlinkKeeps
<1>3. ASSUME NEW c \in Cursors, CursorFirst(c) \/ CursorNext(c)
      PROVE  IInv'
  BY <1>3, CursorStays, CursorKeeps
<1>4. CASE UNCHANGED vars
  <2>1. UNCHANGED engine /\ pCur' \in [Cursors -> Pointer]
    BY <1>4 DEF vars, IInv, Types
  <2> QED
    BY <2>1, CursorKeeps
<1> QED
  BY <1>1, <1>2, <1>3, <1>4 DEF Next

(***************************************************************************)
(* Invariance.                                                             *)
(***************************************************************************)

\* Every record is once in the list and once in the chain of its bucket, no
\* two have the same key, and nothing is linked to but records, whatever is
\* stored and deleted and however often the buckets are doubled
\* (unqlite.c:51844-52001).
THEOREM Invariant == Spec => []IInv
<1>1. Init => IInv
  BY InitIInv
<1>2. IInv /\ [Next]_vars => IInv'
  BY NextIInv
<1> QED
  BY <1>1, <1>2, PTL DEF Spec

\* No pointer of the engine is left on a freed record (unqlite.c:51862-51883).
THEOREM NoPointerLeft == Spec => []TypeOK
<1>1. IInv => TypeOK
  <2> SUFFICES ASSUME IInv
               PROVE  TypeOK
    OBVIOUS
  <2>1. /\ nBucket \in Nat \ {0} /\ pCur \in [Cursors -> Recs \cup {NULL}]
        /\ apBucket \in [0 .. nBucket - 1 -> Pointer]
        /\ \A r \in Live : pKey[r] \in Keys /\ pData[r] \in Vals
    BY DEF IInv, Types, IsChains, Chains, Pointer, Live
  <2>2. /\ Chained(List, nRecord, Live, pLast, pNext, pPrev)
        /\ pFirst = At(List, nRecord, nRecord) /\ nRecord \in Nat
    BY DEF IInv, Listed, Chained, Ordered
  <2>3. /\ pLast \in Pointers
        /\ \A r \in Live : pNext[r] \in Pointers /\ pPrev[r] \in Pointers
    BY <2>2, ChainWithin DEF Pointers
  <2>4. pFirst \in Pointers
    BY <2>2 DEF Chained, Ordered, At, Pointers
  <2>5. \A b \in 0 .. nBucket - 1 :
          \E s, m : Chained(s, m, Bucket(Live, pKey, nBucket, b), apBucket[b],
                            pNextHash, pPrevHash)
    BY DEF IInv, Hashed, Chains
  <2>6. ASSUME NEW b \in 0 .. nBucket - 1
        PROVE  /\ apBucket[b] \in Pointers
               /\ \A r \in Bucket(Live, pKey, nBucket, b) :
                    pNextHash[r] \in Pointers /\ pPrevHash[r] \in Pointers
    <3>1. PICK s, m : Chained(s, m, Bucket(Live, pKey, nBucket, b), apBucket[b],
                              pNextHash, pPrevHash)
      BY <2>5
    <3>2. Bucket(Live, pKey, nBucket, b) \cup {NULL} \subseteq Pointers
      BY DEF Bucket, Pointers
    <3> QED
      BY <3>1, <3>2, ChainWithin
  <2>7. ASSUME NEW r \in Live
        PROVE  pNextHash[r] \in Pointers /\ pPrevHash[r] \in Pointers
    <3> DEFINE b == BucketOf(pKey[r], nBucket)
    <3>1. b \in 0 .. nBucket - 1
      BY <2>1, BucketIs
    <3>2. r \in Bucket(Live, pKey, nBucket, b)
      BY DEF Bucket
    <3> HIDE DEF b
    <3> QED
      BY <2>6, <3>1, <3>2
  <2>8. apBucket \in [0 .. nBucket - 1 -> Pointers]
    BY <2>1, <2>6
  <2>9. \A r \in Live : {pNext[r], pPrev[r], pNextHash[r], pPrevHash[r]} \subseteq Pointers
    BY <2>3, <2>7
  <2>10. nBucket \in Nat /\ nRecord \in Nat /\ {pFirst, pLast} \subseteq Pointers
    BY <2>1, <2>2, <2>3, <2>4
  <2> QED
    BY <2>1, <2>8, <2>9, <2>10 DEF TypeOK
<1> QED
  BY <1>1, Invariant, PTL

\* The list has every record just once, the same both ways, and as many as
\* nRecord says (unqlite.c:51851-51857, 51874-51878).
THEOREM ListIsExact == Spec => []ListExact
<1>1. IInv => ListExact
  <2> SUFFICES ASSUME IInv
               PROVE  ListExact
    OBVIOUS
  <2> DEFINE s == List
             n == nRecord
  <2>1. /\ Chained(s, n, Live, pLast, pNext, pPrev) /\ pFirst = At(s, n, n)
        /\ n \in Nat /\ s \in [1 .. n -> Recs] /\ Live = {s[i] : i \in 1 .. n}
        /\ Ordered(s, n, Live)
    BY DEF IInv, Listed, Chained, Ordered
  <2> HIDE DEF s, n
  <2>2. Len(s) = n /\ DOMAIN s = 1 .. n
    <3>1. s \in Seq(Recs)
      BY <2>1, SeqDef
    <3> QED
      BY <2>1, <3>1, LenProperties
  <2>3. ToSet(s) = Live
    BY <2>1, <2>2 DEF ToSet
  <2>4. Cardinality(Live) = n
    BY <2>1, OrderedFits
  <2>5. Follow(pFirst, pPrev) = Backward(s, n)
    <3>1. n \in 0 .. n
      BY <2>1
    <3> QED
      BY <2>1, <3>1, FollowBack
  <2>6. Backward(s, n) = Reverse(s)
    <3>1. \A i \in 1 .. n : n + 1 - i = n - i + 1
      BY <2>1
    <3>2. Reverse(s) = [i \in 1 .. n |-> s[n - i + 1]]
      BY <2>2 DEF Reverse
    <3> QED
      BY <3>1, <3>2 DEF Backward
  <2> QED
    BY <2>2, <2>3, <2>4, <2>5, <2>6 DEF ListExact, s, n
<1> QED
  BY <1>1, Invariant, PTL

\* A lookup along the chain of a key's bucket finds the record of the list
\* that has the key, if there is one (unqlite.c:51886-51909).
THEOREM LookupsAgree == Spec => []LookupAgrees
<1>1. IInv => LookupAgrees
  <2> SUFFICES ASSUME IInv, NEW k \in Keys
               PROVE  {r \in Live : pKey[r] = k} = {GetEntry(k)} \ {NULL}
    BY DEF LookupAgrees
  <2>1. /\ GetEntry(k) # NULL => GetEntry(k) \in Live /\ pKey[GetEntry(k)] = k
        /\ \A r \in Live : pKey[r] = k => GetEntry(k) = r
    BY EntryIs
  <2>2. \A r \in Live : r # NULL
    BY NullIs DEF Live
  <2> QED
    BY <2>1, <2>2
<1> QED
  BY <1>1, Invariant, PTL

(***************************************************************************)
(* The table that the engine is.                                           *)
(***************************************************************************)

\* The map of the records D.
MapOf(D, keys, vals) ==
    [k \in Keys |-> IF \E r \in D : keys[r] = k
                    THEN vals[CHOOSE r \in D : keys[r] = k] ELSE NULL]

LEMMA MapIs ==
    ASSUME NEW D, NEW keys, NEW vals, \A r, q \in D : keys[r] = keys[q] => r = q
    PROVE  /\ \A r \in D : keys[r] \in Keys => MapOf(D, keys, vals)[keys[r]] = vals[r]
           /\ \A k \in Keys : (\A r \in D : keys[r] # k) => MapOf(D, keys, vals)[k] = NULL
           /\ DOMAIN MapOf(D, keys, vals) = Keys
           /\ MapOf(D, keys, vals) = [k \in Keys |-> MapOf(D, keys, vals)[k]]
<1>1. ASSUME NEW r \in D, keys[r] \in Keys
      PROVE  MapOf(D, keys, vals)[keys[r]] = vals[r]
  <2>1. (CHOOSE q \in D : keys[q] = keys[r]) = r
    OBVIOUS
  <2> QED
    BY <1>1, <2>1 DEF MapOf
<1> QED
  BY <1>1 DEF MapOf

\* A map is the map of D if it has what D has and no more.
LEMMA MapFits ==
    ASSUME NEW D, NEW keys, NEW vals, \A r, q \in D : keys[r] = keys[q] => r = q,
           NEW f, f = [k \in Keys |-> f[k]],
           \A r \in D : keys[r] \in Keys /\ f[keys[r]] = vals[r],
           \A k \in Keys : (\A r \in D : keys[r] # k) => f[k] = NULL
    PROVE  MapOf(D, keys, vals) = f
<1> DEFINE g == MapOf(D, keys, vals)
<1>1. /\ \A r \in D : keys[r] \in Keys => g[keys[r]] = vals[r]
      /\ \A k \in Keys : (\A r \in D : keys[r] # k) => g[k] = NULL
      /\ g = [k \in Keys |-> g[k]]
  BY MapIs
<1> HIDE DEF g
<1>2. ASSUME NEW k \in Keys
      PROVE  g[k] = f[k]
  <2>1. CASE \A r \in D : keys[r] # k
    BY <1>1, <2>1
  <2>2. CASE ~ \A r \in D : keys[r] # k
    BY <1>1, <2>2
  <2> QED
    BY <2>1, <2>2
<1>3. g = f
  BY <1>1, <1>2
<1> QED
  BY <1>3 DEF g

\* The records that a walk back from s[m] has yet to come to.
LEMMA AheadAre ==
    ASSUME NEW s, NEW n, NEW D, NEW head, NEW fwd, NEW back,
           Chained(s, n, D, head, fwd, back), NEW m \in 1 .. n
    PROVE  ToSet(Tail(Follow(s[m], back))) = {s[i] : i \in 1 .. m - 1}
<1> DEFINE t == Backward(s, m)
<1>1. n \in Nat /\ m \in Nat \ {0} /\ s \in [1 .. n -> Recs] /\ m <= n
  BY DEF Chained, Ordered
<1>2. Follow(s[m], back) = t
  <2>1. At(s, n, m) = s[m] /\ m \in 0 .. n
    BY <1>1 DEF At
  <2> QED
    BY <2>1, FollowBack
<1>3. /\ t \in [1 .. m -> Recs]
      /\ \A i \in 1 .. m : t[i] = s[m + 1 - i] /\ m + 1 - i \in 1 .. n
  <2>1. \A i \in 1 .. m : m + 1 - i \in 1 .. n
    BY <1>1
  <2> QED
    BY <1>1, <2>1 DEF Backward
<1>4. t \in Seq(Recs) /\ Len(t) = m /\ t # <<>>
  <2>1. t \in Seq(Recs) /\ Len(t) = m
    BY <1>1, <1>3, SeqDef, LenProperties
  <2> QED
    BY <1>1, <2>1
<1> HIDE DEF t
<1>5. /\ DOMAIN Tail(t) = 1 .. m - 1
      /\ \A i \in 1 .. m - 1 : Tail(t)[i] = t[i + 1]
  <2>1. Tail(t) \in Seq(Recs) /\ Len(Tail(t)) = m - 1
        /\ \A i \in 1 .. m - 1 : Tail(t)[i] = t[i + 1]
    BY <1>4, HeadTailProperties
  <2> QED
    BY <2>1, LenProperties
<1>6. \A i \in 1 .. m - 1 : Tail(t)[i] = s[m - i] /\ m - i \in 1 .. m - 1
  <2> TAKE i \in 1 .. m - 1
  <2>1. i + 1 \in 1 .. m /\ m + 1 - (i + 1) = m - i /\ m - i \in 1 .. m - 1
    BY <1>1
  <2> QED
    BY <1>3, <1>5, <2>1
<1>7. \A i \in 1 .. m - 1 : m - i \in 1 .. m - 1 /\ m - (m - i) = i
  BY <1>1
<1>8. ToSet(Tail(t)) = {s[i] : i \in 1 .. m - 1}
  <2>1. ASSUME NEW i \in 1 .. m - 1
        PROVE  Tail(t)[i] \in {s[j] : j \in 1 .. m - 1}
    BY <1>6
  <2>2. ASSUME NEW i \in 1 .. m - 1
        PROVE  \E j \in 1 .. m - 1 : Tail(t)[j] = s[i]
    BY <1>6, <1>7
  <2> QED
    BY <1>5, <2>1, <2>2 DEF ToSet
<1> QED
  BY <1>2, <1>8

\* q is nearer to the end that new records are pushed to.
Before(s, n, q, p) == \E i, j \in 1 .. n : i < j /\ s[i] = q /\ s[j] = p

LEMMA BeforeAre ==
    ASSUME NEW s, NEW n, NEW D, NEW head, NEW fwd, NEW back,
           Chained(s, n, D, head, fwd, back), NEW p \in D
    PROVE  ToSet(Tail(Follow(p, back))) = {q \in D : Before(s, n, q, p)}
<1>1. /\ n \in Nat /\ D = {s[i] : i \in 1 .. n}
      /\ \A i, j \in 1 .. n : s[i] = s[j] => i = j
  BY DEF Chained, Ordered
<1>2. PICK m \in 1 .. n : s[m] = p
  BY <1>1
<1>3. \A i : i \in 1 .. m - 1 <=> i \in 1 .. n /\ i < m
  BY <1>1
<1>4. {q \in D : Before(s, n, q, p)} = {s[i] : i \in 1 .. m - 1}
  BY <1>1, <1>2, <1>3 DEF Before
<1>5. ToSet(Tail(Follow(s[m], back))) = {s[i] : i \in 1 .. m - 1}
  BY AheadAre
<1> QED
  BY <1>2, <1>4, <1>5

LEMMA BeforePushed ==
    ASSUME NEW s, NEW n, NEW D, Ordered(s, n, D), NEW r, r \notin D, NEW p \in D, NEW q
    PROVE  Before(Pushed(s, n, r), n + 1, q, p) <=> q = r \/ Before(s, n, q, p)
<1> DEFINE t == Pushed(s, n, r)
<1>1. /\ n \in Nat /\ D = {s[i] : i \in 1 .. n}
      /\ t[1] = r /\ \A i \in 1 .. n : t[i + 1] = s[i] /\ i + 1 \in 1 .. n + 1
      /\ \A i \in 2 .. n + 1 : t[i] = s[i - 1] /\ i - 1 \in 1 .. n
      /\ 1 \in 1 .. n + 1 /\ \A i \in 1 .. n + 1 : i = 1 \/ i \in 2 .. n + 1
  <2>1. n \in Nat /\ D = {s[i] : i \in 1 .. n}
    BY DEF Ordered
  <2>2. /\ \A i \in 1 .. n : i + 1 \in 1 .. n + 1 /\ i + 1 # 1 /\ i + 1 - 1 = i
        /\ \A i \in 2 .. n + 1 : i \in 1 .. n + 1 /\ i # 1 /\ i - 1 \in 1 .. n
        /\ 1 \in 1 .. n + 1 /\ \A i \in 1 .. n + 1 : i = 1 \/ i \in 2 .. n + 1
    BY <2>1
  <2> QED
    BY <2>1, <2>2 DEF Pushed
<1> HIDE DEF t
<1>2. ASSUME Before(t, n + 1, q, p)
      PROVE  q = r \/ Before(s, n, q, p)
  <2>1. PICK i, j \in 1 .. n + 1 : i < j /\ t[i] = q /\ t[j] = p
    BY <1>2 DEF Before
  <2>2. j \in 2 .. n + 1 /\ (i = 1 \/ i \in 2 .. n + 1)
    BY <1>1, <2>1
  <2>3. CASE i = 1
    BY <1>1, <2>1, <2>3
  <2>4. CASE i \in 2 .. n + 1
    <3>1. i - 1 < j - 1
      BY <2>1, <2>2, <2>4
    <3> QED
      BY <1>1, <2>1, <2>2, <2>4, <3>1 DEF Before
  <2> QED
    BY <2>2, <2>3, <2>4
<1>3. ASSUME q = r \/ Before(s, n, q, p)
      PROVE  Before(t, n + 1, q, p)
  <2>1. CASE q = r
    <3>1. PICK j \in 1 .. n : s[j] = p
      BY <1>1
    <3>2. t[j + 1] = p /\ j + 1 \in 1 .. n + 1 /\ 1 < j + 1
      BY <1>1, <3>1
    <3> QED
      BY <1>1, <2>1, <3>2 DEF Before
  <2>2. CASE Before(s, n, q, p)
    <3>1. PICK i, j \in 1 .. n : i < j /\ s[i] = q /\ s[j] = p
      BY <2>2 DEF Before
    <3>2. i + 1 < j + 1
      BY <3>1
    <3> QED
      BY <1>1, <3>1, <3>2 DEF Before
  <2> QED
    BY <1>3, <2>1, <2>2
<1> QED
  BY <1>2, <1>3 DEF t

LEMMA BeforeDropped ==
    ASSUME NEW s, NEW n, NEW D, Ordered(s, n, D), NEW m \in 1 .. n,
           NEW p \in D \ {s[m]}, NEW q \in D \ {s[m]}
    PROVE  Before(Dropped(s, n, m), n - 1, q, p) <=> Before(s, n, q, p)
<1> DEFINE t == Dropped(s, n, m)
<1>1. /\ n \in Nat \ {0} /\ D = {s[i] : i \in 1 .. n} /\ m \in Nat
      /\ \A i \in 1 .. n - 1 : t[i] = IF i < m THEN s[i] ELSE s[i + 1]
  BY DEF Ordered, Dropped
<1> HIDE DEF t
\* Where the i-th of the remaining records was, and where the i-th goes to.
<1> DEFINE old(i) == IF i < m THEN i ELSE i + 1
           new(i) == IF i < m THEN i ELSE i - 1
<1>2. \A i \in 1 .. n - 1 : old(i) \in 1 .. n /\ t[i] = s[old(i)]
  BY <1>1
<1>3. \A i, j \in 1 .. n - 1 : i < j => old(i) < old(j)
  BY <1>1
<1>4. \A i \in 1 .. n : i # m => new(i) \in 1 .. n - 1 /\ t[new(i)] = s[i]
  <2> SUFFICES ASSUME NEW i \in 1 .. n, i # m
               PROVE  new(i) \in 1 .. n - 1 /\ t[new(i)] = s[i]
    OBVIOUS
  <2>1. CASE i < m
    <3>1. i \in 1 .. n - 1
      BY <1>1, <2>1
    <3> QED
      BY <1>1, <2>1, <3>1
  <2>2. CASE ~(i < m)
    <3>1. i - 1 \in 1 .. n - 1 /\ ~(i - 1 < m) /\ i - 1 + 1 = i
      BY <1>1, <2>2
    <3>2. t[i - 1] = s[i]
      BY <1>1, <3>1
    <3> QED
      BY <2>2, <3>1, <3>2
  <2> QED
    BY <2>1, <2>2
<1>5. \A i, j \in 1 .. n : i # m /\ j # m /\ i < j => new(i) < new(j)
  BY <1>1
<1> HIDE DEF old, new
<1>6. ASSUME Before(t, n - 1, q, p)
      PROVE  Before(s, n, q, p)
  <2>1. PICK i, j \in 1 .. n - 1 : i < j /\ t[i] = q /\ t[j] = p
    BY <1>6 DEF Before
  <2> QED
    BY <1>2, <1>3, <2>1 DEF Before
<1>7. ASSUME Before(s, n, q, p)
      PROVE  Before(t, n - 1, q, p)
  <2>1. PICK i, j \in 1 .. n : i < j /\ s[i] = q /\ s[j] = p
    BY <1>7 DEF Before
  <2>2. i # m /\ j # m
    BY <2>1
  <2> QED
    BY <1>4, <1>5, <2>1, <2>2 DEF Before
<1> QED
  BY <1>6, <1>7 DEF t

\* The keys of the records D that a cursor on p has yet to come to.
AheadOf(D, keys, back, p) ==
    IF p \in D THEN {keys[q] : q \in ToSet(Tail(Follow(p, back)))} ELSE {}

LEMMA AheadIs ==
    ASSUME NEW s, NEW n, NEW D, NEW head, NEW fwd, NEW back,
           Chained(s, n, D, head, fwd, back), NEW keys, NEW p
    PROVE  /\ p \notin D => AheadOf(D, keys, back, p) = {}
           /\ p \in D => \A k : k \in AheadOf(D, keys, back, p) <=>
                                \E q \in D : Before(s, n, q, p) /\ k = keys[q]
<1>1. CASE p \notin D
  BY <1>1 DEF AheadOf
<1>2. CASE p \in D
  <2>1. ToSet(Tail(Follow(p, back))) = {q \in D : Before(s, n, q, p)}
    BY <1>2, BeforeAre
  <2>2. AheadOf(D, keys, back, p) = {keys[q] : q \in {q \in D : Before(s, n, q, p)}}
    BY <1>2, <2>1 DEF AheadOf
  <2> QED
    BY <1>2, <2>2
<1> QED
  BY <1>1, <1>2

\* What the invariant says of the table's view of a state.
LEMMA View ==
    ASSUME IInv
    PROVE  /\ \A r \in Live : r \in Recs /\ r # NULL /\ pKey[r] \in Keys
                              /\ pData[r] \in Vals /\ pKey[r] \notin {NULL, Dangling}
           /\ Contents = [k \in Keys |-> Contents[k]]
           /\ \A r \in Live : Contents[pKey[r]] = pData[r]
           /\ \A k \in Keys : (\A r \in Live : pKey[r] # k) => Contents[k] = NULL
           /\ Chained(List, nRecord, Live, pLast, pNext, pPrev)
           /\ \A p : KeyAt(p) \notin {NULL, Dangling} <=> p \in Live
           /\ \A p \in Live : KeyAt(p) = pKey[p]
           /\ NULL \notin Keys \cup Vals /\ Dangling \notin Keys /\ Dangling # NULL
<1>1. /\ NULL \notin Keys \cup Vals /\ Dangling \notin Keys /\ Dangling # NULL
      /\ NULL \notin Recs
  BY MemHashAssumption
<1>2. \A r \in Live : r \in Recs /\ r # NULL /\ pKey[r] \in Keys
                      /\ pData[r] \in Vals /\ pKey[r] \notin {NULL, Dangling}
  BY <1>1 DEF IInv, Types, Live
<1>3. Contents = MapOf(Live, pKey, pData)
  BY DEF Contents, MapOf
<1>4. \A r, q \in Live : pKey[r] = pKey[q] => r = q
  BY DEF IInv, OneEach
<1>5. /\ Contents = [k \in Keys |-> Contents[k]]
      /\ \A r \in Live : Contents[pKey[r]] = pData[r]
      /\ \A k \in Keys : (\A r \in Live : pKey[r] # k) => Contents[k] = NULL
  BY <1>2, <1>3, <1>4, MapIs
<1>6. \A p : KeyAt(p) \notin {NULL, Dangling} <=> p \in Live
  BY <1>2 DEF KeyAt
<1>7. \A p \in Live : KeyAt(p) = pKey[p]
  BY <1>2 DEF KeyAt
<1>8. Chained(List, nRecord, Live, pLast, pNext, pPrev)
  BY DEF IInv, Listed
<1> QED
  BY <1>1, <1>2, <1>5, <1>6, <1>7, <1>8

LEMMA InsertIsStore ==
    ASSUME IInv, NEW r \in Recs, NEW k \in Keys, NEW v \in Vals, NEW memory,
           GetEntry(k) = NULL, Insert(r, k, v, memory), UNCHANGED pCur
    PROVE  Tbl!Store(k, v)
<1>1. /\ IInv' /\ r \notin Live /\ \A c \in Cursors : pCur[c] # r
      /\ Live' = Live \cup {r} /\ List' = Pushed(List, nRecord, r)
  BY InsertKeeps
<1>2. /\ pKey' = [pKey EXCEPT ![r] = k] /\ pData' = [pData EXCEPT ![r] = v]
      /\ nRecord' = nRecord + 1 /\ pCur' = pCur
  BY DEF Insert, PushRecord
<1>3. /\ \A q \in Live : q \in Recs /\ q # NULL /\ pKey[q] \in Keys
      /\ Contents = [j \in Keys |-> Contents[j]]
      /\ \A q \in Live : Contents[pKey[q]] = pData[q]
      /\ \A j \in Keys : (\A q \in Live : pKey[q] # j) => Contents[j] = NULL
      /\ Chained(List, nRecord, Live, pLast, pNext, pPrev)
      /\ \A p : KeyAt(p) \notin {NULL, Dangling} <=> p \in Live
  BY View
<1>4. \A q \in Live : pKey[q] # k
  BY <1>3, EntryIs
<1>5. Contents[k] = NULL
  BY <1>3, <1>4
<1>6. /\ pKey'[r] = k /\ pData'[r] = v
      /\ \A q \in Live : pKey'[q] = pKey[q] /\ pData'[q] = pData[q]
  BY <1>1, <1>2 DEF IInv, Types
<1>7. Contents' = [Contents EXCEPT ![k] = v]
  <2> DEFINE f == [Contents EXCEPT ![k] = v]
  <2>1. f[k] = v /\ \A j \in Keys : j # k => f[j] = Contents[j]
    BY <1>3
  <2>2. f = [j \in Keys |-> f[j]]
    BY <1>3
  <2> HIDE DEF f
  <2>3. \A q, p \in Live' : pKey'[q] = pKey'[p] => q = p
    BY <1>1 DEF IInv, OneEach
  <2>4. \A q \in Live' : pKey'[q] \in Keys /\ f[pKey'[q]] = pData'[q]
    BY <1>1, <1>3, <1>4, <1>6, <2>1
  <2>5. \A j \in Keys : (\A q \in Live' : pKey'[q] # j) => f[j] = NULL
    BY <1>1, <1>3, <1>6, <2>1
  <2>6. MapOf(Live', pKey', pData') = f
    BY <2>2, <2>3, <2>4, <2>5, MapFits
  <2>7. Contents' = MapOf(Live', pKey', pData')
    BY DEF Contents, MapOf
  <2> QED
    BY <2>6, <2>7 DEF f
<1>8. ASSUME NEW c \in Cursors
      PROVE  KeyAt(pCur[c])' = KeyAt(pCur[c])
  BY <1>1, <1>2, <1>6 DEF KeyAt
<1>9. ASSUME NEW c \in Cursors
      PROVE  Ahead(pCur[c])' = IF pCur[c] \in Live THEN Ahead(pCur[c]) \cup {k}
                                                   ELSE Ahead(pCur[c])
  <2> DEFINE p == pCur[c]
             new == AheadOf(Live', pKey', pPrev', p)
             old == AheadOf(Live, pKey, pPrev, p)
  <2>1. Ahead(pCur[c])' = new /\ Ahead(pCur[c]) = old
    BY <1>2 DEF Ahead, AheadOf
  <2>2. Chained(List', nRecord', Live', pLast', pNext', pPrev')
    BY <1>1 DEF IInv, Listed
  <2>3. /\ p \notin Live' => new = {}
        /\ p \in Live' => \A j : j \in new <=>
                            \E q \in Live' : Before(List', nRecord', q, p) /\ j = pKey'[q]
    BY <2>2, AheadIs
  <2>4. /\ p \notin Live => old = {}
        /\ p \in Live => \A j : j \in old <=>
                            \E q \in Live : Before(List, nRecord, q, p) /\ j = pKey[q]
    BY <1>3, AheadIs
  <2> HIDE DEF new, old
  <2>5. CASE p \notin Live
    BY <1>1, <2>1, <2>3, <2>4, <2>5
  <2>6. CASE p \in Live
    <3>1. Ordered(List, nRecord, Live)
      BY <1>3 DEF Chained
    <3>2. \A q : Before(List', nRecord', q, p) <=> q = r \/ Before(List, nRecord, q, p)
      BY <1>1, <1>2, <2>6, <3>1, BeforePushed
    <3>3. ~ Before(List, nRecord, r, p)
      BY <1>1, <3>1 DEF Before, Ordered
    <3>4. \A j : j \in new <=> j = k \/ j \in old
      BY <1>1, <1>6, <2>3, <2>4, <2>6, <3>2, <3>3
    <3>5. new = old \cup {k}
      BY <3>4
    <3> QED
      BY <2>1, <2>6, <3>5
  <2> QED
    BY <2>5, <2>6
<1> QED
  BY <1>3, <1>5, <1>7, <1>8, <1>9 DEF Tbl!Store

LEMMA OverwriteIsStore ==
    ASSUME IInv, NEW k \in Keys, NEW v \in Vals, NEW r \in Live, pKey[r] = k,
           Overwrite(r, v), UNCHANGED pCur
    PROVE  Tbl!Store(k, v)
<1>1. IInv' /\ Live' = Live
  BY OverwriteKeeps
<1>2. pKey' = pKey /\ pData' = [pData EXCEPT ![r] = v] /\ pPrev' = pPrev /\ pCur' = pCur
  BY DEF Overwrite
<1>3. /\ \A q \in Live : pKey[q] \in Keys /\ pData[q] \in Vals
      /\ Contents = [j \in Keys |-> Contents[j]]
      /\ \A q \in Live : Contents[pKey[q]] = pData[q]
      /\ \A j \in Keys : (\A q \in Live : pKey[q] # j) => Contents[j] = NULL
      /\ NULL \notin Keys \cup Vals
  BY View
<1>4. Contents[k] # NULL
  BY <1>3
<1>5. pData'[r] = v /\ \A q \in Live : q # r => pData'[q] = pData[q] /\ pKey[q] # k
  BY <1>2 DEF IInv, Types, Live, OneEach
<1>6. Contents' = [Contents EXCEPT ![k] = v]
  <2> DEFINE f == [Contents EXCEPT ![k] = v]
  <2>1. f[k] = v /\ \A j \in Keys : j # k => f[j] = Contents[j]
    BY <1>3
  <2>2. f = [j \in Keys |-> f[j]]
    BY <1>3
  <2> HIDE DEF f
  <2>3. \A q, p \in Live : pKey[q] = pKey[p] => q = p
    BY DEF IInv, OneEach
  <2>4. \A q \in Live : pKey[q] \in Keys /\ f[pKey[q]] = pData'[q]
    BY <1>3, <1>5, <2>1
  <2>5. \A j \in Keys : (\A q \in Live : pKey[q] # j) => f[j] = NULL
    BY <1>3, <2>1
  <2>6. MapOf(Live, pKey, pData') = f
    BY <2>2, <2>3, <2>4, <2>5, MapFits
  <2>7. Contents' = MapOf(Live', pKey', pData')
    BY DEF Contents, MapOf
  <2> QED
    BY <1>1, <1>2, <2>6, <2>7 DEF f
<1>7. \A c \in Cursors : KeyAt(pCur[c])' = KeyAt(pCur[c])
  BY <1>1, <1>2 DEF KeyAt
<1>8. \A c \in Cursors : Ahead(pCur[c])' = Ahead(pCur[c])
  BY <1>1, <1>2 DEF Ahead, Follow
<1> QED
  BY <1>4, <1>6, <1>7, <1>8 DEF Tbl!Store

LEMMA UnlinkIsDelete ==
    ASSUME IInv, NEW k \in Keys, NEW r \in Live, pKey[r] = k,
           UnlinkRecord(r), UNCHANGED pCur
    PROVE  Tbl!Delete(k)
<1>1. /\ IInv' /\ Live' = Live \ {r}
      /\ \E m \in 1 .. nRecord : List[m] = r /\ List' = Dropped(List, nRecord, m)
  BY UnlinkKeeps
<1>2. /\ pKey' = [pKey EXCEPT ![r] = NULL] /\ pData' = [pData EXCEPT ![r] = NULL]
      /\ nRecord' = nRecord - 1 /\ pCur' = pCur
  BY DEF UnlinkRecord, Free
<1>3. /\ \A q \in Live : q \in Recs /\ q # NULL /\ pKey[q] \in Keys /\ pData[q] \in Vals
                         /\ KeyAt(q) = pKey[q]
      /\ Contents = [j \in Keys |-> Contents[j]]
      /\ \A q \in Live : Contents[pKey[q]] = pData[q]
      /\ \A j \in Keys : (\A q \in Live : pKey[q] # j) => Contents[j] = NULL
      /\ Chained(List, nRecord, Live, pLast, pNext, pPrev)
      /\ NULL \notin Keys \cup Vals /\ Dangling \notin Keys
  BY View
<1>4. Contents[k] # NULL
  BY <1>3
<1>5. /\ \A q \in Live : q # r => pKey'[q] = pKey[q] /\ pData'[q] = pData[q] /\ pKey[q] # k
      /\ pKey'[r] = NULL
  BY <1>2, <1>3 DEF IInv, Types, OneEach
<1>6. Contents' = [Contents EXCEPT ![k] = NULL]
  <2> DEFINE f == [Contents EXCEPT ![k] = NULL]
  <2>1. f[k] = NULL /\ \A j \in Keys : j # k => f[j] = Contents[j]
    BY <1>3
  <2>2. f = [j \in Keys |-> f[j]]
    BY <1>3
  <2> HIDE DEF f
  <2>3. \A q, p \in Live' : pKey'[q] = pKey'[p] => q = p
    BY <1>1 DEF IInv, OneEach
  <2>4. \A q \in Live' : pKey'[q] \in Keys /\ f[pKey'[q]] = pData'[q]
    BY <1>1, <1>3, <1>5, <2>1
  <2>5. \A j \in Keys : (\A q \in Live' : pKey'[q] # j) => f[j] = NULL
    BY <1>1, <1>3, <1>5, <2>1
  <2>6. MapOf(Live', pKey', pData') = f
    BY <2>2, <2>3, <2>4, <2>5, MapFits
  <2>7. Contents' = MapOf(Live', pKey', pData')
    BY DEF Contents, MapOf
  <2> QED
    BY <2>6, <2>7 DEF f
<1>7. \A c \in Cursors : KeyAt(pCur[c]) = k <=> pCur[c] = r
  <2> TAKE c \in Cursors
  <2>1. CASE pCur[c] \in Live
    BY <1>3, <1>5, <2>1
  <2>2. CASE pCur[c] \notin Live
    BY <1>3, <2>2 DEF KeyAt
  <2> QED
    BY <2>1, <2>2
<1>8. ASSUME NEW c \in Cursors
      PROVE  KeyAt(pCur[c])' = IF KeyAt(pCur[c]) = k THEN Dangling ELSE KeyAt(pCur[c])
  <2>1. KeyAt(pCur[c])' = IF pCur[c] = NULL THEN NULL
                          ELSE IF pCur[c] \in Live' THEN pKey'[pCur[c]] ELSE Dangling
    BY <1>2 DEF KeyAt
  <2>2. CASE pCur[c] = r
    BY <1>1, <1>3, <1>7, <2>1, <2>2
  <2>3. CASE pCur[c] # r
    BY <1>1, <1>3, <1>5, <1>7, <2>1, <2>3 DEF KeyAt
  <2> QED
    BY <2>2, <2>3
<1>9. ASSUME NEW c \in Cursors
      PROVE  Ahead(pCur[c])' = IF KeyAt(pCur[c]) = k THEN {} ELSE Ahead(pCur[c]) \ {k}
  <2> DEFINE p == pCur[c]
             new == AheadOf(Live', pKey', pPrev', p)
             old == AheadOf(Live, pKey, pPrev, p)
  <2>1. Ahead(pCur[c])' = new /\ Ahead(pCur[c]) = old
    BY <1>2 DEF Ahead, AheadOf
  <2>2. Chained(List', nRecord', Live', pLast', pNext', pPrev')
    BY <1>1 DEF IInv, Listed
  <2>3. /\ p \notin Live' => new = {}
        /\ p \in Live' => \A j : j \in new <=>
                            \E q \in Live' : Before(List', nRecord', q, p) /\ j = pKey'[q]
    BY <2>2, AheadIs
  <2>4. /\ p \notin Live => old = {}
        /\ p \in Live => \A j : j \in old <=>
                            \E q \in Live : Before(List, nRecord, q, p) /\ j = pKey[q]
    BY <1>3, AheadIs
  <2>5. KeyAt(p) = k <=> p = r
    BY <1>7
  <2> HIDE DEF new, old
  <2>6. CASE p \notin Live \ {r}
    BY <1>1, <2>1, <2>3, <2>4, <2>5, <2>6
  <2>7. CASE p \in Live \ {r}
    <3>1. Ordered(List, nRecord, Live)
      BY <1>3 DEF Chained
    <3>2. PICK m \in 1 .. nRecord : List[m] = r /\ List' = Dropped(List, nRecord, m)
      BY <1>1
    <3>3. \A q \in Live \ {r} : Before(List', nRecord', q, p) <=> Before(List, nRecord, q, p)
      BY <1>2, <2>7, <3>1, <3>2, BeforeDropped
    <3>4. \A j : j \in new <=> j # k /\ j \in old
      BY <1>1, <1>5, <2>3, <2>4, <2>7, <3>3
    <3>5. new = old \ {k}
      BY <3>4
    <3> QED
      BY <2>1, <2>5, <2>7, <3>5
  <2> QED
    BY <2>6, <2>7
<1> QED
  BY <1>4, <1>6, <1>8, <1>9 DEF Tbl!Delete

LEMMA ContentsStay ==
    ASSUME UNCHANGED engine
    PROVE  UNCHANGED Contents
<1>1. UNCHANGED <<pKey, pData>>
  BY DEF engine, records
<1>2. Live' = Live
  BY <1>1 DEF Live
<1> QED
  BY <1>1, <1>2 DEF Contents

\* A cursor that goes to the m-th record from the end that new records are
\* pushed to, NULL if m is 0, leaves all that are nearer to it for later.
LEMMA MoveIsMove ==
    ASSUME IInv, UNCHANGED engine, NEW c \in Cursors, NEW m \in 0 .. nRecord,
           pCur' = [pCur EXCEPT ![c] = At(List, nRecord, m)],
           NEW rest, \A k : k \in rest <=> \E i \in 1 .. m : k = pKey[List[i]]
    PROVE  Tbl!MoveTo(c, rest)
<1> DEFINE s == List
           n == nRecord
           to == At(s, n, m)
           kc == [d \in Cursors |-> KeyAt(pCur[d])]
           td == [d \in Cursors |-> Ahead(pCur[d])]
<1>1. /\ UNCHANGED <<pKey, pData, pPrev>> /\ Live' = Live
      /\ pCur \in [Cursors -> Pointer]
  BY DEF engine, records, Live, IInv, Types
<1>2. /\ \A q \in Live : q \in Recs /\ q # NULL /\ pKey[q] \in Keys /\ KeyAt(q) = pKey[q]
      /\ Chained(s, n, Live, pLast, pNext, pPrev)
  BY View
<1>3. /\ n \in Nat /\ Live = {s[i] : i \in 1 .. n} /\ m \in Nat /\ m <= n
      /\ \A i, j \in 1 .. n : s[i] = s[j] => i = j
  BY <1>2 DEF Chained, Ordered
<1>4. \A d \in Cursors : d # c => pCur'[d] = pCur[d]
  BY <1>1
<1>5. pCur'[c] = to
  BY <1>1
<1>6. \A d \in Cursors : KeyAt(pCur[d])' = IF d = c THEN KeyAt(to) ELSE KeyAt(pCur[d])
  <2> HIDE DEF to
  <2> QED
    BY <1>1, <1>4, <1>5 DEF KeyAt
<1>7. \A d \in Cursors : Ahead(pCur[d])' = IF d = c THEN Ahead(to) ELSE Ahead(pCur[d])
  <2> HIDE DEF to
  <2> QED
    BY <1>1, <1>4, <1>5 DEF Ahead
<1>8. /\ kc' = [kc EXCEPT ![c] = KeyAt(to)]
      /\ td' = [td EXCEPT ![c] = Ahead(to)]
  <2> HIDE DEF to
  <2> QED
    BY <1>6, <1>7
<1>9. CASE m = 0
  <2>1. to = NULL /\ rest = {}
    BY <1>9 DEF At
  <2>2. KeyAt(to) = NULL /\ Ahead(to) = {}
    BY <1>2, <2>1 DEF KeyAt, Ahead
  <2> QED
    BY <1>8, <2>1, <2>2 DEF Tbl!MoveTo
<1>10. CASE m # 0
  <2>1. m \in 1 .. n /\ to = s[m] /\ to \in Live
    BY <1>3, <1>10 DEF At
  <2>2. KeyAt(to) = pKey[to] /\ KeyAt(to) \in rest
    BY <1>2, <1>3, <2>1
  <2>3. Ahead(to) = rest \ {KeyAt(to)}
    <3>1. ToSet(Tail(Follow(to, pPrev))) = {s[i] : i \in 1 .. m - 1}
      BY <1>2, <2>1, AheadAre
    <3>2. Ahead(to) = {pKey[q] : q \in {s[i] : i \in 1 .. m - 1}}
      BY <2>1, <3>1 DEF Ahead
    <3>3. \A i : i \in 1 .. m - 1 <=> i \in 1 .. m /\ i # m
      BY <1>3
    <3>4. \A i \in 1 .. m : s[i] \in Live /\ (s[i] = to => i = m)
      BY <1>3, <2>1
    <3>5. \A q \in Live : pKey[q] = KeyAt(to) => q = to
      BY <2>1, <2>2 DEF IInv, OneEach
    <3> HIDE DEF s, n, to
    <3> QED
      BY <2>1, <2>2, <3>2, <3>3, <3>4, <3>5 DEF s
  <2> QED
    BY <1>8, <2>2, <2>3 DEF Tbl!MoveTo
<1> QED
  BY <1>9, <1>10

LEMMA CursorMoves ==
    ASSUME IInv, NEW c \in Cursors
    PROVE  /\ CursorFirst(c) => Tbl!First(c)
           /\ CursorNext(c) => Tbl!Advance(c)
<1>1. /\ \A q \in Live : pKey[q] \in Keys /\ pData[q] \in Vals
      /\ \A q \in Live : Contents[pKey[q]] = pData[q]
      /\ \A j \in Keys : (\A q \in Live : pKey[q] # j) => Contents[j] = NULL
      /\ Chained(List, nRecord, Live, pLast, pNext, pPrev)
      /\ \A p : KeyAt(p) \notin {NULL, Dangling} <=> p \in Live
      /\ NULL \notin Keys \cup Vals
  BY View
<1>2. /\ nRecord \in Nat /\ Live = {List[i] : i \in 1 .. nRecord}
      /\ \A i \in 1 .. nRecord : pPrev[List[i]] = At(List, nRecord, i - 1)
  BY <1>1 DEF Chained, Ordered
<1>3. ASSUME CursorFirst(c)
      PROVE  Tbl!First(c)
  <2>1. pFirst = At(List, nRecord, nRecord)
    BY DEF IInv, Listed
  <2>2. UNCHANGED engine /\ pCur' = [pCur EXCEPT ![c] = At(List, nRecord, nRecord)]
    BY <1>3, <2>1 DEF CursorFirst
  <2> DEFINE rest == {k \in Keys : Contents[k] # NULL}
  <2>3. \A k : k \in rest <=> \E i \in 1 .. nRecord : k = pKey[List[i]]
    <3>1. \A k : k \in rest <=> \E q \in Live : k = pKey[q]
      BY <1>1
    <3> QED
      BY <1>2, <3>1
  <2>4. nRecord \in 0 .. nRecord
    BY <1>2
  <2>5. PICK all : all = rest
    OBVIOUS
  <2>6. Tbl!MoveTo(c, all) /\ UNCHANGED Contents
    <3>1. PICK j \in 0 .. nRecord : j = nRecord
      BY <2>4
    <3>2. pCur' = [pCur EXCEPT ![c] = At(List, nRecord, j)]
      BY <2>2, <3>1
    <3>3. \A k : k \in all <=> \E i \in 1 .. j : k = pKey[List[i]]
      BY <2>3, <2>5, <3>1
    <3>4. IInv /\ UNCHANGED engine
      BY <2>2
    <3>5. Tbl!MoveTo(c, all)
      BY <3>2, <3>3, <3>4, MoveIsMove, ZenonT(30)
    <3> QED
      BY <3>4, <3>5, ContentsStay
  <2> QED
    BY <2>5, <2>6 DEF Tbl!First, Tbl!Present, Tbl!MoveTo
<1>4. ASSUME CursorNext(c)
      PROVE  Tbl!Advance(c)
  <2> DEFINE p == pCur[c]
  <2>1. p \in Live /\ UNCHANGED engine /\ pCur' = [pCur EXCEPT ![c] = pPrev[p]]
    BY <1>4 DEF CursorNext
  <2>2. PICK m \in 1 .. nRecord : List[m] = p
    BY <1>2, <2>1
  <2>3. pPrev[p] = At(List, nRecord, m - 1) /\ m - 1 \in 0 .. nRecord
    BY <1>2, <2>2
  <2>4. \A k : k \in Ahead(p) <=> \E i \in 1 .. m - 1 : k = pKey[List[i]]
    <3>1. ToSet(Tail(Follow(p, pPrev))) = {List[i] : i \in 1 .. m - 1}
      BY <1>1, <2>2, AheadAre
    <3>2. Ahead(p) = {pKey[q] : q \in {List[i] : i \in 1 .. m - 1}}
      BY <2>1, <3>1 DEF Ahead
    <3> QED
      BY <3>2
  <2>5. PICK rest : rest = Ahead(p)
    OBVIOUS
  <2>6. Tbl!MoveTo(c, rest) /\ UNCHANGED Contents
    <3>1. PICK j \in 0 .. nRecord : j = m - 1
      BY <2>3
    <3>2. pCur' = [pCur EXCEPT ![c] = At(List, nRecord, j)]
      BY <2>1, <2>3, <3>1
    <3>3. \A k : k \in rest <=> \E i \in 1 .. j : k = pKey[List[i]]
      BY <2>4, <2>5, <3>1
    <3>4. IInv /\ UNCHANGED engine
      BY <2>1
    <3>5. Tbl!MoveTo(c, rest)
      BY <3>2, <3>3, <3>4, MoveIsMove, ZenonT(30)
    <3> QED
      BY <3>4, <3>5, ContentsStay
  <2>7. KeyAt(p) \notin {NULL, Dangling}
    BY <1>1, <2>1
  <2> QED
    BY <2>5, <2>6, <2>7 DEF Tbl!Advance, Tbl!MoveTo
<1> QED
  BY <1>3, <1>4

\* The engine implements the table of the plugin: each call does to the map,
\* to the cursors and to what they have yet to visit what Table says, for any
\* hash function, any collisions and any doublings of the buckets, and a
\* cursor visits every record once (ht.h:14-25, unqlite.c:51844-52001).
THEOREM ImplementsTable == Spec => TableSpec
<1>1. Init => Tbl!Init
  <2> SUFFICES ASSUME Init
               PROVE  Tbl!Init
    OBVIOUS
  <2>1. Live = {}
    BY DEF Init, Nulls, Live
  <2>2. Contents = [k \in Keys |-> NULL]
    BY <2>1 DEF Contents
  <2>3. \A c \in Cursors : KeyAt(pCur[c]) = NULL /\ Ahead(pCur[c]) = {}
    BY <2>1 DEF Init, KeyAt, Ahead
  <2> QED
    BY <2>2, <2>3 DEF Tbl!Init
<1>2. IInv /\ [Next]_vars => [Tbl!Next]_(Tbl!vars)
  <2> SUFFICES ASSUME IInv, [Next]_vars
               PROVE  [Tbl!Next]_(Tbl!vars)
    OBVIOUS
  <2>1. ASSUME NEW k \in Keys, NEW v \in Vals, Store(k, v)
        PROVE  Tbl!Next
    <3>1. CASE /\ GetEntry(k) = NULL
               /\ \E r \in Recs, memory \in BOOLEAN : Insert(r, k, v, memory)
      <4>1. Tbl!Store(k, v)
        BY <2>1, <3>1, InsertIsStore DEF Store
      <4> QED
        BY <4>1 DEF Tbl!Next
    <3>2. CASE GetEntry(k) # NULL /\ Overwrite(GetEntry(k), v)
      <4>1. GetEntry(k) \in Live /\ pKey[GetEntry(k)] = k /\ pCur' = pCur
        BY <2>1, <3>2, EntryIs DEF Store
      <4>2. Tbl!Store(k, v)
        BY <3>2, <4>1, OverwriteIsStore
      <4> QED
        BY <4>2 DEF Tbl!Next
    <3> QED
      BY <2>1, <3>1, <3>2 DEF Store
  <2>2. ASSUME NEW k \in Keys, Delete(k)
        PROVE  Tbl!Next
    <3>1. /\ GetEntry(k) \in Live /\ pKey[GetEntry(k)] = k
          /\ UnlinkRecord(GetEntry(k)) /\ pCur' = pCur
      BY <2>2, EntryIs DEF Delete
    <3>2. Tbl!Delete(k)
      BY <3>1, UnlinkIsDelete
    <3> QED
      BY <3>2 DEF Tbl!Next
  <2>3. ASSUME NEW c \in Cursors, CursorFirst(c) \/ CursorNext(c)
        PROVE  Tbl!Next
    <3>1. Tbl!First(c) \/ Tbl!Advance(c)
      BY <2>3, CursorMoves
    <3> QED
      BY <3>1 DEF Tbl!Next
  <2>4. CASE UNCHANGED vars
    <3>1. UNCHANGED <<pKey, pData, pPrev, pCur>>
      BY <2>4 DEF vars, engine, records
    <3>2. Live' = Live
      BY <3>1 DEF Live
    <3>3. Contents' = Contents
      BY <3>1, <3>2 DEF Contents
    <3>4. \A c \in Cursors : KeyAt(pCur[c])' = KeyAt(pCur[c])
      BY <3>1, <3>2 DEF KeyAt
    <3>5. \A c \in Cursors : Ahead(pCur[c])' = Ahead(pCur[c])
      BY <3>1, <3>2 DEF Ahead, Follow
    <3> QED
      BY <3>3, <3>4, <3>5 DEF Tbl!vars
  <2> QED
    BY <2>1, <2>2, <2>3, <2>4 DEF Next
<1> QED
  BY <1>1, <1>2, Invariant, PTL DEF Spec, TableSpec, Tbl!Spec
=============================================================================
