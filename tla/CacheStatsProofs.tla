-------------------------- MODULE CacheStatsProofs --------------------------
(* Theorems about CacheStats, for any finite set of workers, any number of   *)
(* requests and any length of a second.                                      *)
EXTENDS CacheStats, FiniteSetTheorems, TLAPS

(***************************************************************************)
(* The inductive invariant.                                                *)
(***************************************************************************)

\* The workers that have given the lock back.
Settled == {w \in Workers : pc[w] \notin {"new", "claim", "unlock"}}

\* wid counts them, so that it is below thread_num whenever a worker is yet
\* to come; who is in the critical section holds the lock; and the records
\* below wid are theirs, one each.
StartInv ==
    /\ wid = Cardinality(Settled)
    /\ \A w \in Workers : pc[w] # "abort"
    /\ \A w \in Workers : pc[w] \in {"claim", "unlock"} => mutex = w
    /\ \A w \in Workers : pc[w] \in {"new", "claim"} => slot[w] = NULL
    /\ \A w \in Workers : pc[w] = "unlock" => slot[w] = wid /\ wid < thread_num
    /\ \A w \in Settled : slot[w] \in 0 .. wid - 1
    /\ \A v, w \in Settled : v # w => slot[v] # slot[w]

\* The count that a request has read is still there, unless a tick cleared it,
\* which is remembered; a record that nobody has yet is untouched.
CountInv ==
    /\ \A w \in Workers : pc[w] = "count" /\ ~raced[slot[w]] =>
                            tmp[w] = reqs_served[slot[w]]
    /\ \A r \in Records : r >= wid => reqs_served[r] = 0
    /\ CountExact

\* The time that a rate is over.
RateInv == \A w \in Workers : pc[w] \in {"restart", "read", "rate"} => ms[w] # 0

IInv == TypeOK /\ StartInv /\ CountInv /\ RateInv

USE DEF startup, records, timer, diff, locals, ghosts, Goto

(***************************************************************************)
(* Start: a record for each worker.                                        *)
(***************************************************************************)

LEMMA ThreadNum == thread_num \in Nat /\ IsFiniteSet(Settled)
<1>1. Settled \in SUBSET Workers
  BY DEF Settled
<1> QED
  BY <1>1, StatsAssumption, FS_CardinalityType, FS_Subset DEF thread_num

\* While a worker is yet to come there is a record left.
LEMMA RecordLeft ==
    ASSUME StartInv, NEW w \in Workers, w \notin Settled
    PROVE  wid \in Nat /\ wid < thread_num
<1>1. Settled \in SUBSET Workers /\ Settled # Workers
  BY DEF Settled
<1>2. Cardinality(Settled) \in Nat /\ Cardinality(Workers) \in Nat
  BY ThreadNum, StatsAssumption, FS_CardinalityType
<1>3. Cardinality(Settled) <= Cardinality(Workers)
  BY <1>1, StatsAssumption, FS_Subset
<1>4. Cardinality(Settled) # Cardinality(Workers)
  BY <1>1, StatsAssumption, FS_Subset
<1> QED
  BY <1>2, <1>3, <1>4 DEF StartInv, thread_num

\* A step that gives out no record and settles nobody.
LEMMA StartKept ==
    ASSUME IInv, TypeOK', UNCHANGED <<wid, mutex, slot>>,
           NEW w \in Workers, NEW l, pc' = [pc EXCEPT ![w] = l],
           w \in Settled, l \notin {"new", "claim", "unlock", "abort"}
    PROVE  StartInv'
<1>1. Settled' = Settled
  BY DEF Settled, IInv, TypeOK
<1>2. \A v \in Workers : v # w => pc'[v] = pc[v]
  BY DEF IInv, TypeOK
<1>3. pc'[w] = l
  BY DEF IInv, TypeOK
<1> QED
  BY <1>1, <1>2, <1>3 DEF IInv, StartInv, thread_num

(***************************************************************************)
(* Types.                                                                  *)
(***************************************************************************)

LEMMA RecordsFacts ==
    /\ thread_num \in Nat
    /\ \A r \in Records : r \in Nat /\ r < thread_num /\ 0 \in Records
    /\ \A r \in Records : r + 1 < thread_num => r + 1 \in Records
    /\ NULL \notin Records
  BY ThreadNum, StatsAssumption DEF Records

\* A rate is a natural number: it is not computed before a second has passed.
LEMMA RateIsNat ==
    ASSUME NEW count \in Nat, NEW length \in Nat \cup {NULL}, length # 0
    PROVE  Rates(count, length) \subseteq Nat
<1>1. CASE length = NULL
  BY <1>1 DEF Rates
<1>2. CASE length # NULL
  <2> DEFINE n == count * Second
  <2>1. n \in Nat
    BY StatsAssumption
  <2>2. length \in Nat /\ length > 0
    BY <1>2
  <2> HIDE DEF n
  <2>3. n \div length \in Nat
    BY <2>1, <2>2
  <2> QED
    BY <1>2, <2>3 DEF Rates, n
<1> QED
  BY <1>1, <1>2

LEMMA StartTypes ==
    ASSUME IInv, NEW w \in Workers, Start(w)
    PROVE  TypeOK'
<1> USE RecordsFacts DEF IInv, TypeOK, StartLabels
<1>1. CASE Lock(w)
  BY <1>1 DEF Lock
<1>2. CASE Claim(w)
  <2>1. w \notin Settled
    BY <1>2 DEF Claim, Settled
  <2>2. wid \in Records
    BY <2>1, RecordLeft DEF Records
  <2>3. 0 \in 0 .. MaxAge
    BY StatsAssumption
  <2>4. wid < thread_num
    BY <2>1, RecordLeft
  <2> QED
    BY <1>2, <2>2, <2>3, <2>4 DEF Claim
<1>3. CASE Unlock(w)
  <2>1. wid \in Nat /\ wid < thread_num /\ slot[w] = wid
    BY <1>3 DEF Unlock, StartInv
  <2>2. wid + 1 \in 0 .. thread_num
    BY <2>1
  <2> QED
    BY <1>3, <2>2 DEF Unlock
<1>4. CASE AddTimer(w)
  <2>1. w \in Settled
    BY <1>4 DEF AddTimer, Settled
  <2>2. slot[w] # NULL
    BY <2>1, StatsAssumption DEF StartInv
  <2> QED
    BY <1>4, <2>2 DEF AddTimer
<1> QED
  BY <1>1, <1>2, <1>3, <1>4 DEF Start

LEMMA WorkTypes ==
    ASSUME IInv, NEW w \in Workers,
           ReqNew(w) \/ ReqCount(w) \/ TimerRead(w) \/ Tick(w)
    PROVE  TypeOK'
<1> USE RecordsFacts DEF IInv, TypeOK, StartLabels
<1>1. CASE ReqNew(w)
  BY <1>1 DEF ReqNew
<1>2. CASE ReqCount(w)
  BY <1>2 DEF ReqCount
<1>3. CASE TimerRead(w)
  BY <1>3 DEF TimerRead
<1>4. CASE Process(w)
  BY <1>4 DEF Process
<1>5. CASE Clear(w)
  BY <1>5 DEF Clear, Remember, Overlap
<1>6. CASE Restart(w) \/ Read(w)
  <2>1. 0 \in 0 .. MaxAge
    BY StatsAssumption
  <2> QED
    BY <1>6, <2>1 DEF Restart, Read
<1>7. CASE Rate(w)
  <2>1. Rates(tmp[w], ms[w]) \subseteq Nat
    <3>1. /\ tmp[w] \in Nat /\ ms[w] # 0
          /\ ms[w] \in 0 .. MaxAge \cup {NULL}
      BY <1>7 DEF Rate, RateInv
    <3>2. ms[w] \in Nat \cup {NULL}
      BY <3>1, StatsAssumption
    <3> QED
      BY <3>1, <3>2, RateIsNat
  <2>2. 0 \in 0 .. MaxAge
    BY StatsAssumption
  <2> QED
    BY <1>7, <2>1, <2>2 DEF Rate
<1>8. CASE Sum(w)
  <2>1. i[w] \in Records /\ sum[w] + reqs_per_sec[i[w]] \in Nat
    OBVIOUS
  <2>2. i' \in [Workers -> Records]
    BY <1>8, <2>1 DEF Sum
  <2>3. sum' \in [Workers -> Nat]
    BY <1>8, <2>1 DEF Sum
  <2> QED
    BY <1>8, <2>2, <2>3 DEF Sum
<1>9. CASE Publish(w)
  <2>1. i[w] \in Records /\ 0 \in Records
    OBVIOUS
  <2>2. w \in Settled
    BY <1>9 DEF Publish, Settled
  <2>3. slot[w] # NULL
    BY <2>2, StatsAssumption DEF StartInv
  <2> QED
    BY <1>9, <2>1, <2>3 DEF Publish
<1> QED
  BY <1>1, <1>2, <1>3, <1>4, <1>5, <1>6, <1>7, <1>8, <1>9 DEF Tick

LEMMA ElapseTypes == IInv /\ Elapse => TypeOK'
  BY RecordsFacts, StatsAssumption DEF IInv, TypeOK, Elapse

(***************************************************************************)
(* A record of its own for each worker.                                    *)
(***************************************************************************)

LEMMA StartOwn ==
    ASSUME IInv, NEW w \in Workers, Start(w)
    PROVE  StartInv'
<1> USE DEF IInv, TypeOK
<1>1. ASSUME NEW v \in Workers, v # w
      PROVE  pc'[v] = pc[v]
  <2>1. PICK l : pc' = [pc EXCEPT ![w] = l]
    BY DEF Start, Lock, Claim, Unlock, AddTimer
  <2> QED
    BY <1>1, <2>1
<1>2. CASE Lock(w)
  <2>1. Settled' = Settled
    BY <1>1, <1>2 DEF Lock, Settled
  <2>2. \A v \in Workers : pc[v] \notin {"claim", "unlock"}
    BY <1>2, StatsAssumption DEF Lock, StartInv
  <2> QED
    BY <1>1, <1>2, <2>1, <2>2 DEF Lock, StartInv, thread_num
<1>3. CASE Claim(w)
  <2>1. w \notin Settled
    BY <1>3 DEF Claim, Settled
  <2>2. wid \in Nat /\ wid < thread_num
    BY <2>1, RecordLeft
  <2>3. pc'[w] = "unlock" /\ slot' = [slot EXCEPT ![w] = wid] /\ wid' = wid
    BY <1>3, <2>2 DEF Claim
  <2>4. Settled' = Settled
    BY <1>1, <2>1, <2>3 DEF Settled
  <2>5. \A v \in Workers \ {w} : pc[v] \notin {"claim", "unlock"}
    BY <1>3 DEF Claim, StartInv
  <2> QED
    BY <1>1, <1>3, <2>1, <2>2, <2>3, <2>4, <2>5 DEF Claim, StartInv, thread_num
<1>4. CASE Unlock(w)
  <2>1. w \notin Settled /\ slot[w] = wid
    BY <1>4 DEF Unlock, Settled, StartInv
  <2>2. Settled' = Settled \cup {w}
    BY <1>1, <1>4 DEF Unlock, Settled
  <2> DEFINE S == Settled
  <2>3. Cardinality(S') = wid + 1
    <3>1. IsFiniteSet(S) /\ wid = Cardinality(S)
      BY ThreadNum DEF StartInv
    <3>2. w \notin S /\ S' = S \cup {w}
      BY <2>1, <2>2
    <3> HIDE DEF S
    <3>3. Cardinality(S \cup {w}) = Cardinality(S) + 1
      BY <3>1, <3>2, FS_AddElement
    <3> QED
      BY <3>1, <3>2, <3>3
  <2>4. \A v \in Workers \ {w} : pc[v] \notin {"claim", "unlock"}
    BY <1>4 DEF Unlock, StartInv
  <2>5. wid \in Nat
    BY <2>1, RecordLeft
  <2> QED
    BY <1>1, <1>4, <2>1, <2>2, <2>3, <2>4, <2>5 DEF Unlock, StartInv, thread_num
<1>5. CASE AddTimer(w)
  <2>1. w \in Settled /\ pc' = [pc EXCEPT ![w] = "idle"]
    BY <1>5 DEF AddTimer, Settled
  <2> QED
    BY <1>5, <2>1, StartTypes, StartKept DEF AddTimer
<1> QED
  BY <1>2, <1>3, <1>4, <1>5 DEF Start

LEMMA WorkOwn ==
    ASSUME IInv, NEW w \in Workers,
           ReqNew(w) \/ ReqCount(w) \/ TimerRead(w) \/ Tick(w)
    PROVE  StartInv'
<1>1. PICK l \in {"idle", "count", "process", "restart", "read", "rate", "clear",
                   "sum", "publish"} : pc' = [pc EXCEPT ![w] = l]
  BY DEF ReqNew, ReqCount, TimerRead, Tick, Process, Restart, Read, Rate,
         Clear, Sum, Publish
<1>2. w \in Settled /\ UNCHANGED <<wid, mutex, slot>>
  BY DEF ReqNew, ReqCount, TimerRead, Tick, Process, Restart, Read, Rate,
         Clear, Sum, Publish, Settled
<1> QED
  BY <1>1, <1>2, WorkTypes, StartKept

(***************************************************************************)
(* Every request is counted once, unless a tick overlapped.                *)
(***************************************************************************)

\* The record of a worker that serves requests is its own.
LEMMA OwnSlot ==
    ASSUME IInv, NEW w \in Settled
    PROVE  /\ slot[w] \in Records /\ slot[w] < wid
           /\ \A v \in Settled : slot[v] = slot[w] => v = w
<1>1. slot[w] \in 0 .. wid - 1
  BY DEF IInv, StartInv
<1>2. wid \in 0 .. thread_num
  BY DEF IInv, TypeOK
<1> QED
  BY <1>1, <1>2, RecordsFacts DEF IInv, StartInv, Records

LEMMA StartCounts ==
    ASSUME IInv, NEW w \in Workers, Start(w)
    PROVE  CountInv'
<1> USE DEF IInv, TypeOK
<1>1. \A v \in Workers : pc'[v] = "count" => pc[v] = "count"
  BY DEF Start, Lock, Claim, Unlock, AddTimer
<1>2. CASE Claim(w)
  <2>1. w \notin Settled
    BY <1>2 DEF Claim, Settled
  <2>2. wid \in Nat /\ wid < thread_num
    BY <2>1, RecordLeft
  <2>3. wid \in Records /\ wid >= wid
    BY <2>2, RecordsFacts DEF Records
  <2>6. reqs_served[wid] = 0
    BY <2>3 DEF CountInv
  <2>4. reqs_served' = reqs_served
    BY <1>2, <2>2, <2>6 DEF Claim
  <2>5. \A v \in Workers : pc[v] = "count" => slot'[v] = slot[v]
    BY <1>2 DEF Claim
  <2> QED
    BY <1>1, <1>2, <2>4, <2>5 DEF Claim, CountInv, CountExact, Records, thread_num
<1>3. CASE Unlock(w)
  <2>1. \A r \in Records : r >= wid + 1 => r >= wid
    BY RecordsFacts DEF Records
  <2> QED
    BY <1>1, <1>3, <2>1 DEF Unlock, CountInv, CountExact, Records, thread_num
<1>4. CASE Lock(w) \/ AddTimer(w)
  <2>1. UNCHANGED <<wid, slot, reqs_served, tmp, raced, owed>>
    BY <1>4 DEF Lock, AddTimer
  <2> QED
    BY <1>1, <2>1 DEF CountInv, CountExact, Records, thread_num
<1> QED
  BY <1>2, <1>3, <1>4 DEF Start

\* A step of w that leaves the records, and the counts others have read.
LEMMA CountsKept ==
    ASSUME IInv, NEW w \in Workers, pc'[w] # "count",
           \A v \in Workers : v # w => pc'[v] = pc[v] /\ tmp'[v] = tmp[v],
           UNCHANGED <<wid, slot, reqs_served, raced, owed>>
    PROVE  CountInv'
  BY DEF IInv, CountInv, CountExact, Records, thread_num

LEMMA WorkCounts ==
    ASSUME IInv, NEW w \in Workers,
           ReqNew(w) \/ ReqCount(w) \/ TimerRead(w) \/ Tick(w)
    PROVE  CountInv'
<1>1. ASSUME NEW v \in Workers, v # w
      PROVE  pc'[v] = pc[v] /\ tmp'[v] = tmp[v]
  <2>1. PICK l : pc' = [pc EXCEPT ![w] = l]
    BY DEF ReqNew, ReqCount, TimerRead, Tick, Process, Restart, Read, Rate,
         Clear, Sum, Publish
  <2>2. tmp' = tmp \/ \E n : tmp' = [tmp EXCEPT ![w] = n]
    BY DEF ReqNew, ReqCount, TimerRead, Tick, Process, Restart, Read, Rate,
         Clear, Sum, Publish
  <2> QED
    BY <1>1, <2>1, <2>2 DEF IInv, TypeOK
<1>2. UNCHANGED <<wid, slot>>
  BY DEF ReqNew, ReqCount, TimerRead, Tick, Process, Restart, Read, Rate,
         Clear, Sum, Publish
<1>3. \A v \in Workers : pc[v] = "count" => v \in Settled
  BY DEF Settled
<1>4. CASE ReqNew(w)
  <2>1. tmp'[w] = reqs_served[slot[w]]
    BY <1>4 DEF ReqNew, IInv, TypeOK
  <2>2. UNCHANGED <<reqs_served, raced, owed>>
    BY <1>4 DEF ReqNew
  <2> QED
    BY <1>1, <1>2, <2>1, <2>2 DEF IInv, CountInv, CountExact, Records, thread_num
<1>5. CASE ReqCount(w)
  <2> DEFINE r == slot[w]
  <2>1. w \in Settled /\ r \in Records /\ r < wid /\ r \in Nat
    BY <1>5, <1>3, OwnSlot, RecordsFacts DEF ReqCount
  <2>2. /\ reqs_served'[r] = tmp[w] + 1
        /\ owed'[r] = IF raced[r] THEN 0 ELSE owed[r] + 1
        /\ pc'[w] = "idle"
    BY <1>5, <2>1 DEF ReqCount, IInv, TypeOK
  <2>3. \A q \in Records : q # r =>
          reqs_served'[q] = reqs_served[q] /\ owed'[q] = owed[q]
    BY <1>5 DEF ReqCount, IInv, TypeOK
  <2>4. raced' = raced
    BY <1>5 DEF ReqCount
  <2>5. \A v \in Workers : pc'[v] = "count" /\ ~raced[slot[v]] =>
          tmp'[v] = reqs_served'[slot[v]]
    <3> SUFFICES ASSUME NEW v \in Workers, pc'[v] = "count", ~raced[slot[v]]
                 PROVE  tmp'[v] = reqs_served'[slot[v]]
      OBVIOUS
    <3>1. v # w
      BY <2>2
    <3>2. slot[v] # r /\ slot[v] \in Records
      BY <3>1, <1>1, <1>3, <2>1, OwnSlot
    <3> QED
      BY <3>1, <3>2, <1>1, <2>3 DEF IInv, CountInv
  <2>6. \A q \in Records : q >= wid => reqs_served'[q] = 0
    BY <2>1, <2>3 DEF IInv, CountInv, TypeOK
  <2>7. ASSUME NEW q \in Records
        PROVE  raced[q] \/ reqs_served'[q] = owed'[q]
    <3>1. CASE q # r
      BY <3>1, <2>3 DEF IInv, CountInv, CountExact
    <3>2. CASE q = r /\ ~raced[r]
      <4>1. tmp[w] = reqs_served[r] /\ reqs_served[r] = owed[r]
        BY <3>2, <1>5, <2>1 DEF ReqCount, IInv, CountInv, CountExact
      <4>2. owed[r] \in Int /\ reqs_served[r] \in Nat
        BY <2>1 DEF IInv, TypeOK
      <4> QED
        BY <3>2, <4>1, <4>2, <2>2
    <3> QED
      BY <3>1, <3>2
  <2> QED
    BY <1>2, <2>4, <2>5, <2>6, <2>7 DEF CountInv, CountExact, Records, thread_num
<1>6. CASE Clear(w)
  <2> DEFINE r == i[w]
  <2>1. r \in Records
    BY DEF IInv, TypeOK
  <2>2. /\ pc'[w] = "sum"
        /\ reqs_served'[r] = 0
        /\ raced'[r] = (raced[r] \/ Overlap(w, r))
        /\ ~raced'[r] => owed'[r] = owed[r] - tmp[w]
    BY <1>6, <2>1 DEF Clear, Remember, IInv, TypeOK
  <2>3. \A q \in Records : q # r =>
          /\ reqs_served'[q] = reqs_served[q] /\ raced'[q] = raced[q]
          /\ owed'[q] = owed[q]
    BY <1>6 DEF Clear, Remember, IInv, TypeOK
  <2>4. \A v \in Workers : pc'[v] = "count" /\ ~raced'[slot[v]] =>
          tmp'[v] = reqs_served'[slot[v]]
    <3> SUFFICES ASSUME NEW v \in Workers, pc'[v] = "count", ~raced'[slot[v]]
                 PROVE  tmp'[v] = reqs_served'[slot[v]]
      OBVIOUS
    <3>1. v # w /\ pc[v] = "count"
      BY <2>2, <1>1
    <3>2. slot[v] # r
      BY <3>1, <2>2 DEF Overlap
    <3>3. slot[v] \in Records
      BY <3>1, <1>3, OwnSlot
    <3> QED
      BY <3>1, <3>2, <3>3, <1>1, <2>3 DEF IInv, CountInv
  <2>5. \A q \in Records : q >= wid => reqs_served'[q] = 0
    BY <2>1, <2>2, <2>3 DEF IInv, CountInv
  <2>6. ASSUME NEW q \in Records
        PROVE  raced'[q] \/ reqs_served'[q] = owed'[q]
    <3>1. CASE q # r
      BY <3>1, <2>3 DEF IInv, CountInv, CountExact
    <3>2. CASE q = r /\ ~raced'[r]
      <4>1. tmp[w] = reqs_served[r] /\ reqs_served[r] = owed[r]
        BY <3>2, <2>1, <2>2 DEF Overlap, IInv, CountInv, CountExact
      <4>2. owed[r] \in Int /\ reqs_served[r] \in Nat
        BY <2>1 DEF IInv, TypeOK
      <4> QED
        BY <3>2, <4>1, <4>2, <2>2
    <3> QED
      BY <3>1, <3>2
  <2> QED
    BY <1>2, <2>4, <2>5, <2>6 DEF CountInv, CountExact, Records, thread_num
<1>7. CASE TimerRead(w) \/ Process(w) \/ Restart(w) \/ Read(w) \/ Rate(w)
            \/ Sum(w) \/ Publish(w)
  <2>1. UNCHANGED <<reqs_served, raced, owed>>
    BY <1>7 DEF TimerRead, Process, Restart, Read, Rate, Sum, Publish
  <2>2. pc'[w] # "count"
    BY <1>7 DEF TimerRead, Process, Restart, Read, Rate, Sum, Publish, IInv, TypeOK
  <2> QED
    BY <1>1, <1>2, <2>1, <2>2, CountsKept
<1> QED
  BY <1>4, <1>5, <1>6, <1>7 DEF Tick

\* A rate is over the time that was found to be more than a second.
LEMMA StepRates ==
    ASSUME IInv, NEW w \in Workers,
           Start(w) \/ ReqNew(w) \/ ReqCount(w) \/ TimerRead(w) \/ Tick(w)
    PROVE  RateInv'
<1> USE DEF IInv, TypeOK
<1>1. \A v \in Workers \ {w} : pc'[v] = pc[v] /\ ms'[v] = ms[v]
  <2>1. \E l : pc' = [pc EXCEPT ![w] = l]
    BY DEF Start, Lock, Claim, Unlock, AddTimer, ReqNew, ReqCount, TimerRead,
           Tick, Process, Restart, Read, Rate, Clear, Sum, Publish
  <2>2. ms' = ms \/ \E m : ms' = [ms EXCEPT ![w] = m]
    BY DEF Start, Lock, Claim, Unlock, AddTimer, ReqNew, ReqCount, TimerRead,
           Tick, Process, Restart, Read, Rate, Clear, Sum, Publish
  <2> QED
    BY <2>1, <2>2
<1>2. pc'[w] \in {"restart", "read", "rate"} => ms'[w] # 0
  <2>1. CASE Process(w)
    <3>1. ASSUME age[i[w]] = 0
          PROVE  TRUE \notin Due(i[w])
      <4>1. age[i[w]] # NULL /\ ~(age[i[w]] > Second)
        BY <3>1, StatsAssumption
      <4> QED
        BY <4>1 DEF Due
    <3> QED
      BY <2>1, <3>1 DEF Process, Due
  <2>2. CASE Restart(w) \/ Read(w)
    BY <2>2 DEF Restart, Read, RateInv
  <2>3. CASE ~(Process(w) \/ Restart(w) \/ Read(w))
    <3>1. PICK l \in {"idle", "count", "process", "clear", "sum", "publish",
                      "claim", "unlock", "abort", "timer"} :
            pc' = [pc EXCEPT ![w] = l]
      BY <2>3 DEF Start, Lock, Claim, Unlock, AddTimer, ReqNew, ReqCount,
                  TimerRead, Tick, Rate, Clear, Sum, Publish
    <3> QED
      BY <3>1
  <2> QED
    BY <2>1, <2>2, <2>3
<1> QED
  BY <1>1, <1>2 DEF RateInv

(***************************************************************************)
(* The theorems.                                                           *)
(***************************************************************************)

LEMMA Initially == Init => IInv
<1> SUFFICES ASSUME Init
             PROVE  IInv
  OBVIOUS
<1>1. Settled = {} /\ Cardinality(Settled) = 0
  BY FS_EmptySet DEF Init, Settled
<1>2. 0 \in 0 .. thread_num
  BY ThreadNum
<1>3. \A w \in Workers : 0 \in Records
  <2> SUFFICES ASSUME NEW w \in Workers
               PROVE  0 \in Records
    OBVIOUS
  <2>1. Cardinality(Workers) # 0
    BY FS_EmptySet, StatsAssumption
  <2> QED
    BY <2>1, ThreadNum DEF thread_num, Records
<1>4. TypeOK
  BY <1>2, <1>3, StatsAssumption DEF Init, TypeOK, StartLabels
<1>5. StartInv
  BY <1>1 DEF Init, StartInv, Settled
<1>6. CountInv
  BY DEF Init, CountInv, CountExact
<1>7. RateInv
  BY DEF Init, RateInv
<1> QED
  BY <1>4, <1>5, <1>6, <1>7 DEF IInv

LEMMA Inductive == IInv /\ [Next]_vars => IInv'
<1> SUFFICES ASSUME IInv, [Next]_vars
             PROVE  IInv'
  OBVIOUS
<1>1. ASSUME NEW w \in Workers, Start(w)
      PROVE  IInv'
  BY <1>1, StartTypes, StartOwn, StartCounts, StepRates DEF IInv
<1>2. ASSUME NEW w \in Workers,
             ReqNew(w) \/ ReqCount(w) \/ TimerRead(w) \/ Tick(w)
      PROVE  IInv'
  BY <1>2, WorkTypes, WorkOwn, WorkCounts, StepRates DEF IInv
<1>3. CASE Elapse
  <2>1. UNCHANGED <<startup, reqs_served, pc, tmp, ms, owed, raced>>
    BY <1>3 DEF Elapse
  <2>2. StartInv' /\ CountInv' /\ RateInv'
    BY <2>1 DEF IInv, StartInv, CountInv, RateInv, CountExact, Settled, Records, thread_num
  <2> QED
    BY <1>3, <2>2, ElapseTypes DEF IInv
<1>4. CASE UNCHANGED vars
  BY <1>4 DEF vars, IInv, TypeOK, StartInv, CountInv, RateInv, CountExact,
              Settled, Records, thread_num
<1> QED
  BY <1>1, <1>2, <1>3, <1>4 DEF Next

LEMMA Invariant == Spec => []IInv
  BY Initially, Inductive, PTL DEF Spec

\* No tick and no start goes beyond thread_stats, however many workers start
\* and tick at once (cache_stats.c:22-38, 53-58).
THEOREM TypeCorrect == Spec => []TypeOK
  BY Invariant, PTL DEF IInv

\* Any number of workers that start in any order get a record each, and the
\* assertion of cache_stats.c:25 does not fire.
THEOREM EachHasItsOwn == Spec => []OwnRecord
<1>1. IInv => OwnRecord
  <2> SUFFICES ASSUME IInv, NEW v \in Workers, NEW w \in Workers,
                      v # w, slot[v] # NULL
               PROVE  slot[v] # slot[w]
    BY DEF OwnRecord, IInv, StartInv
  <2>1. \A x \in Workers : pc[x] \in {"new", "claim"} => slot[x] = NULL
    BY DEF IInv, StartInv
  <2>2. \A x \in Workers : pc[x] = "unlock" => slot[x] = wid
    BY DEF IInv, StartInv
  <2>3. ~(pc[v] = "unlock" /\ pc[w] = "unlock")
    BY DEF IInv, StartInv
  <2>4. \A x \in Settled : slot[x] # wid
    BY RecordsFacts DEF IInv, StartInv, TypeOK
  <2>5. v \in Settled /\ w \in Settled => slot[v] # slot[w]
    BY DEF IInv, StartInv
  <2> QED
    BY <2>1, <2>2, <2>3, <2>4, <2>5 DEF Settled
<1> QED
  BY <1>1, Invariant, PTL

\* However many workers count and tick at once, a request is lost from the
\* rates, or is in two of them, only when a tick met it half way, or another
\* tick, at the same record (cache_stats.c:46-50, 66).
THEOREM CountsAreExact == Spec => []CountExact
<1>1. IInv => CountExact
  BY DEF IInv, CountInv
<1> QED
  BY <1>1, Invariant, PTL
=============================================================================
