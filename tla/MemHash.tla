------------------------------- MODULE MemHash -------------------------------
(***************************************************************************)
(* The in-memory storage engine of unqlite (mem_kv.c within unqlite.c),    *)
(* which unqlite_ht.c opens as ":mem:", as the table of the plugin runs    *)
(* it: fetch, store and delete by key, and cursors for table_each.         *)
(*                                                                         *)
(* A record is in two structures at once: the collision chain of its       *)
(* bucket, for lookups, and one list of all, from the last record made     *)
(* (pLast) along next to the first (pFirst), for the cursors, which go the *)
(* other way, along prev.  One call is one step: the library takes the     *)
(* database mutex in each, but for those of a cursor, which write nothing  *)
(* of the engine and read one pointer.                                     *)
(*                                                                         *)
(* A cursor that stands on freed memory takes no step any more.            *)
(***************************************************************************)
EXTENDS Integers, Sequences, FiniteSets, SequencesExt

CONSTANTS
    Keys,           \* the keys, none of them empty
    Vals,           \* values, all of one size (struct node_t, unqlite_ht.c)
    Cursors,        \* the cursors of the workers
    Recs,           \* the addresses of records
    Hash,           \* MemHashFunc: key -> number
    BucketSize,     \* MEM_HASH_BUCKET_SIZE, a power of two
    FillFactor,     \* MEM_HASH_FILL_FACTOR
    GrowLimit,      \* records from which on the buckets grow no more
    NULL, Dangling

ASSUME MemHashAssumption ==
    /\ Hash \in [Keys -> Nat]
    /\ IsFiniteSet(Recs)
    /\ BucketSize \in Nat \ {0} /\ FillFactor \in Nat \ {0} /\ GrowLimit \in Nat
    /\ NULL \notin Keys \cup Vals \cup Recs
    /\ Dangling \notin Keys \cup {NULL}

VARIABLES
    pKey, pData,                \* per record: its key, NULL if it is not
                                \* allocated, and its value
    pNext, pPrev,               \* per record: its links in the list of all
    pNextHash, pPrevHash,       \* per record: its links in its chain
    apBucket,                   \* the heads of the chains, 0..nBucket-1
    nBucket, nRecord,
    pFirst, pLast,
    pCur                        \* per cursor: its record, NULL at the end

records == <<pKey, pData, pNext, pPrev, pNextHash, pPrevHash>>
engine == <<records, apBucket, nBucket, nRecord, pFirst, pLast>>
vars == <<engine, pCur>>

Live == {r \in Recs : pKey[r] # NULL}

Nulls == [r \in Recs |-> NULL]

Init ==
    /\ pKey = Nulls /\ pData = Nulls
    /\ pNext = Nulls /\ pPrev = Nulls
    /\ pNextHash = Nulls /\ pPrevHash = Nulls
    /\ apBucket = [b \in 0 .. BucketSize - 1 |-> NULL]
    /\ nBucket = BucketSize
    /\ nRecord = 0
    /\ pFirst = NULL /\ pLast = NULL
    /\ pCur = [c \in Cursors |-> NULL]

------------------------------------------------------------------------------
(* Pointers *)

\* if (p) p->link = v.
Set(link, p, v) == IF p = NULL THEN link ELSE [link EXCEPT ![p] = v]

\* The records from p on along a link, until NULL.
Follow(p, link) ==
    LET N == Cardinality(Recs)
        at[i \in 1 .. N + 1] == IF i = 1 THEN p
                                ELSE IF at[i - 1] = NULL THEN NULL
                                ELSE link[at[i - 1]]
    IN  [i \in 1 .. Cardinality({j \in 1..N : at[j] # NULL}) |-> at[i]]

BucketOf(k, n) == Hash[k] % n

\* MemHashGetEntry: the first record of the chain that has the key.
GetEntry(k) ==
    LET chain == Follow(apBucket[BucketOf(k, nBucket)], pNextHash)
        hits == {i \in DOMAIN chain : pKey[chain[i]] = k}
    IN  IF hits = {} THEN NULL ELSE chain[Min(hits)]

------------------------------------------------------------------------------
(* MemHashReplace *)

\* An address for MemHashNewRecord: what is done through an older pointer to
\* it is undefined already.
Fresh(r) == r \notin Live /\ \A c \in Cursors : pCur[c] # r

\* The chains: their links and their heads.
Chains == [next |-> pNextHash, prev |-> pPrevHash, buckets |-> apBucket]

\* Mutant: the record keeps the link it had in its old bucket.
InstallStale(t, r, b) ==
    [t EXCEPT !.prev = Set(@, t.buckets[b], r), !.buckets[b] = r]

\* In the chains t, the record becomes the head of bucket b.
Install(t, r, b) ==
    LET head == t.buckets[b]
    IN  [next |-> [t.next EXCEPT ![r] = head],
         prev |-> Set([t.prev EXCEPT ![r] = NULL], head, r),
         buckets |-> [t.buckets EXCEPT ![b] = r]]

\* MemHashGrowTable: every record of the list, the last one first, becomes the
\* head of its chain in n new buckets.
Rehash(t, list, keys, n) ==
    LET at[i \in 0 .. Len(list)] ==
          IF i = 0 THEN [t EXCEPT !.buckets = [b \in 0 .. n - 1 |-> NULL]]
          ELSE Install(at[i - 1], list[i], BucketOf(keys[list[i]], n))
    IN  at[Len(list)]

\* Mutant: every new record becomes the first.
PushRecordFirst(r, k, v) ==
    /\ pKey' = [pKey EXCEPT ![r] = k]
    /\ pData' = [pData EXCEPT ![r] = v]
    /\ pNext' = [pNext EXCEPT ![r] = pLast]
    /\ pPrev' = Set([pPrev EXCEPT ![r] = NULL], pLast, r)
    /\ pFirst' = r
    /\ pLast' = r
    /\ nRecord' = nRecord + 1

\* MemHashNewRecord and, in MemHashLinkRecord, the list: the record becomes
\* its last.
PushRecord(r, k, v) ==
    /\ pKey' = [pKey EXCEPT ![r] = k]
    /\ pData' = [pData EXCEPT ![r] = v]
    /\ pNext' = [pNext EXCEPT ![r] = pLast]
    /\ pPrev' = Set([pPrev EXCEPT ![r] = NULL], pLast, r)
    /\ pFirst' = IF pFirst = NULL THEN r ELSE pFirst
    /\ pLast' = r
    /\ nRecord' = nRecord + 1

\* A record of a new key; the buckets are doubled when there are too many
\* records for them, unless there is no memory for it.
Insert(r, k, v, memory) ==
    LET linked == Install(Chains, r, BucketOf(k, nBucket))
        list == <<r>> \o SubSeq(Follow(pLast, pNext), 1, nRecord)
        grow == /\ nRecord + 1 >= nBucket * FillFactor
                /\ nRecord + 1 < GrowLimit
                /\ memory
        n == IF grow THEN 2 * nBucket ELSE nBucket
        t == IF grow THEN Rehash(linked, list, [pKey EXCEPT ![r] = k], n)
                     ELSE linked
    IN  /\ Fresh(r)
        /\ PushRecord(r, k, v)
        /\ nBucket' = n
        /\ pNextHash' = t.next
        /\ pPrevHash' = t.prev
        /\ apBucket' = t.buckets

\* The value of a key that is there.
Overwrite(r, v) ==
    /\ pData' = [pData EXCEPT ![r] = v]
    /\ UNCHANGED <<pKey, pNext, pPrev, pNextHash, pPrevHash, apBucket, nBucket,
                   nRecord, pFirst, pLast>>

\* unqlite_kv_store.  (It may also fail for lack of memory, which changes
\* nothing.)
Store(k, v) ==
    /\ \/ /\ GetEntry(k) = NULL
          /\ \E r \in Recs, memory \in BOOLEAN : Insert(r, k, v, memory)
       \/ /\ GetEntry(k) # NULL
          /\ Overwrite(GetEntry(k), v)
    /\ UNCHANGED pCur

------------------------------------------------------------------------------
(* unqlite_kv_delete *)

Free(r) ==
    /\ pKey' = [pKey EXCEPT ![r] = NULL]
    /\ pData' = [pData EXCEPT ![r] = NULL]

\* A link from p to the record r is set to what r is linked to, and r's own
\* goes with it.
Bypass(link, r, p) == [Set(link, p, link[r]) EXCEPT ![r] = NULL]

\* Mutant: the list keeps its first record.
UnlinkRecordKeepFirst(r) ==
    LET b == BucketOf(pKey[r], nBucket)
    IN  /\ apBucket' = IF pPrevHash[r] = NULL
                       THEN [apBucket EXCEPT ![b] = pNextHash[r]] ELSE apBucket
        /\ pNextHash' = Bypass(pNextHash, r, pPrevHash[r])
        /\ pPrevHash' = Bypass(pPrevHash, r, pNextHash[r])
        /\ pLast' = IF r = pLast THEN pNext[r] ELSE pLast
        /\ pNext' = Bypass(pNext, r, pPrev[r])
        /\ pPrev' = Bypass(pPrev, r, pNext[r])
        /\ pFirst' = pFirst
        /\ nRecord' = nRecord - 1
        /\ Free(r)
        /\ UNCHANGED nBucket

\* MemHashUnlinkRecord: out of its chain and of the list, and freed.
UnlinkRecord(r) ==
    LET b == BucketOf(pKey[r], nBucket)
    IN  /\ apBucket' = IF pPrevHash[r] = NULL
                       THEN [apBucket EXCEPT ![b] = pNextHash[r]] ELSE apBucket
        /\ pNextHash' = Bypass(pNextHash, r, pPrevHash[r])
        /\ pPrevHash' = Bypass(pPrevHash, r, pNextHash[r])
        /\ pLast' = IF r = pLast THEN pNext[r] ELSE pLast
        /\ pNext' = Bypass(pNext, r, pPrev[r])
        /\ pPrev' = Bypass(pPrev, r, pNext[r])
        /\ pFirst' = IF r = pFirst THEN pPrev[r] ELSE pFirst
        /\ nRecord' = nRecord - 1
        /\ Free(r)
        /\ UNCHANGED nBucket

\* The cursor of the database seeks the record and deletes it; it is used
\* under the mutex only and sought anew each time.
Delete(k) ==
    /\ GetEntry(k) # NULL
    /\ UnlinkRecord(GetEntry(k))
    /\ UNCHANGED pCur

------------------------------------------------------------------------------
(* The cursor of table_each *)

\* unqlite_kv_cursor_init and _first_entry: a new cursor, on the oldest record.
CursorFirst(c) ==
    /\ pCur[c] = NULL
    /\ pCur' = [pCur EXCEPT ![c] = pFirst]
    /\ UNCHANGED engine

\* Mutant: the cursor goes towards the older records.
CursorNextOlder(c) ==
    /\ pCur[c] \in Live
    /\ pCur' = [pCur EXCEPT ![c] = pNext[@]]
    /\ UNCHANGED engine

\* unqlite_kv_cursor_next_entry; at the end the cursor is released.
CursorNext(c) ==
    /\ pCur[c] \in Live
    /\ pCur' = [pCur EXCEPT ![c] = pPrev[@]]
    /\ UNCHANGED engine

Next ==
    \/ \E k \in Keys, v \in Vals : Store(k, v)
    \/ \E k \in Keys : Delete(k)
    \/ \E c \in Cursors : CursorFirst(c) \/ CursorNext(c)

Spec == Init /\ [][Next]_vars

------------------------------------------------------------------------------
(* Properties *)

Pointers == Live \cup {NULL}

\* Types; and no pointer of the engine is left on a freed record.
TypeOK ==
    /\ nBucket \in Nat /\ nRecord \in Nat
    /\ apBucket \in [0 .. nBucket - 1 -> Pointers]
    /\ {pFirst, pLast} \subseteq Pointers
    /\ pCur \in [Cursors -> Recs \cup {NULL}]
    /\ \A r \in Live :
         /\ pKey[r] \in Keys /\ pData[r] \in Vals
         /\ {pNext[r], pPrev[r], pNextHash[r], pPrevHash[r]} \subseteq Pointers

\* The records from the newest to the oldest.
List == Follow(pLast, pNext)

\* The list has every record just once, the same both ways, however records
\* were added and deleted (unqlite.c:51852-51857, 51874-51878).
ListExact ==
    /\ ToSet(List) = Live
    /\ Len(List) = nRecord /\ Cardinality(Live) = nRecord
    /\ Follow(pFirst, pPrev) = Reverse(List)

\* A lookup by the chains finds just the records of the list, through every
\* collision, deletion and growth of the buckets (unqlite.c:51866-51873,
\* 51936-51943).
LookupAgrees ==
    \A k \in Keys :
        {r \in Live : pKey[r] = k} = {GetEntry(k)} \ {NULL}

\* The map the list is, and the keys a cursor stands on and will come to.
Contents ==
    [k \in Keys |-> IF \E r \in Live : pKey[r] = k
                    THEN pData[CHOOSE r \in Live : pKey[r] = k] ELSE NULL]
KeyAt(p) == IF p = NULL THEN NULL ELSE IF p \in Live THEN pKey[p] ELSE Dangling
Ahead(p) == IF p \in Live THEN {pKey[r] : r \in ToSet(Tail(Follow(p, pPrev)))}
                          ELSE {}

Tbl == INSTANCE Table WITH
           table <- Contents, cur <- [c \in Cursors |-> KeyAt(pCur[c])],
           todo <- [c \in Cursors |-> Ahead(pCur[c])]

\* The engine is the table that the plugin relies on (ht.h:14-25): every call
\* does to the map, and to all cursors, what Table says.
TableSpec == Tbl!Spec
==============================================================================
