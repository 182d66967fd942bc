-------------------------- MODULE MapRecordsProofs --------------------------
(***************************************************************************)
(* MapRecords keeps MapInv, for any keys, hashes, iterators and sizes: the    *)
(* record counts and the hash table are exact while a map changes under its   *)
(* iterations, and the map it implements is OrderedMap.                       *)
(***************************************************************************)
EXTENDS MapLemmas

(* How many iterations are at each record. *)
CursorCounts(it, l) == [r \in Records |-> IteratorsAt(it, r) + LoopsAt(l, r)]

(* What RecordsCounted says, of map state t with c[r] iterations at record r. *)
CountedBy(t, c) ==
  \A r \in Records :
    /\ t.record[r].ref_count = c[r] + (IF r \in Live(t) THEN 1 ELSE 0)
    /\ r \in ToSet(t.records) <=> t.record[r].ref_count > 0

(* RecordsCounted is CountedBy. *)
LEMMA CountedDef ==
  /\ RecordsCounted <=> CountedBy(s, CursorCounts(iter, loops))
  /\ loops \in Seq(Records) => CursorCounts(iter, loops) \in [Records -> Nat]
<1>1. \A r \in Records : Cursors(r) = CursorCounts(iter, loops)[r]
  BY DEF Cursors, CursorCounts, IteratorsAt, LoopsAt
<1>2. \A r \in Records : r \in Live(s) <=> ~s.record[r].empty
  BY DEF Live
<1>3. RecordsCounted <=> CountedBy(s, CursorCounts(iter, loops))
  BY <1>1, <1>2 DEF RecordsCounted, CountedBy
<1>4. ASSUME loops \in Seq(Records) PROVE CursorCounts(iter, loops) \in [Records -> Nat]
  <2>1. \A r \in Records : IteratorsAt(iter, r) \in Nat /\ LoopsAt(loops, r) \in Nat
    BY <1>4, CursorTypes
  <2>2. \A r \in Records : IteratorsAt(iter, r) + LoopsAt(loops, r) \in Nat
    BY <2>1
  <2> QED BY <2>2 DEF CursorCounts
<1> QED BY <1>3, <1>4

(* An iteration leaves record q, or starts from no record. *)
LEMMA LeaveCounted ==
  ASSUME NEW t, WellFormed(t), NEW c \in [Records -> Nat], CountedBy(t, c),
         NEW q \in Records \cup {NULL}, q # NULL => c[q] > 0,
         NEW d \in [Records -> Nat], \A r \in Records : d[r] = c[r] - (IF r = q THEN 1 ELSE 0)
  PROVE  WellFormed(Leave(t, q)) /\ SameEntries(t, Leave(t, q)) /\ CountedBy(Leave(t, q), d)
<1>1. \A r \in Records : t.record[r].ref_count \in Nat
  BY StateFacts DEF RecordType
<1>2. CASE q = NULL
  <2>1. q \notin Records /\ Leave(t, q) = t
    BY <1>2 DEF Records, NULL, Leave
  <2>2. \A r \in Records : d[r] = c[r]
    BY <2>1
  <2>3. CountedBy(t, d)
    BY <2>2 DEF CountedBy
  <2>4. SameEntries(t, t)
    BY DEF SameEntries
  <2> QED BY <2>1, <2>3, <2>4
<1>3. CASE q # NULL
  <2>1. q \in Records /\ Leave(t, q) = DecrefRecord(t, q) /\ c[q] \in Nat /\ c[q] > 0
    BY <1>3 DEF Leave
  <2>2. PICK u : u = DecrefRecord(t, q)
    OBVIOUS
  <2>3. q \in ToSet(t.records) /\ t.record[q].ref_count > 0 /\ (t.record[q].ref_count = 1 => q \notin Live(t))
    BY <2>1 DEF CountedBy
  <2>4. /\ WellFormed(u) /\ SameEntries(t, u)
        /\ \A r \in Records : u.record[r].ref_count = IF r = q THEN t.record[r].ref_count - 1 ELSE t.record[r].ref_count
        /\ ToSet(u.records) = {r \in ToSet(t.records) : r = q => t.record[q].ref_count > 1}
    BY <2>2, <2>3, DecrefEffect
  <2>5. Live(u) = Live(t)
    BY <2>4 DEF SameEntries
  <2>6. ASSUME NEW r \in Records
        PROVE  /\ u.record[r].ref_count = d[r] + (IF r \in Live(u) THEN 1 ELSE 0)
               /\ r \in ToSet(u.records) <=> u.record[r].ref_count > 0
    <3>1. /\ t.record[r].ref_count = c[r] + (IF r \in Live(t) THEN 1 ELSE 0)
          /\ r \in ToSet(t.records) <=> t.record[r].ref_count > 0
          /\ c[r] \in Nat /\ d[r] = c[r] - (IF r = q THEN 1 ELSE 0)
      BY DEF CountedBy
    <3>2. CASE r = q
      BY <3>1, <3>2, <2>4, <2>5, <1>1
    <3>3. CASE r # q
      BY <3>1, <3>3, <2>4, <2>5, <1>1
    <3> QED BY <3>2, <3>3
  <2>7. CountedBy(u, d)
    BY <2>6 DEF CountedBy
  <2> QED BY <2>1, <2>2, <2>4, <2>7
<1> QED BY <1>2, <1>3

(* An iteration comes to record q, which has an entry. *)
LEMMA LockCounted ==
  ASSUME NEW t, WellFormed(t), NEW c \in [Records -> Nat], CountedBy(t, c), NEW q \in Live(t),
         NEW d \in [Records -> Nat], \A r \in Records : d[r] = c[r] + (IF r = q THEN 1 ELSE 0)
  PROVE  WellFormed(LockRecord(t, q)) /\ SameEntries(t, LockRecord(t, q)) /\ CountedBy(LockRecord(t, q), d)
<1>1. \A r \in Records : t.record[r].ref_count \in Nat
  BY StateFacts DEF RecordType
<1>2. q \in ToSet(t.records)
  BY StateFacts
<1>3. PICK u : u = LockRecord(t, q)
  OBVIOUS
<1>4. /\ WellFormed(u) /\ SameEntries(t, u) /\ u.records = t.records
      /\ \A r \in Records : u.record[r].ref_count = IF r = q THEN t.record[r].ref_count + 1 ELSE t.record[r].ref_count
  BY <1>2, <1>3, LockEffect
<1>5. Live(u) = Live(t)
  BY <1>4 DEF SameEntries
<1>6. ASSUME NEW r \in Records
      PROVE  /\ u.record[r].ref_count = d[r] + (IF r \in Live(u) THEN 1 ELSE 0)
             /\ r \in ToSet(u.records) <=> u.record[r].ref_count > 0
  <2>1. /\ t.record[r].ref_count = c[r] + (IF r \in Live(t) THEN 1 ELSE 0)
        /\ r \in ToSet(t.records) <=> t.record[r].ref_count > 0
        /\ c[r] \in Nat /\ d[r] = c[r] + (IF r = q THEN 1 ELSE 0)
    BY DEF CountedBy
  <2>2. CASE r = q
    BY <2>1, <2>2, <1>1, <1>2, <1>4, <1>5
  <2>3. CASE r # q
    BY <2>1, <2>3, <1>1, <1>4, <1>5
  <2> QED BY <2>2, <2>3
<1>7. CountedBy(u, d)
  BY <1>6 DEF CountedBy
<1> QED BY <1>3, <1>4, <1>7

(* Having the same entries carries over. *)
LEMMA SameEntriesTransitive ==
  ASSUME NEW t, NEW u, NEW w, SameEntries(t, u), SameEntries(u, w)
  PROVE  SameEntries(t, w)
<1>1. ToSet(w.records) \subseteq ToSet(u.records) /\ ToSet(u.records) \subseteq ToSet(t.records)
  BY DEF SameEntries
<1>2. \A a, b \in ToSet(w.records) :
        Place(w.records, a) <= Place(w.records, b) <=> Place(t.records, a) <= Place(t.records, b)
  BY <1>1 DEF SameEntries
<1> QED BY <1>1, <1>2 DEF SameEntries

(* An iteration leaves record p and comes to the next one, q. *)
LEMMA MoveCounted ==
  ASSUME NEW t, WellFormed(t), NEW c \in [Records -> Nat], CountedBy(t, c),
         NEW p \in Records \cup {NULL}, p # NULL => c[p] > 0, NEW q \in Live(t),
         NEW d \in [Records -> Nat],
         \A r \in Records : d[r] = (c[r] - (IF r = p THEN 1 ELSE 0)) + (IF r = q THEN 1 ELSE 0)
  PROVE  /\ WellFormed(LockRecord(Leave(t, p), q)) /\ SameEntries(t, LockRecord(Leave(t, p), q))
         /\ CountedBy(LockRecord(Leave(t, p), q), d)
<1>1. PICK e : e = [r \in Records |-> c[r] - (IF r = p THEN 1 ELSE 0)]
  OBVIOUS
<1>2. e \in [Records -> Nat] /\ \A r \in Records : e[r] = c[r] - (IF r = p THEN 1 ELSE 0)
  <2>1. ASSUME NEW r \in Records PROVE c[r] - (IF r = p THEN 1 ELSE 0) \in Nat
    <3>1. NULL \notin Records
      BY DEF NULL, Records
    <3>2. c[r] \in Nat /\ (r = p => c[r] > 0)
      BY <3>1
    <3> QED BY <3>2
  <2> QED BY <1>1, <2>1
<1>3. PICK u : u = Leave(t, p)
  OBVIOUS
<1>4. WellFormed(u) /\ SameEntries(t, u) /\ CountedBy(u, e)
  BY <1>2, <1>3, LeaveCounted
<1>5. q \in Live(u)
  BY <1>4 DEF SameEntries
<1>6. \A r \in Records : d[r] = e[r] + (IF r = q THEN 1 ELSE 0)
  BY <1>2
<1>7. PICK w : w = LockRecord(u, q)
  OBVIOUS
<1>8. WellFormed(w) /\ SameEntries(u, w) /\ CountedBy(w, d)
  BY <1>2, <1>4, <1>5, <1>6, <1>7, LockCounted
<1>9. SameEntries(t, w)
  BY <1>4, <1>8, SameEntriesTransitive
<1> QED BY <1>3, <1>7, <1>8, <1>9

(* map_add_record with record r for key k, which has no entry. *)
LEMMA AddCounted ==
  ASSUME NEW t, WellFormed(t), NEW c \in [Records -> Nat], CountedBy(t, c),
         NEW k \in Keys, NEW r \in Records \ ToSet(t.records),
         \A q \in Live(t) : t.record[q].key # k,
         NEW u \in AddRecord(t, k, r)
  PROVE  /\ WellFormed(u) /\ CountedBy(u, c)
         /\ u.records = Append(t.records, r)
         /\ Live(u) = Live(t) \cup {r} /\ r \notin Live(t)
         /\ Occupied(u) = Append(Occupied(t), r)
         /\ \A q \in Records : q # r => u.record[q] = t.record[q]
         /\ u.record[r].key = k
<1>1. PICK t1 : t1 = LinkRecord(t, k, r)
  OBVIOUS
<1>2. /\ WellFormed(t1) /\ t1.records = Append(t.records, r)
      /\ Live(t1) = Live(t) \cup {r} /\ Occupied(t1) = Append(Occupied(t), r)
      /\ \A q \in Records : q # r => t1.record[q] = t.record[q]
      /\ t1.record[r] = [ref_count |-> 1, empty |-> FALSE, key |-> k, value |-> None]
  BY <1>1, LinkEffect
<1>3. /\ t.records \in Seq(Records) /\ IsInjective(t.records)
      /\ Live(t) \subseteq ToSet(t.records) /\ \A q \in Records : t.record[q].ref_count \in Nat
  BY StateFacts DEF RecordType
<1>4. CountedBy(t1, c)
  <2>1. c[r] = 0 /\ r \notin Live(t)
    <3>1. r \notin Live(t)
      BY <1>3
    <3>2. t.record[r].ref_count = c[r] /\ ~(t.record[r].ref_count > 0) /\ c[r] \in Nat
      BY <3>1, <1>3 DEF CountedBy
    <3> QED BY <3>1, <3>2
  <2>2. ToSet(t1.records) = ToSet(t.records) \cup {r}
    BY <1>2, <1>3, PlaceAppend
  <2>3. t1.record[r].ref_count = 1
    BY <1>2
  <2>4. ASSUME NEW q \in Records
        PROVE  /\ t1.record[q].ref_count = c[q] + (IF q \in Live(t1) THEN 1 ELSE 0)
               /\ q \in ToSet(t1.records) <=> t1.record[q].ref_count > 0
    <3>1. CASE q = r
      BY <3>1, <2>1, <2>2, <2>3, <1>2
    <3>2. CASE q # r
      BY <3>2, <2>2, <1>2 DEF CountedBy
    <3> QED BY <3>1, <3>2
  <2> QED BY <2>4 DEF CountedBy
<1>5. WellFormed(u) /\ u.records = t1.records /\ u.record = t1.record
  <2>1. u = t1 \/ (t1.record_count >= t1.record_count_threshold /\ \E slack \in 0..MaxSlack : u = HashResize(t1, slack))
    BY <1>1 DEF AddRecord
  <2>2. ASSUME t1.record_count >= t1.record_count_threshold, NEW slack \in 0..MaxSlack, u = HashResize(t1, slack)
        PROVE  WellFormed(u) /\ u.records = t1.records /\ u.record = t1.record
    BY <1>2, <2>2, ResizeEffect
  <2> QED BY <1>2, <2>1, <2>2
<1>6. Live(u) = Live(t1) /\ Occupied(u) = Occupied(t1)
  BY <1>5 DEF Live, Occupied
<1>7. CountedBy(u, c)
  BY <1>4, <1>5, <1>6 DEF CountedBy
<1>8. r \notin Live(t)
  BY <1>3
<1> QED BY <1>2, <1>5, <1>6, <1>7, <1>8

(* map_delete_record on a record that has an entry. *)
LEMMA DeleteCounted ==
  ASSUME NEW t, WellFormed(t), NEW c \in [Records -> Nat], CountedBy(t, c), NEW r \in Live(t)
  PROVE  /\ WellFormed(DeleteRecord(t, r)) /\ CountedBy(DeleteRecord(t, r), c)
         /\ t.record[r].ref_count > 0
<1>1. Live(t) \subseteq Records /\ \A q \in Records : t.record[q].ref_count \in Nat
  BY StateFacts DEF RecordType
<1>2. t.record[r].ref_count = c[r] + 1 /\ c[r] \in Nat /\ r \in Records
  BY <1>1 DEF CountedBy
<1>3. PICK u : u = DeleteRecord(t, r)
  OBVIOUS
<1>4. /\ WellFormed(u) /\ Live(u) = Live(t) \ {r}
      /\ \A q \in Records : q # r => u.record[q] = t.record[q]
      /\ u.record[r].ref_count = t.record[r].ref_count - 1
      /\ ToSet(u.records) = {q \in ToSet(t.records) : q = r => t.record[r].ref_count > 1}
  BY <1>2, <1>3, DeleteEffect
<1>5. ASSUME NEW q \in Records
      PROVE  /\ u.record[q].ref_count = c[q] + (IF q \in Live(u) THEN 1 ELSE 0)
             /\ q \in ToSet(u.records) <=> u.record[q].ref_count > 0
  <2>1. /\ t.record[q].ref_count = c[q] + (IF q \in Live(t) THEN 1 ELSE 0)
        /\ q \in ToSet(t.records) <=> t.record[q].ref_count > 0
    BY DEF CountedBy
  <2>2. CASE q = r
    BY <2>1, <2>2, <1>2, <1>4
  <2>3. CASE q # r
    BY <2>1, <2>3, <1>4
  <2> QED BY <2>2, <2>3
<1>6. CountedBy(u, c)
  BY <1>5 DEF CountedBy
<1> QED BY <1>2, <1>3, <1>4, <1>6

(* js_map_clear. *)
LEMMA ClearCounted ==
  ASSUME NEW t, WellFormed(t), NEW c \in [Records -> Nat], CountedBy(t, c)
  PROVE  /\ WellFormed(DeleteAll(t)) /\ CountedBy(DeleteAll(t), c)
         /\ \A r \in Live(t) : t.record[r].ref_count > 0
<1>1. Live(t) \subseteq Records /\ \A q \in Records : t.record[q].ref_count \in Nat
  BY StateFacts DEF RecordType
<1>2. \A r \in Live(t) : t.record[r].ref_count > 0
  BY <1>1 DEF CountedBy
<1>3. PICK u : u = DeleteAll(t)
  OBVIOUS
<1>4. /\ WellFormed(u) /\ Live(u) = {}
      /\ \A q \in Records : u.record[q].ref_count = IF q \in Live(t) THEN t.record[q].ref_count - 1 ELSE t.record[q].ref_count
      /\ ToSet(u.records) = {q \in ToSet(t.records) : q \in Live(t) => t.record[q].ref_count > 1}
  BY <1>2, <1>3, ClearEffect
<1>5. ASSUME NEW q \in Records
      PROVE  /\ u.record[q].ref_count = c[q] + (IF q \in Live(u) THEN 1 ELSE 0)
             /\ q \in ToSet(u.records) <=> u.record[q].ref_count > 0
  <2>1. /\ t.record[q].ref_count = c[q] + (IF q \in Live(t) THEN 1 ELSE 0)
        /\ q \in ToSet(t.records) <=> t.record[q].ref_count > 0
        /\ c[q] \in Nat
    BY DEF CountedBy
  <2>2. CASE q \in Live(t)
    BY <2>1, <2>2, <1>4
  <2>3. CASE q \notin Live(t)
    BY <2>1, <2>3, <1>4
  <2> QED BY <2>2, <2>3
<1>6. CountedBy(u, c)
  BY <1>5 DEF CountedBy
<1> QED BY <1>2, <1>3, <1>4, <1>6

(* A record with another value. *)
LEMMA ValueCounted ==
  ASSUME NEW t, WellFormed(t), NEW c \in [Records -> Nat], CountedBy(t, c),
         NEW r \in Live(t), NEW v \in Values
  PROVE  CountedBy([t EXCEPT !.record[r].value = v], c)
<1>1. PICK u : u = [t EXCEPT !.record[r].value = v]
  OBVIOUS
<1>2. /\ u.records = t.records /\ Live(u) = Live(t)
      /\ \A q \in Records : u.record[q].ref_count = t.record[q].ref_count
  BY <1>1, ValueEffect
<1>3. CountedBy(u, c)
  BY <1>2 DEF CountedBy
<1> QED BY <1>1, <1>3

(* Keys that scripts use become keys of the map. *)
LEMMA NormalizeType ==
  ASSUME NEW k \in Keys \cup {NegZero}
  PROVE  Normalize(k) \in Keys
BY MapAssumption DEF Normalize

(* Where the iterations are after a step of an iterator, and after one of a loop. *)
LEMMA CursorsMove ==
  ASSUME IteratorsWellFormed, loops \in Seq(Records)
  PROVE  /\ \A i \in Iterators : \A to \in IteratorType : \A jt :
              jt[i] = to /\ (\A j \in Iterators : j # i => jt[j] = iter[j]) =>
              /\ CursorCounts(jt, loops) \in [Records -> Nat]
              /\ \A r \in Records :
                   CursorCounts(jt, loops)[r]
                     = (CursorCounts(iter, loops)[r] - (IF r = iter[i].cur_record THEN 1 ELSE 0))
                         + (IF r = to.cur_record THEN 1 ELSE 0)
         /\ \A q \in Records : \A r \in Records :
              CursorCounts(iter, Append(loops, q))[r] = CursorCounts(iter, loops)[r] + (IF r = q THEN 1 ELSE 0)
         /\ loops # <<>> =>
              /\ Front(loops) \in Seq(Records) /\ Last(loops) \in Records
              /\ \A r \in Records : CursorCounts(iter, Front(loops))[r]
                                      = CursorCounts(iter, loops)[r] - (IF r = Last(loops) THEN 1 ELSE 0)
<1>1. \A l \in Seq(Records) : \A r \in Records : LoopsAt(l, r) \in Nat /\ IteratorsAt(iter, r) \in Nat
  BY CursorTypes
<1>2. ASSUME NEW i \in Iterators, NEW to \in IteratorType, NEW jt,
             jt[i] = to, \A j \in Iterators : j # i => jt[j] = iter[j]
      PROVE  /\ CursorCounts(jt, loops) \in [Records -> Nat]
             /\ \A r \in Records :
                  CursorCounts(jt, loops)[r]
                    = (CursorCounts(iter, loops)[r] - (IF r = iter[i].cur_record THEN 1 ELSE 0))
                        + (IF r = to.cur_record THEN 1 ELSE 0)
  <2>1. PICK it \in [Iterators -> IteratorType] : it = iter
    BY DEF IteratorsWellFormed
  <2>2. \A r \in Records : IteratorsAt(jt, r) + LoopsAt(loops, r) \in Nat
    <3>1. \A r \in Records : IteratorsAt(jt, r) \in Nat /\ LoopsAt(loops, r) \in Nat
      BY CursorTypes
    <3> QED BY <3>1
  <2>3. CursorCounts(jt, loops) \in [Records -> Nat]
    BY <2>2 DEF CursorCounts
  <2>4. ASSUME NEW r \in Records
        PROVE  CursorCounts(jt, loops)[r]
                 = (CursorCounts(iter, loops)[r] - (IF r = iter[i].cur_record THEN 1 ELSE 0))
                     + (IF r = to.cur_record THEN 1 ELSE 0)
    <3>1. jt[i] = to /\ \A j \in Iterators : j # i => jt[j] = it[j]
      BY <1>2, <2>1
    <3>2. /\ it[i].cur_record = r /\ to.cur_record = r => IteratorsAt(jt, r) = IteratorsAt(it, r)
          /\ it[i].cur_record = r /\ to.cur_record # r => IteratorsAt(jt, r) = IteratorsAt(it, r) - 1
          /\ it[i].cur_record # r /\ to.cur_record = r => IteratorsAt(jt, r) = IteratorsAt(it, r) + 1
          /\ it[i].cur_record # r /\ to.cur_record # r => IteratorsAt(jt, r) = IteratorsAt(it, r)
      BY ONLY <3>1, IteratorMoves
    <3>3. /\ CursorCounts(jt, loops)[r] = IteratorsAt(jt, r) + LoopsAt(loops, r)
          /\ CursorCounts(iter, loops)[r] = IteratorsAt(it, r) + LoopsAt(loops, r)
      BY <2>1 DEF CursorCounts
    <3>4. IteratorsAt(it, r) \in Nat /\ LoopsAt(loops, r) \in Nat
      BY <1>1, <2>1
    <3> QED BY <2>1, <3>2, <3>3, <3>4
  <2> QED BY <2>3, <2>4
<1>3. ASSUME NEW q \in Records, NEW r \in Records
      PROVE CursorCounts(iter, Append(loops, q))[r] = CursorCounts(iter, loops)[r] + (IF r = q THEN 1 ELSE 0)
  <2>1. LoopsAt(Append(loops, q), r) = LoopsAt(loops, r) + (IF q = r THEN 1 ELSE 0)
    BY LoopStarts
  <2> QED BY <1>1, <2>1 DEF CursorCounts
<1>4. ASSUME loops # <<>>
      PROVE  /\ Front(loops) \in Seq(Records) /\ Last(loops) \in Records
             /\ \A r \in Records : CursorCounts(iter, Front(loops))[r]
                                     = CursorCounts(iter, loops)[r] - (IF r = Last(loops) THEN 1 ELSE 0)
  <2>1. Front(loops) \in Seq(Records) /\ Last(loops) \in Records
    BY <1>4, LoopEnds
  <2>2. ASSUME NEW r \in Records
        PROVE CursorCounts(iter, Front(loops))[r] = CursorCounts(iter, loops)[r] - (IF r = Last(loops) THEN 1 ELSE 0)
    <3>1. LoopsAt(loops, r) = LoopsAt(Front(loops), r) + (IF Last(loops) = r THEN 1 ELSE 0)
      BY <1>4, LoopEnds
    <3> QED BY <1>1, <2>1, <3>1 DEF CursorCounts
  <2> QED BY <2>1, <2>2
<1> QED BY <1>2, <1>3, <1>4

(* The record an iteration is at is counted for it. *)
LEMMA CursorCounted ==
  ASSUME IteratorsWellFormed, loops \in Seq(Records)
  PROVE  /\ \A i \in Iterators : iter[i].cur_record \in Records \cup {NULL}
         /\ \A i \in Iterators : iter[i].cur_record # NULL => CursorCounts(iter, loops)[iter[i].cur_record] > 0
         /\ loops # <<>> => CursorCounts(iter, loops)[Last(loops)] > 0
<1>1. \A r \in Records : \A l \in Seq(Records) : LoopsAt(l, r) \in Nat /\ IteratorsAt(iter, r) \in Nat
  BY CursorTypes
<1>2. iter \in [Iterators -> IteratorType]
  BY DEF IteratorsWellFormed
<1>3. \A i \in Iterators : iter[i].cur_record \in Records \cup {NULL}
  BY <1>2 DEF IteratorType
<1>4. ASSUME NEW i \in Iterators, iter[i].cur_record # NULL
      PROVE  CursorCounts(iter, loops)[iter[i].cur_record] > 0
  <2>1. PICK r \in Records : r = iter[i].cur_record
    BY <1>3, <1>4
  <2>2. PICK A : A = {j \in Iterators : iter[j].cur_record = r}
    OBVIOUS
  <2>3. IsFiniteSet(A) /\ A # {}
    <3>1. IsFiniteSet(Iterators) /\ A \in SUBSET Iterators
      BY <2>2, MapAssumption
    <3> QED BY <3>1, <2>1, <2>2, FS_Subset
  <2>4. IteratorsAt(iter, r) # 0
    BY <2>2, <2>3, FS_EmptySet DEF IteratorsAt
  <2> QED BY <1>1, <2>1, <2>4 DEF CursorCounts
<1>5. ASSUME loops # <<>> PROVE CursorCounts(iter, loops)[Last(loops)] > 0
  <2>1. Front(loops) \in Seq(Records) /\ Last(loops) \in Records
    BY <1>5, LoopEnds
  <2>2. LoopsAt(loops, Last(loops)) = LoopsAt(Front(loops), Last(loops)) + 1
    BY <1>5, LoopEnds
  <2> QED BY <1>1, <2>1, <2>2 DEF CursorCounts
<1> QED BY <1>3, <1>4, <1>5

-----------------------------------------------------------------------------
(* What has to be shown of the state after a step. *)
LEMMA AfterStep ==
  ASSUME WellFormed(s'), CountedBy(s', CursorCounts(iter', loops')),
         IteratorsWellFormed', loops' \in Seq(Records)
  PROVE  MapInv'
<1>1. \A r \in Records : Cursors(r)' = CursorCounts(iter', loops')[r]
  BY DEF Cursors, CursorCounts, IteratorsAt, LoopsAt
<1>2. \A r \in Records : r \in Live(s') <=> ~s'.record[r].empty
  BY DEF Live
<1>3. RecordsCounted'
  BY <1>1, <1>2 DEF RecordsCounted, CountedBy
<1> QED BY <1>3 DEF MapInv

(* js_map_set keeps MapInv. *)
LEMMA SetStep ==
  ASSUME MapInv, NEW k \in Keys \cup {NegZero}, NEW v \in Values, Set(k, v)
  PROVE  MapInv'
<1>1. PICK c : c = CursorCounts(iter, loops)
  OBVIOUS
<1>2. WellFormed(s) /\ c \in [Records -> Nat] /\ CountedBy(s, c) /\ IteratorsWellFormed /\ loops \in Seq(Records)
  BY <1>1, CountedDef DEF MapInv
<1>3. PICK n : n = Normalize(k)
  OBVIOUS
<1>4. n \in Keys
  BY <1>3, NormalizeType
<1>5. iter' = iter /\ loops' = loops
  BY DEF Set
<1>6. WellFormed(s') /\ CountedBy(s', c)
  <2>1. PICK r : r = FindRecord(s, n)
    OBVIOUS
  <2>2. (r = NULL /\ \A q \in Live(s) : s.record[q].key # n) \/ (r \in Live(s) /\ r # NULL)
    BY <1>2, <1>4, <2>1, FindRecordFinds
  <2>3. CASE r # NULL
    <3>1. s' = [s EXCEPT !.record[r].value = v]
      BY <1>3, <2>1, <2>3 DEF Set
    <3>2. r \in Live(s)
      BY <2>2, <2>3
    <3>3. WellFormed([s EXCEPT !.record[r].value = v])
      BY <1>2, <3>2, ValueEffect
    <3>4. CountedBy([s EXCEPT !.record[r].value = v], c)
      BY <1>2, <3>2, ValueCounted
    <3> QED BY <3>1, <3>3, <3>4
  <2>4. CASE r = NULL
    <3>1. PICK q \in Records \ ToSet(s.records) : \E t \in AddRecord(s, n, q) : s' = [t EXCEPT !.record[q].value = v]
      BY <1>3, <2>1, <2>4 DEF Set
    <3>2. PICK t \in AddRecord(s, n, q) : s' = [t EXCEPT !.record[q].value = v]
      BY <3>1
    <3>3. \A p \in Live(s) : s.record[p].key # n
      BY <2>2, <2>4
    <3>4. WellFormed(t) /\ CountedBy(t, c) /\ q \in Live(t)
      BY <1>2, <1>4, <3>3, AddCounted
    <3>5. WellFormed([t EXCEPT !.record[q].value = v])
      BY <3>4, ValueEffect
    <3>6. CountedBy([t EXCEPT !.record[q].value = v], c)
      BY <1>2, <3>4, ValueCounted
    <3> QED BY <3>2, <3>5, <3>6
  <2> QED BY <2>3, <2>4
<1>7. IteratorsWellFormed'
  BY <1>2, <1>5 DEF IteratorsWellFormed
<1> QED BY <1>1, <1>2, <1>5, <1>6, <1>7, AfterStep

(* js_map_delete keeps MapInv. *)
LEMMA DeleteStep ==
  ASSUME MapInv, NEW k \in Keys \cup {NegZero}, Delete(k)
  PROVE  MapInv'
<1>1. PICK c : c = CursorCounts(iter, loops)
  OBVIOUS
<1>2. WellFormed(s) /\ c \in [Records -> Nat] /\ CountedBy(s, c) /\ IteratorsWellFormed /\ loops \in Seq(Records)
  BY <1>1, CountedDef DEF MapInv
<1>3. PICK r : r = FindRecord(s, Normalize(k))
  OBVIOUS
<1>4. r = NULL \/ r \in Live(s)
  BY <1>2, <1>3, NormalizeType, FindRecordFinds
<1>5. s' = (IF r = NULL THEN s ELSE DeleteRecord(s, r)) /\ iter' = iter /\ loops' = loops
  BY <1>3 DEF Delete
<1>6. WellFormed(s') /\ CountedBy(s', c)
  <2>1. CASE r = NULL
    BY <1>2, <1>5, <2>1
  <2>2. CASE r # NULL
    <3>1. r \in Live(s) /\ s' = DeleteRecord(s, r)
      BY <1>4, <1>5, <2>2
    <3> QED BY <1>2, <3>1, DeleteCounted
  <2> QED BY <2>1, <2>2
<1>7. IteratorsWellFormed'
  BY <1>2, <1>5 DEF IteratorsWellFormed
<1> QED BY <1>1, <1>2, <1>5, <1>6, <1>7, AfterStep

(* js_map_clear keeps MapInv. *)
LEMMA ClearStep ==
  ASSUME MapInv, Clear
  PROVE  MapInv'
<1>1. PICK c : c = CursorCounts(iter, loops)
  OBVIOUS
<1>2. WellFormed(s) /\ c \in [Records -> Nat] /\ CountedBy(s, c) /\ IteratorsWellFormed /\ loops \in Seq(Records)
  BY <1>1, CountedDef DEF MapInv
<1>3. s' = DeleteAll(s) /\ iter' = iter /\ loops' = loops
  BY DEF Clear
<1>4. WellFormed(s') /\ CountedBy(s', c)
  BY <1>2, <1>3, ClearCounted
<1>5. IteratorsWellFormed'
  BY <1>2, <1>3 DEF IteratorsWellFormed
<1> QED BY <1>1, <1>2, <1>3, <1>4, <1>5, AfterStep

(* A step that changes neither the map nor where iterations are. *)
LEMMA QuietStep ==
  ASSUME MapInv, UNCHANGED <<s, iter, loops>>
  PROVE  MapInv'
<1>1. Cursors(1)' = Cursors(1) /\ \A r : Cursors(r)' = Cursors(r)
  BY DEF Cursors
<1>2. RecordsCounted' /\ IteratorsWellFormed'
  BY <1>1 DEF MapInv, RecordsCounted, IteratorsWellFormed
<1> QED BY <1>2 DEF MapInv

(* An iterator moves to another state, and the map with it. *)
LEMMA IteratorStep ==
  ASSUME MapInv, NEW i \in Iterators, NEW to \in IteratorType,
         iter' = [iter EXCEPT ![i] = to], loops' = loops,
         ~to.open => ~to.obj, ~to.obj => to.cur_record = NULL,
         to.cur_record = NULL \/ to.cur_record \in Live(s),
         s' = IF to.cur_record = NULL THEN Leave(s, iter[i].cur_record)
              ELSE LockRecord(Leave(s, iter[i].cur_record), to.cur_record)
  PROVE  MapInv' /\ SameEntries(s, s')
<1>1. PICK c : c = CursorCounts(iter, loops)
  OBVIOUS
<1>2. WellFormed(s) /\ c \in [Records -> Nat] /\ CountedBy(s, c) /\ IteratorsWellFormed /\ loops \in Seq(Records)
  BY <1>1, CountedDef DEF MapInv
<1>3. PICK p \in Records \cup {NULL} : p = iter[i].cur_record
  BY <1>2, CursorCounted
<1>4. p # NULL => c[p] > 0
  BY <1>1, <1>2, <1>3, CursorCounted
<1>5. PICK d : d = CursorCounts(iter', loops')
  OBVIOUS
<1>6. /\ d \in [Records -> Nat]
      /\ \A r \in Records : d[r] = (c[r] - (IF r = p THEN 1 ELSE 0)) + (IF r = to.cur_record THEN 1 ELSE 0)
  <2>1. PICK jt : jt = iter'
    OBVIOUS
  <2>2. jt[i] = to /\ \A j \in Iterators : j # i => jt[j] = iter[j]
    BY <1>2, <2>1 DEF IteratorsWellFormed
  <2>3. /\ CursorCounts(jt, loops) \in [Records -> Nat]
        /\ \A r \in Records :
             CursorCounts(jt, loops)[r]
               = (CursorCounts(iter, loops)[r] - (IF r = iter[i].cur_record THEN 1 ELSE 0))
                   + (IF r = to.cur_record THEN 1 ELSE 0)
    BY <1>2, <2>2, CursorsMove
  <2>4. CursorCounts(jt, loops) = d
    BY <1>5, <2>1
  <2> QED BY <1>1, <1>3, <2>3, <2>4
<1>8. WellFormed(s') /\ SameEntries(s, s') /\ CountedBy(s', d)
  <2>0. NULL \notin Records
    BY DEF NULL, Records
  <2>1. CASE to.cur_record = NULL
    <3>1. \A r \in Records : r # to.cur_record /\ c[r] \in Nat
      BY <1>2, <2>0, <2>1
    <3>2. \A r \in Records : d[r] = c[r] - (IF r = p THEN 1 ELSE 0)
      BY <1>6, <3>1
    <3>3. s' = Leave(s, p)
      BY <1>3, <2>1
    <3>4. WellFormed(Leave(s, p)) /\ SameEntries(s, Leave(s, p)) /\ CountedBy(Leave(s, p), d)
      BY <1>2, <1>4, <1>6, <3>2, LeaveCounted
    <3> QED BY <3>3, <3>4
  <2>2. CASE to.cur_record # NULL
    <3>1. PICK q \in Live(s) : q = to.cur_record
      BY <2>2
    <3>2. s' = LockRecord(Leave(s, p), q)
      BY <1>3, <2>2, <3>1
    <3>3. \A r \in Records : d[r] = (c[r] - (IF r = p THEN 1 ELSE 0)) + (IF r = q THEN 1 ELSE 0)
      BY <1>6, <3>1
    <3>4. /\ WellFormed(LockRecord(Leave(s, p), q)) /\ SameEntries(s, LockRecord(Leave(s, p), q))
          /\ CountedBy(LockRecord(Leave(s, p), q), d)
      BY <1>2, <1>4, <1>6, <3>3, MoveCounted
    <3> QED BY <3>2, <3>4
  <2> QED BY <2>1, <2>2
<1>9. IteratorsWellFormed'
  BY <1>2 DEF IteratorsWellFormed
<1> QED BY <1>2, <1>5, <1>8, <1>9, AfterStep

(* A loop moves from record r to record q, or starts or ends, and the map with it. *)
LEMMA LoopStep ==
  ASSUME MapInv, NEW outer \in Seq(Records), NEW p \in Records \cup {NULL}, NEW q \in Live(s) \cup {NULL},
         p = NULL => loops = outer, p # NULL => loops = Append(outer, p),
         q = NULL => loops' = outer, q # NULL => loops' = Append(outer, q),
         q = NULL => s' = Leave(s, p), q # NULL => s' = LockRecord(Leave(s, p), q),
         iter' = iter
  PROVE  MapInv' /\ SameEntries(s, s')
<1>1. PICK c : c = CursorCounts(iter, loops)
  OBVIOUS
<1>2. WellFormed(s) /\ c \in [Records -> Nat] /\ CountedBy(s, c) /\ IteratorsWellFormed /\ loops \in Seq(Records)
  BY <1>1, CountedDef DEF MapInv
<1>3. NULL \notin Records /\ Live(s) \subseteq Records
  BY <1>2, StateFacts DEF NULL, Records
<1>4. PICK e : e = [r \in Records |-> IteratorsAt(iter, r) + LoopsAt(outer, r)]
  OBVIOUS
<1>5. \A r \in Records : IteratorsAt(iter, r) \in Nat /\ LoopsAt(outer, r) \in Nat
  BY CursorTypes
<1>6. \A r \in Records : \A x \in Records :
        LoopsAt(Append(outer, x), r) = LoopsAt(outer, r) + (IF x = r THEN 1 ELSE 0)
  BY LoopStarts
<1>7. \A r \in Records : c[r] = e[r] + (IF r = p THEN 1 ELSE 0) /\ e[r] \in Nat
  <2>1. \A r \in Records : c[r] = IteratorsAt(iter, r) + LoopsAt(loops, r)
    BY <1>1 DEF CursorCounts
  <2>2. \A r \in Records : e[r] = IteratorsAt(iter, r) + LoopsAt(outer, r) /\ e[r] \in Nat
    BY <1>4, <1>5
  <2>3. CASE p = NULL
    BY <1>3, <2>1, <2>2, <2>3
  <2>4. CASE p # NULL
    <3>1. \A r \in Records : LoopsAt(loops, r) = LoopsAt(outer, r) + (IF p = r THEN 1 ELSE 0)
      BY <1>6, <2>4
    <3> QED BY <1>5, <2>1, <2>2, <3>1
  <2> QED BY <2>3, <2>4
<1>8. PICK d : d = [r \in Records |-> e[r] + (IF r = q THEN 1 ELSE 0)]
  OBVIOUS
<1>9. d \in [Records -> Nat] /\ \A r \in Records : d[r] = e[r] + (IF r = q THEN 1 ELSE 0)
  BY <1>7, <1>8
<1>10. p # NULL => c[p] > 0
  BY <1>7
<1>11. CursorCounts(iter', loops') = d
  <2>1. PICK l2 : l2 = loops'
    OBVIOUS
  <2>2. \A r \in Records : IteratorsAt(iter, r) + LoopsAt(l2, r) = d[r]
    <3>1. \A r \in Records : e[r] = IteratorsAt(iter, r) + LoopsAt(outer, r)
      BY <1>4
    <3>2. CASE q = NULL
      <4>1. l2 = outer /\ q \notin Records
        BY <1>3, <2>1, <3>2
      <4>2. \A r \in Records : d[r] = e[r]
        BY <1>7, <1>9, <4>1
      <4> QED BY <3>1, <4>1, <4>2
    <3>3. CASE q # NULL
      <4>1. \A r \in Records : LoopsAt(l2, r) = LoopsAt(outer, r) + (IF q = r THEN 1 ELSE 0)
        BY <1>3, <1>6, <2>1, <3>3
      <4> QED BY <1>5, <1>9, <3>1, <4>1
    <3> QED BY <3>2, <3>3
  <2>3. CursorCounts(iter, l2) = d
    BY <1>9, <2>2 DEF CursorCounts
  <2> QED BY <2>1, <2>3
<1>12. WellFormed(s') /\ SameEntries(s, s') /\ CountedBy(s', d)
  <2>1. CASE q = NULL
    <3>1. \A r \in Records : d[r] = c[r] - (IF r = p THEN 1 ELSE 0)
      BY <1>3, <1>7, <1>9, <2>1
    <3>2. WellFormed(Leave(s, p)) /\ SameEntries(s, Leave(s, p)) /\ CountedBy(Leave(s, p), d)
      BY <1>2, <1>9, <1>10, <3>1, LeaveCounted
    <3> QED BY <2>1, <3>2
  <2>2. CASE q # NULL
    <3>1. \A r \in Records : d[r] = (c[r] - (IF r = p THEN 1 ELSE 0)) + (IF r = q THEN 1 ELSE 0)
      BY <1>7, <1>9
    <3>2. q \in Live(s)
      BY <2>2
    <3>3. /\ WellFormed(LockRecord(Leave(s, p), q)) /\ SameEntries(s, LockRecord(Leave(s, p), q))
          /\ CountedBy(LockRecord(Leave(s, p), q), d)
      BY <1>2, <1>9, <1>10, <3>1, <3>2, MoveCounted
    <3> QED BY <2>2, <3>3
  <2> QED BY <2>1, <2>2
<1>13. IteratorsWellFormed'
  BY <1>2 DEF IteratorsWellFormed
<1>14. loops' \in Seq(Records)
  BY <1>3
<1> QED BY <1>11, <1>12, <1>13, <1>14, AfterStep

(* The record an iteration is at is in the list. *)
LEMMA CursorListed ==
  ASSUME MapInv
  PROVE  /\ \A i \in Iterators : iter[i].cur_record = NULL \/ iter[i].cur_record \in ToSet(s.records)
         /\ loops # <<>> => Last(loops) \in ToSet(s.records)
<1>1. PICK c : c = CursorCounts(iter, loops)
  OBVIOUS
<1>2. WellFormed(s) /\ c \in [Records -> Nat] /\ CountedBy(s, c) /\ IteratorsWellFormed /\ loops \in Seq(Records)
  BY <1>1, CountedDef DEF MapInv
<1>3. \A r \in Records : c[r] > 0 => r \in ToSet(s.records)
  BY <1>2 DEF CountedBy
<1>4. loops # <<>> => Last(loops) \in Records
  BY <1>2, CursorsMove
<1> QED BY <1>1, <1>2, <1>3, <1>4, CursorCounted

(* js_create_map_iterator, js_map_iterator_next and js_map_iterator_finalizer *)
(* keep MapInv, and the entries of the map.                                   *)
LEMMA IteratorSteps ==
  ASSUME MapInv, NEW i \in Iterators, CreateIterator(i) \/ IteratorNext(i) \/ FreeIterator(i)
  PROVE  MapInv' /\ SameEntries(s, s')
<1>1. /\ WellFormed(s) /\ iter \in [Iterators -> IteratorType] /\ loops \in Seq(Records)
      /\ (~iter[i].open => ~iter[i].obj) /\ (~iter[i].obj => iter[i].cur_record = NULL)
  BY DEF MapInv, IteratorsWellFormed
<1>2. loops' = loops
  BY DEF CreateIterator, IteratorNext, FreeIterator
<1>3. Live(s) \subseteq Records /\ NULL \notin Records
  BY <1>1, StateFacts DEF NULL, Records
<1>4. CASE CreateIterator(i)
  <2>1. PICK to : to = [open |-> TRUE, obj |-> TRUE, cur_record |-> NULL]
    OBVIOUS
  <2>2. /\ to \in IteratorType /\ (~to.open => ~to.obj) /\ (~to.obj => to.cur_record = NULL)
        /\ to.cur_record = NULL
    BY <2>1 DEF IteratorType
  <2>3. iter' = [iter EXCEPT ![i] = to]
    BY <1>4, <2>1 DEF CreateIterator
  <2>4. s' = Leave(s, iter[i].cur_record)
    BY <1>1, <1>4 DEF CreateIterator, Leave
  <2> QED BY <1>2, <2>2, <2>3, <2>4, IteratorStep
<1>5. CASE FreeIterator(i)
  <2>1. PICK to : to = NoIterator
    OBVIOUS
  <2>2. /\ to \in IteratorType /\ (~to.open => ~to.obj) /\ (~to.obj => to.cur_record = NULL)
        /\ to.cur_record = NULL
    BY <2>1 DEF IteratorType, NoIterator
  <2>3. iter' = [iter EXCEPT ![i] = to] /\ s' = Leave(s, iter[i].cur_record)
    BY <1>5, <2>1 DEF FreeIterator
  <2> QED BY <1>2, <2>2, <2>3, IteratorStep
<1>6. CASE IteratorNext(i)
  <2>1. PICK next : next = Following(s, iter[i].cur_record)
    OBVIOUS
  <2>2. next = NULL \/ next \in Live(s)
    BY <1>1, <2>1, CursorListed, FollowingFinds
  <2>3. CASE iter[i].obj /\ next # NULL
    <3>1. PICK to : to = [open |-> iter[i].open, obj |-> iter[i].obj, cur_record |-> next]
      OBVIOUS
    <3>2. /\ to \in IteratorType /\ (~to.open => ~to.obj) /\ (~to.obj => to.cur_record = NULL)
          /\ to.cur_record = next
      BY <1>1, <1>3, <2>2, <2>3, <3>1 DEF IteratorType
    <3>3. iter' = [iter EXCEPT ![i] = to]
      BY <1>1, <1>6, <2>1, <2>3, <3>1 DEF IteratorNext, IteratorType
    <3>4. s' = LockRecord(Leave(s, iter[i].cur_record), next)
      BY <1>6, <2>1, <2>3 DEF IteratorNext
    <3> QED BY <1>2, <2>2, <2>3, <3>2, <3>3, <3>4, IteratorStep
  <2>4. CASE ~(iter[i].obj /\ next # NULL)
    <3>1. PICK to : to = [open |-> iter[i].open, obj |-> FALSE, cur_record |-> NULL]
      OBVIOUS
    <3>2. /\ to \in IteratorType /\ (~to.open => ~to.obj) /\ (~to.obj => to.cur_record = NULL)
          /\ to.cur_record = NULL
      BY <1>1, <3>1 DEF IteratorType
    <3>3. iter' = [iter EXCEPT ![i] = to]
      BY <1>1, <1>6, <2>1, <2>4, <3>1 DEF IteratorNext, IteratorType
    <3>4. s' = Leave(s, iter[i].cur_record)
      BY <1>1, <1>6, <2>1, <2>4 DEF IteratorNext, Leave
    <3> QED BY <1>2, <3>2, <3>3, <3>4, IteratorStep
  <2> QED BY <2>3, <2>4
<1> QED BY <1>4, <1>5, <1>6

(* js_map_forEach keeps MapInv and the entries of the map, whatever its callback *)
(* does.                                                                        *)
LEMMA LoopSteps ==
  ASSUME MapInv, ForEach \/ CallbackReturns \/ CallbackThrows
  PROVE  MapInv' /\ SameEntries(s, s')
<1>1. WellFormed(s) /\ loops \in Seq(Records)
  BY DEF MapInv
<1>2. NULL \notin Records
  BY DEF NULL, Records
<1>3. ASSUME NEW outer \in Seq(Records), NEW p \in Records \cup {NULL}, p = NULL \/ p \in ToSet(s.records),
             p = NULL => loops = outer, p # NULL => loops = Append(outer, p), Visit(outer, p)
      PROVE  MapInv' /\ SameEntries(s, s')
  <2>1. PICK q : q = Following(s, p)
    OBVIOUS
  <2>2. q \in Live(s) \cup {NULL}
    BY <1>1, <1>3, <2>1, FollowingFinds
  <2>3. /\ q = NULL => loops' = outer /\ s' = Leave(s, p)
        /\ q # NULL => loops' = Append(outer, q) /\ s' = LockRecord(Leave(s, p), q)
        /\ iter' = iter
    BY <1>3, <2>1 DEF Visit
  <2> QED BY <1>3, <2>2, <2>3, LoopStep
<1>4. CASE ForEach
  <2>1. Visit(loops, NULL)
    BY <1>4 DEF ForEach
  <2> QED BY <1>1, <1>3, <2>1
<1>5. ASSUME loops # <<>>
      PROVE  /\ Front(loops) \in Seq(Records) /\ Last(loops) \in Records /\ Last(loops) \in ToSet(s.records)
             /\ loops = Append(Front(loops), Last(loops)) /\ Last(loops) # NULL
  <2>1. Front(loops) \in Seq(Records) /\ Last(loops) \in Records /\ loops = Append(Front(loops), Last(loops))
    BY <1>1, <1>5, LoopEnds
  <2> QED BY <1>2, <1>5, <2>1, CursorListed
<1>6. CASE CallbackReturns
  <2>1. loops # <<>> /\ Visit(Front(loops), Last(loops))
    BY <1>6 DEF CallbackReturns
  <2> QED BY <1>3, <1>5, <2>1
<1>7. CASE CallbackThrows
  <2>1. loops # <<>> /\ s' = DecrefRecord(s, Last(loops)) /\ loops' = Front(loops) /\ iter' = iter
    BY <1>7 DEF CallbackThrows
  <2>2. s' = Leave(s, Last(loops))
    BY <1>5, <2>1 DEF Leave
  <2>3. NULL \in Live(s) \cup {NULL}
    OBVIOUS
  <2> QED BY <1>5, <2>1, <2>2, <2>3, LoopStep
<1> QED BY <1>4, <1>6, <1>7

(* A new map has MapInv. *)
LEMMA InitInv ==
  ASSUME Init
  PROVE  MapInv
<1>1. MaxRecords \in Nat /\ FirstThreshold \in Nat /\ MaxSlack \in Nat
  BY MapAssumption
<1>2. 1 \in 1..MaxHashSize
  BY <1>1 DEF MaxHashSize
<1>3. s \in MapState(1)
  <2>1. Free \in RecordType
    BY DEF Free, RecordType
  <2>2. <<>> \in Seq(Records) /\ 0..(1 - 1) = {0}
    OBVIOUS
  <2>3. [h \in {0} |-> <<>>] \in [0..(1 - 1) -> Seq(Records)] /\ [r \in Records |-> Free] \in [Records -> RecordType]
    BY <2>1, <2>2
  <2> QED BY <1>1, <2>2, <2>3 DEF Init, MapState
<1>4. Live(s) = {} /\ s.records = <<>> /\ s.record_count = 0 /\ s.record_count_threshold = FirstThreshold
  BY DEF Init, Live, Free
<1>5. HashSize(s) = 1 /\ DOMAIN s.hash_table = 0..0
  <2>1. DOMAIN s.hash_table = {0}
    BY DEF Init
  <2>2. Cardinality({0}) = 1
    BY FS_Singleton
  <2>3. {0} = 0..0
    OBVIOUS
  <2> QED BY <2>1, <2>2, <2>3 DEF HashSize
<1>6. IsInjective(s.records)
  BY <1>4 DEF IsInjective
<1>7. Exact(s)
  <2>1. \A S : Sublist(s.records, S) = <<>>
    <3>1. s.records \in Seq(Records) /\ ToSet(s.records) = {}
      BY <1>4 DEF ToSet
    <3> QED BY <1>6, <3>1, SublistNone
  <2>2. Chains(s, HashSize(s)) = [h \in {0} |-> <<>>]
    <3>1. 0..(HashSize(s) - 1) = {0}
      BY <1>5
    <3> QED BY <2>1, <3>1 DEF Chains
  <2>3. s.hash_table = [h \in {0} |-> <<>>]
    BY DEF Init
  <2> QED BY <1>4, <2>2, <2>3, FS_EmptySet DEF Exact
<1>8. WellFormed(s)
  BY <1>2, <1>3, <1>4, <1>5, <1>6, <1>7 DEF WellFormed, KeysOnce
<1>9. IteratorsWellFormed /\ loops \in Seq(Records)
  BY DEF Init, IteratorsWellFormed, IteratorType, NoIterator
<1>10. RecordsCounted
  <2>1. ASSUME NEW r \in Records
        PROVE  Cursors(r) = 0
    <3>1. {i \in Iterators : iter[i].cur_record = r} = {}
      BY DEF Init, NoIterator, Records, NULL
    <3>2. {n \in DOMAIN loops : loops[n] = r} = {}
      BY DEF Init
    <3> QED BY <3>1, <3>2, FS_EmptySet DEF Cursors
  <2>2. \A r \in Records : s.record[r] = Free
    BY DEF Init
  <2>3. ToSet(s.records) = {}
    BY <1>4 DEF ToSet
  <2> QED BY <2>1, <2>2, <2>3 DEF RecordsCounted, Free
<1> QED BY <1>8, <1>9, <1>10 DEF MapInv

(* Every step keeps MapInv. *)
LEMMA NextInv ==
  ASSUME MapInv, [Next]_vars
  PROVE  MapInv'
<1>1. CASE UNCHANGED vars
  BY <1>1, QuietStep DEF vars
<1>2. ASSUME NEW k \in Keys \cup {NegZero}, Lookup(k) \/ SetFails(k)
      PROVE  MapInv'
  <2>1. UNCHANGED <<s, iter, loops>>
    BY <1>2 DEF Lookup, SetFails
  <2> QED BY <2>1, QuietStep
<1>3. ASSUME NEW k \in Keys \cup {NegZero}, Delete(k)
      PROVE  MapInv'
  BY <1>3, DeleteStep
<1>4. ASSUME NEW k \in Keys \cup {NegZero}, NEW v \in Values, Set(k, v)
      PROVE  MapInv'
  BY <1>4, SetStep
<1>5. CASE Size
  <2>1. UNCHANGED <<s, iter, loops>>
    BY <1>5 DEF Size
  <2> QED BY <2>1, QuietStep
<1>6. CASE Clear
  BY <1>6, ClearStep
<1>7. ASSUME NEW i \in Iterators, CreateIterator(i) \/ IteratorNext(i) \/ FreeIterator(i)
      PROVE  MapInv'
  BY <1>7, IteratorSteps
<1>8. CASE ForEach \/ CallbackReturns \/ CallbackThrows
  BY <1>8, LoopSteps
<1> QED BY <1>1, <1>2, <1>3, <1>4, <1>5, <1>6, <1>7, <1>8 DEF Next

(* The list, the hash table, the reference counts and the iterations of a map   *)
(* fit each other in every reachable state of js_map_set, js_map_delete,        *)
(* js_map_clear, js_map_forEach and the iterators.                            *)
THEOREM MapInvariance == Spec => []MapInv
<1>1. Init => MapInv
  BY InitInv
<1>2. MapInv /\ [Next]_vars => MapInv'
  BY NextInv
<1> QED BY <1>1, <1>2, PTL DEF Spec

(* map_decref_record and map_delete_record free a record exactly when it has no *)
(* entry and no iteration is at it.                                           *)
THEOREM RecordsAreCounted == Spec => []RecordsCounted
<1>1. MapInv => RecordsCounted
  BY DEF MapInv
<1> QED BY <1>1, MapInvariance, PTL

(* map_add_record, map_hash_resize and map_delete_record keep the hash table    *)
(* exact, for any hash function and any size that realloc gives the table.     *)
THEOREM TableIsExact == Spec => []TableExact
<1>1. MapInv => TableExact
  BY DEF MapInv, WellFormed, TableExact
<1> QED BY <1>1, MapInvariance, PTL

(* The state of a map is of its type, and it has at most one record for a key. *)
THEOREM MapTypes == Spec => []TypeOK
<1>1. ASSUME MapInv
      PROVE  TypeOK
  <2>1. WellFormed(s)
    BY <1>1 DEF MapInv
  <2>2. /\ HashSize(s) \in 1..MaxHashSize /\ s \in MapState(HashSize(s))
        /\ IsInjective(s.records) /\ ToSet(s.records) \subseteq Records
        /\ s.record \in [Records -> RecordType]
        /\ Live(s) \subseteq Records /\ IsFiniteSet(Live(s))
    BY <2>1, StateFacts
  <2>3. \A r \in Records : s.record[r].ref_count \in Nat /\ s.record[r].key \in Keys \cup {None}
    BY <2>2 DEF RecordType
  <2>4. s.record_count \in 0..Cardinality(Keys)
    <3>1. PICK f : f = [r \in Live(s) |-> s.record[r].key]
      OBVIOUS
    <3>2. f \in Injection(Live(s), Keys)
      BY <2>1, <3>1 DEF WellFormed, KeysOnce, Injection, IsInjective
    <3>3. IsFiniteSet(Keys)
      BY MapAssumption
    <3>4. Cardinality(Live(s)) <= Cardinality(Keys)
      BY <3>2, <3>3, FS_Injection
    <3>5. Cardinality(Live(s)) \in Nat /\ Cardinality(Keys) \in Nat
      BY <2>2, <3>3, FS_CardinalityType
    <3>6. s.record_count = Cardinality(Live(s))
      BY <2>1 DEF WellFormed, Exact
    <3> QED BY <3>4, <3>5, <3>6
  <2>5. ASSUME NEW h \in DOMAIN s.hash_table
        PROVE  ToSet(s.hash_table[h]) \subseteq Records
    <3>1. s.hash_table[h] \in Seq(Records)
      BY <2>2 DEF MapState
    <3> QED BY <3>1 DEF ToSet
  <2> QED BY <2>2, <2>3, <2>4, <2>5 DEF TypeOK
<1> QED BY <1>1, MapInvariance, PTL

-----------------------------------------------------------------------------
(* What the entries and positions of OrderedMap are.  The entries have the      *)
(* records of Occupied, each once, and a record is at its own position there.  *)
LEMMA OccupiedFacts ==
  ASSUME NEW t, WellFormed(t)
  PROVE  /\ Occupied(t) \in Seq(Records) /\ IsInjective(Occupied(t)) /\ ToSet(Occupied(t)) = Live(t)
         /\ Len(Occupied(t)) = Cardinality(Live(t)) /\ Len(Occupied(t)) \in Nat
         /\ Entries(t) \in Seq({Entry(t, r) : r \in Live(t)})
         /\ Len(Entries(t)) = Len(Occupied(t))
         /\ \A n \in 1..Len(Occupied(t)) : Occupied(t)[n] \in Live(t) /\ Entries(t)[n] = Entry(t, Occupied(t)[n])
<1>1. PICK o : o = Occupied(t)
  OBVIOUS
<1>2. t.records \in Seq(Records) /\ IsInjective(t.records) /\ Live(t) \subseteq ToSet(t.records) /\ IsFiniteSet(Live(t))
  BY StateFacts
<1>3. o \in Seq(Records) /\ IsInjective(o) /\ ToSet(o) = Live(t)
  <2>1. o = Sublist(t.records, Live(t)) /\ ToSet(t.records) \cap Live(t) = Live(t)
    BY <1>1, <1>2 DEF Occupied
  <2>2. /\ Sublist(t.records, Live(t)) \in Seq(Records) /\ IsInjective(Sublist(t.records, Live(t)))
        /\ ToSet(Sublist(t.records, Live(t))) = ToSet(t.records) \cap Live(t)
    BY <1>2, SublistFacts
  <2> QED BY <2>1, <2>2
<1>4. Len(o) \in Nat
  BY <1>3
<1>5. Len(o) = Cardinality(Live(t))
  <2>1. CASE Len(o) = 0
    <3>1. ToSet(o) = {}
      BY <1>3, <2>1 DEF ToSet
    <3> QED BY <1>3, <2>1, <3>1, FS_EmptySet
  <2>2. CASE Len(o) # 0
    <3>1. Len(o) \in 1..Len(o)
      BY <1>4, <2>2
    <3>2. Cardinality({q \in ToSet(o) : Place(o, q) <= Len(o)}) = Len(o)
      BY <1>3, <3>1, PlaceCounts
    <3>3. \A q \in ToSet(o) : Place(o, q) <= Len(o)
      BY <1>3, PlaceFacts
    <3>4. {q \in ToSet(o) : Place(o, q) <= Len(o)} = Live(t)
      BY <1>3, <3>3
    <3> QED BY <3>2, <3>4
  <2> QED BY <2>1, <2>2
<1>6. \A n \in 1..Len(o) : o[n] \in Live(t)
  BY <1>3, PlaceFacts
<1>7. Entries(t) = [n \in 1..Len(o) |-> Entry(t, o[n])]
  BY <1>1 DEF Entries
<1>8. Entries(t) \in Seq({Entry(t, r) : r \in Live(t)}) /\ Len(Entries(t)) = Len(o)
  <2>1. PICK e : e = Entries(t)
    OBVIOUS
  <2>2. e \in [1..Len(o) -> {Entry(t, r) : r \in Live(t)}]
    BY <1>6, <1>7, <2>1
  <2> QED BY <1>4, <2>1, <2>2
<1> QED BY <1>1, <1>3, <1>4, <1>5, <1>6, <1>7, <1>8

(* The entries up to record r, of which Position is the number. *)
UpTo(t, r) == {q \in Live(t) : Place(t.records, q) <= Place(t.records, r)}

(* The position of a record counts entries; that of one with an entry is the    *)
(* place of the entry.                                                        *)
LEMMA PositionFacts ==
  ASSUME NEW t, WellFormed(t), NEW r, r = NULL \/ r \in ToSet(t.records)
  PROVE  /\ Position(t, r) \in 0..Len(Entries(t))
         /\ r = NULL => Position(t, r) = 0
         /\ r # NULL => Position(t, r) = Cardinality(UpTo(t, r)) /\ IsFiniteSet(UpTo(t, r))
         /\ r \in Live(t) => /\ r # NULL /\ Position(t, r) \in 1..Len(Entries(t))
                             /\ Occupied(t)[Position(t, r)] = r
                             /\ Entries(t)[Position(t, r)] = Entry(t, r)
<1>1. /\ t.records \in Seq(Records) /\ IsInjective(t.records) /\ Live(t) \subseteq ToSet(t.records)
      /\ IsFiniteSet(Live(t)) /\ Live(t) \subseteq Records
  BY StateFacts
<1>2. /\ Occupied(t) \in Seq(Records) /\ IsInjective(Occupied(t)) /\ ToSet(Occupied(t)) = Live(t)
      /\ Len(Occupied(t)) = Cardinality(Live(t)) /\ Len(Occupied(t)) \in Nat
      /\ Len(Entries(t)) = Len(Occupied(t))
      /\ \A n \in 1..Len(Occupied(t)) : Occupied(t)[n] \in Live(t) /\ Entries(t)[n] = Entry(t, Occupied(t)[n])
  BY OccupiedFacts
<1>3. r = NULL => Position(t, r) = 0
  BY DEF Position
<1>4. r # NULL => Position(t, r) = Cardinality(UpTo(t, r))
  BY DEF Position, UpTo
<1>5. IsFiniteSet(UpTo(t, r)) /\ Cardinality(UpTo(t, r)) \in Nat /\ Cardinality(UpTo(t, r)) <= Cardinality(Live(t))
  <2>1. UpTo(t, r) \in SUBSET Live(t)
    BY DEF UpTo
  <2> QED BY <1>1, <2>1, FS_Subset, FS_CardinalityType
<1>6. Position(t, r) \in 0..Len(Entries(t))
  BY <1>2, <1>3, <1>4, <1>5
<1>7. ASSUME r \in Live(t)
      PROVE  /\ r # NULL /\ Position(t, r) \in 1..Len(Entries(t))
             /\ Occupied(t)[Position(t, r)] = r /\ Entries(t)[Position(t, r)] = Entry(t, r)
  <2>1. r # NULL
    BY <1>1, <1>7 DEF NULL, Records
  <2>2. r \in ToSet(t.records) /\ ToSet(t.records) \cap Live(t) = Live(t)
    BY <1>1, <1>7
  <2>3. /\ Place(Occupied(t), r) \in 1..Len(Occupied(t))
        /\ Place(Occupied(t), r) = Cardinality({q \in ToSet(t.records) \cap Live(t) : Place(t.records, q) <= Place(t.records, r)})
    BY <1>1, <1>7, <2>2, SublistPlace DEF Occupied
  <2>4. Place(Occupied(t), r) = Position(t, r)
    BY <1>4, <2>1, <2>2, <2>3 DEF UpTo
  <2>5. Occupied(t)[Place(Occupied(t), r)] = r
    BY <1>2, <1>7, PlaceFacts
  <2> QED BY <1>2, <2>1, <2>3, <2>4, <2>5
<1> QED BY <1>3, <1>4, <1>5, <1>6, <1>7

(* map_find_record finds the one entry of a key. *)
LEMMA KeyFacts ==
  ASSUME NEW t, WellFormed(t), NEW k \in Keys
  PROVE  /\ (\A r \in Live(t) : t.record[r].key # k) => {n \in 1..Len(Entries(t)) : Entries(t)[n][1] = k} = {}
         /\ \A r \in Live(t) : t.record[r].key = k =>
              {n \in 1..Len(Entries(t)) : Entries(t)[n][1] = k} = {Position(t, r)}
<1>0. /\ Len(Entries(t)) = Len(Occupied(t)) /\ IsInjective(Occupied(t)) /\ Occupied(t) \in Seq(Records)
      /\ \A n \in 1..Len(Occupied(t)) : Occupied(t)[n] \in Live(t) /\ Entries(t)[n] = Entry(t, Occupied(t)[n])
  BY OccupiedFacts
<1>1. \A n \in 1..Len(Entries(t)) : Occupied(t)[n] \in Live(t) /\ Entries(t)[n][1] = t.record[Occupied(t)[n]].key
  BY <1>0 DEF Entry
<1>2. ASSUME NEW r \in Live(t), t.record[r].key = k
      PROVE  {n \in 1..Len(Entries(t)) : Entries(t)[n][1] = k} = {Position(t, r)}
  <2>1. r \in ToSet(t.records) /\ \A q \in Live(t) : t.record[q].key = k => q = r
    BY <1>2, StateFacts DEF WellFormed, KeysOnce
  <2>2. Position(t, r) \in 1..Len(Entries(t)) /\ Occupied(t)[Position(t, r)] = r
    BY <2>1, PositionFacts
  <2>3. ASSUME NEW n \in 1..Len(Entries(t)), Entries(t)[n][1] = k
        PROVE  n = Position(t, r)
    <3>1. Occupied(t)[n] = r
      BY <1>1, <2>1, <2>3
    <3>2. IsInjective(Occupied(t)) /\ DOMAIN Occupied(t) = 1..Len(Entries(t))
      BY <1>0
    <3> QED BY <2>2, <3>1, <3>2 DEF IsInjective
  <2>4. Entries(t)[Position(t, r)][1] = k
    BY <1>1, <1>2, <2>2
  <2> QED BY <2>2, <2>3, <2>4
<1> QED BY <1>1, <1>2

(* Steps that keep the entries keep every position in the list that is left. *)
LEMMA SameEntriesRefine ==
  ASSUME NEW t, WellFormed(t), NEW u, WellFormed(u), SameEntries(t, u)
  PROVE  /\ Entries(u) = Entries(t)
         /\ \A r : r = NULL \/ r \in ToSet(u.records) => Position(u, r) = Position(t, r)
<1>1. /\ Occupied(u) = Occupied(t) /\ Live(u) = Live(t)
      /\ \A q \in Live(t) : u.record[q].key = t.record[q].key /\ u.record[q].value = t.record[q].value
  BY DEF SameEntries
<1>2. \A n \in 1..Len(Occupied(t)) : Occupied(t)[n] \in Live(t)
  BY OccupiedFacts
<1>3. \A n \in 1..Len(Occupied(t)) : Entry(u, Occupied(t)[n]) = Entry(t, Occupied(t)[n])
  BY <1>1, <1>2 DEF Entry
<1>4. Entries(u) = Entries(t)
  BY <1>1, <1>3 DEF Entries
<1>5. ASSUME NEW r, r = NULL \/ r \in ToSet(u.records)
      PROVE  Position(u, r) = Position(t, r)
  <2>1. CASE r = NULL
    BY <2>1 DEF Position
  <2>2. CASE r # NULL
    <3>1. r \in ToSet(u.records) /\ Live(u) \subseteq ToSet(u.records)
      BY <1>5, <2>2, StateFacts
    <3>2. UpTo(u, r) = UpTo(t, r)
      BY <1>1, <3>1 DEF UpTo, SameEntries
    <3> QED BY <2>2, <3>2 DEF Position, UpTo
  <2> QED BY <2>1, <2>2
<1> QED BY <1>4, <1>5

(* Following goes to the next entry, or there is none. *)
LEMMA FollowingRefine ==
  ASSUME NEW t, WellFormed(t), NEW r, r = NULL \/ r \in ToSet(t.records)
  PROVE  /\ Following(t, r) = NULL => Position(t, r) = Len(Entries(t))
         /\ Following(t, r) # NULL =>
              /\ Following(t, r) \in Live(t) /\ Position(t, r) < Len(Entries(t))
              /\ Position(t, Following(t, r)) = Position(t, r) + 1
              /\ Entries(t)[Position(t, r) + 1] = Entry(t, Following(t, r))
<1>1. /\ t.records \in Seq(Records) /\ IsInjective(t.records) /\ Live(t) \subseteq ToSet(t.records)
      /\ IsFiniteSet(Live(t))
  BY StateFacts
<1>2. PICK next : next = Following(t, r)
  OBVIOUS
<1>3. /\ Start(t, r) \in 0..Len(t.records)
      /\ \/ next = NULL /\ \A q \in Live(t) : Place(t.records, q) <= Start(t, r)
         \/ /\ next \in Live(t) /\ next # NULL /\ Start(t, r) < Place(t.records, next)
            /\ \A q \in Live(t) : Place(t.records, q) <= Start(t, r) \/ Place(t.records, next) <= Place(t.records, q)
  BY <1>2, FollowingFinds
<1>4. PICK A : A = {q \in Live(t) : Place(t.records, q) <= Start(t, r)}
  OBVIOUS
<1>5. \A q \in Live(t) : Place(t.records, q) \in 1..Len(t.records)
  BY <1>1, PlaceFacts
<1>6. Position(t, r) = Cardinality(A)
  <2>1. CASE r = NULL
    <3>1. A = {}
      BY <1>4, <1>5, <2>1 DEF Start
    <3> QED BY <2>1, <3>1, FS_EmptySet DEF Position
  <2>2. CASE r # NULL
    BY <1>4, <2>2 DEF Start, Position
  <2> QED BY <2>1, <2>2
<1>7. ASSUME next = NULL
      PROVE  Position(t, r) = Len(Entries(t))
  <2>1. next \notin Live(t)
    BY <1>7, StateFacts DEF NULL, Records
  <2>2. A = Live(t)
    BY <1>3, <1>4, <1>7, <2>1
  <2>3. Len(Entries(t)) = Len(Occupied(t)) /\ Len(Occupied(t)) = Cardinality(Live(t))
    BY OccupiedFacts
  <2> QED BY <1>6, <2>2, <2>3
<1>8. ASSUME next # NULL
      PROVE  /\ next \in Live(t) /\ Position(t, r) < Len(Entries(t)) /\ Position(t, next) = Position(t, r) + 1
             /\ Entries(t)[Position(t, r) + 1] = Entry(t, next)
  <2>1. /\ next \in Live(t) /\ Start(t, r) < Place(t.records, next)
        /\ \A q \in Live(t) : Place(t.records, q) <= Start(t, r) \/ Place(t.records, next) <= Place(t.records, q)
    BY <1>3, <1>8
  <2>2. UpTo(t, next) = A \cup {next}
    <3>1. ASSUME NEW q \in Live(t)
          PROVE  Place(t.records, q) <= Place(t.records, next) <=> Place(t.records, q) <= Start(t, r) \/ q = next
      <4>1. Place(t.records, q) = Place(t.records, next) => q = next
        BY <1>1, <2>1, PlaceFacts
      <4>2. Place(t.records, q) \in Int /\ Place(t.records, next) \in Int /\ Start(t, r) \in Int
        BY <1>3, <1>5, <2>1
      <4> QED BY <2>1, <4>1, <4>2
    <3> QED BY <1>4, <2>1, <3>1 DEF UpTo
  <2>3. next \notin A
    <3>1. Place(t.records, next) \in Int /\ Start(t, r) \in Int
      BY <1>3, <1>5, <2>1
    <3> QED BY <1>4, <2>1, <3>1
  <2>4. IsFiniteSet(A)
    <3>1. A \in SUBSET Live(t)
      BY <1>4
    <3> QED BY <1>1, <3>1, FS_Subset
  <2>5. Cardinality(A \cup {next}) = Cardinality(A) + 1 /\ Cardinality(A) \in Nat
    BY <2>3, <2>4, FS_AddElement, FS_CardinalityType
  <2>6. /\ Position(t, next) = Cardinality(UpTo(t, next)) /\ Position(t, next) \in 1..Len(Entries(t))
        /\ Entries(t)[Position(t, next)] = Entry(t, next)
    BY <1>1, <1>8, <2>1, PositionFacts
  <2>7. Position(t, next) = Position(t, r) + 1 /\ Position(t, r) \in Nat
    BY <1>6, <2>2, <2>5, <2>6
  <2>8. Len(Entries(t)) \in Nat
    <3>1. Len(Entries(t)) = Len(Occupied(t)) /\ Len(Occupied(t)) \in Nat
      BY OccupiedFacts
    <3> QED BY <3>1
  <2> QED BY <2>1, <2>6, <2>7, <2>8
<1> QED BY <1>2, <1>7, <1>8

(* A new value for an entry. *)
LEMMA ValueRefine ==
  ASSUME NEW t, WellFormed(t), NEW r \in Live(t), NEW v \in Values, NEW u, WellFormed(u),
         u.records = t.records, Live(u) = Live(t), Occupied(u) = Occupied(t),
         \A q \in Records : /\ u.record[q].key = t.record[q].key
                            /\ u.record[q].value = IF q = r THEN v ELSE t.record[q].value
  PROVE  /\ Entries(u) = [Entries(t) EXCEPT ![Position(t, r)] = <<t.record[r].key, v>>]
         /\ \A q : Position(u, q) = Position(t, q)
<1>1. /\ Len(Entries(t)) = Len(Occupied(t)) /\ IsInjective(Occupied(t)) /\ Occupied(t) \in Seq(Records)
      /\ \A n \in 1..Len(Occupied(t)) : Occupied(t)[n] \in Live(t) /\ Entries(t)[n] = Entry(t, Occupied(t)[n])
  BY OccupiedFacts
<1>2. Live(t) \subseteq Records /\ Live(t) \subseteq ToSet(t.records)
  BY StateFacts
<1>3. Position(t, r) \in 1..Len(Occupied(t)) /\ Occupied(t)[Position(t, r)] = r
  BY <1>1, <1>2, PositionFacts
<1>4. \A q : Position(u, q) = Position(t, q)
  BY DEF Position
<1>5. PICK o : o = Occupied(t)
  OBVIOUS
<1>6. Entries(u) = [n \in 1..Len(o) |-> Entry(u, o[n])] /\ Entries(t) = [n \in 1..Len(o) |-> Entry(t, o[n])]
  BY <1>5 DEF Entries
<1>7. ASSUME NEW n \in 1..Len(o)
      PROVE  Entry(u, o[n]) = IF n = Position(t, r) THEN <<t.record[r].key, v>> ELSE Entry(t, o[n])
  <2>1. o[n] \in Records
    BY <1>1, <1>2, <1>5
  <2>2. o[n] = r <=> n = Position(t, r)
    BY <1>1, <1>3, <1>5 DEF IsInjective
  <2> QED BY <2>1, <2>2 DEF Entry
<1>8. PICK e : e = Entries(t)
  OBVIOUS
<1>9. DOMAIN e = 1..Len(o) /\ \A n \in 1..Len(o) : e[n] = Entry(t, o[n])
  BY <1>6, <1>8
<1>10. PICK x : x = <<t.record[r].key, v>>
  OBVIOUS
<1>11. [e EXCEPT ![Position(t, r)] = x] = [n \in 1..Len(o) |-> IF n = Position(t, r) THEN x ELSE e[n]]
  BY <1>9
<1>12. Entries(u) = [e EXCEPT ![Position(t, r)] = x]
  <2>1. \A n \in 1..Len(o) : Entry(u, o[n]) = IF n = Position(t, r) THEN x ELSE e[n]
    BY <1>7, <1>9, <1>10
  <2>2. [n \in 1..Len(o) |-> Entry(u, o[n])] = [n \in 1..Len(o) |-> IF n = Position(t, r) THEN x ELSE e[n]]
    BY <2>1
  <2> QED BY <1>6, <1>11, <2>2
<1> QED BY <1>4, <1>8, <1>10, <1>12

(* A new entry. *)
LEMMA AddRefine ==
  ASSUME NEW t, WellFormed(t), NEW r \in Records \ ToSet(t.records), NEW v, NEW u, WellFormed(u),
         u.records = Append(t.records, r), Live(u) = Live(t) \cup {r}, Occupied(u) = Append(Occupied(t), r),
         \A q \in Live(t) : u.record[q] = t.record[q], u.record[r].value = v
  PROVE  /\ Entries(u) = Append(Entries(t), <<u.record[r].key, v>>)
         /\ \A q : q = NULL \/ q \in ToSet(t.records) => Position(u, q) = Position(t, q)
<1>1. /\ Len(Entries(t)) = Len(Occupied(t)) /\ Occupied(t) \in Seq(Records) /\ Len(Occupied(t)) \in Nat
      /\ \A n \in 1..Len(Occupied(t)) : Occupied(t)[n] \in Live(t) /\ Entries(t)[n] = Entry(t, Occupied(t)[n])
  BY OccupiedFacts
<1>2. t.records \in Seq(Records) /\ IsInjective(t.records) /\ Live(t) \subseteq ToSet(t.records)
  BY StateFacts
<1>3. PICK o \in Seq(Records) : o = Occupied(t)
  BY <1>1
<1>4. Len(Append(o, r)) = Len(o) + 1 /\ Append(o, r)[Len(o) + 1] = r /\ \A n \in 1..Len(o) : Append(o, r)[n] = o[n]
  OBVIOUS
<1>5. Entries(u) = [n \in 1..(Len(o) + 1) |-> Entry(u, Append(o, r)[n])]
  BY <1>3, <1>4 DEF Entries
<1>6. PICK e : e = Entries(t)
  OBVIOUS
<1>7. e \in Seq({Entry(t, q) : q \in Live(t)}) /\ Len(e) = Len(o)
  BY <1>1, <1>3, <1>6, OccupiedFacts
<1>8. \A n \in 1..Len(o) : Entry(u, Append(o, r)[n]) = e[n]
  BY <1>1, <1>3, <1>4, <1>6 DEF Entry
<1>9. Entry(u, Append(o, r)[Len(o) + 1]) = <<u.record[r].key, v>>
  BY <1>4 DEF Entry
<1>10. PICK x : x = <<u.record[r].key, v>>
  OBVIOUS
<1>11. Append(e, x) = [n \in 1..(Len(e) + 1) |-> IF n <= Len(e) THEN e[n] ELSE x]
  <2>1. PICK S : S = {Entry(t, q) : q \in Live(t)} \cup {x}
    OBVIOUS
  <2>2. e \in Seq(S) /\ x \in S
    BY <1>7, <2>1
  <2>3. PICK a \in Seq(S) : a = Append(e, x)
    BY <2>2, AppendProperties
  <2>4. Len(a) = Len(e) + 1 /\ a[Len(e) + 1] = x /\ (\A n \in 1..Len(e) : a[n] = e[n]) /\ Len(e) \in Nat
    BY <2>2, <2>3
  <2>5. \A n \in 1..(Len(e) + 1) : a[n] = IF n <= Len(e) THEN e[n] ELSE x
    BY <2>4
  <2>6. a = [n \in 1..(Len(e) + 1) |-> a[n]]
    BY <2>4
  <2>7. [n \in 1..(Len(e) + 1) |-> a[n]] = [n \in 1..(Len(e) + 1) |-> IF n <= Len(e) THEN e[n] ELSE x]
    BY <2>5
  <2> QED BY <2>3, <2>6, <2>7
<1>12. Entries(u) = Append(e, x)
  <2>1. Len(e) \in Nat
    BY <1>7
  <2>2. \A n \in 1..(Len(e) + 1) : n \in 1..Len(e) \/ n = Len(e) + 1
    BY <2>1
  <2>3. \A n \in 1..(Len(e) + 1) : Entry(u, Append(o, r)[n]) = IF n <= Len(e) THEN e[n] ELSE x
    BY <1>7, <1>8, <1>9, <1>10, <2>1, <2>2
  <2> QED BY <1>5, <1>7, <1>11, <2>3
<1>13. ASSUME NEW q, q = NULL \/ q \in ToSet(t.records)
       PROVE  Position(u, q) = Position(t, q)
  <2>1. CASE q = NULL
    BY <2>1 DEF Position
  <2>2. CASE q # NULL
    <3>1. q \in ToSet(t.records)
      BY <1>13, <2>2
    <3>2. /\ \A a \in ToSet(t.records) : Place(u.records, a) = Place(t.records, a)
          /\ Place(u.records, r) = Len(t.records) + 1
      BY <1>2, PlaceAppend
    <3>3. Place(t.records, q) \in 1..Len(t.records)
      BY <1>2, <3>1, PlaceFacts
    <3>4. ~(Place(u.records, r) <= Place(u.records, q))
      BY <1>2, <3>1, <3>2, <3>3
    <3>5. UpTo(u, q) = UpTo(t, q)
      BY <1>2, <3>1, <3>2, <3>4 DEF UpTo
    <3> QED BY <2>2, <3>5 DEF Position, UpTo
  <2> QED BY <2>1, <2>2
<1> QED BY <1>6, <1>10, <1>12, <1>13

(* An entry goes: the positions behind it are one less. *)
LEMMA DeleteRefine ==
  ASSUME NEW t, WellFormed(t), NEW r \in Live(t), NEW u, WellFormed(u),
         Live(u) = Live(t) \ {r}, Occupied(u) = Sublist(Occupied(t), Others(r)),
         \A q \in Records : q # r => u.record[q] = t.record[q],
         ToSet(u.records) \subseteq ToSet(t.records),
         \A a, b \in ToSet(u.records) :
           Place(u.records, a) <= Place(u.records, b) <=> Place(t.records, a) <= Place(t.records, b)
  PROVE  /\ Entries(u) = RemoveAt(Entries(t), Position(t, r))
         /\ \A q : q = NULL \/ q \in ToSet(u.records) =>
              Position(u, q) = IF Position(t, r) <= Position(t, q) THEN Position(t, q) - 1 ELSE Position(t, q)
<1>1. /\ Len(Entries(t)) = Len(Occupied(t)) /\ IsInjective(Occupied(t)) /\ ToSet(Occupied(t)) = Live(t)
      /\ Len(Occupied(t)) \in Nat
      /\ \A n \in 1..Len(Occupied(t)) : Occupied(t)[n] \in Live(t) /\ Entries(t)[n] = Entry(t, Occupied(t)[n])
  BY OccupiedFacts
<1>2. /\ t.records \in Seq(Records) /\ IsInjective(t.records) /\ Live(t) \subseteq ToSet(t.records)
      /\ Live(t) \subseteq Records
  BY StateFacts
<1>3. PICK n : n = Position(t, r)
  OBVIOUS
<1>4. PICK o \in Seq(Records) : o = Occupied(t)
  BY OccupiedFacts
<1>5. n \in 1..Len(o) /\ o[n] = r /\ r # NULL
  BY <1>1, <1>2, <1>3, <1>4, PositionFacts
<1>6. Occupied(u) = RemoveAt(o, n)
  <2>1. ToSet(o) \cap Others(r) = ToSet(o) \ {o[n]}
    BY <1>1, <1>2, <1>4, <1>5 DEF Others
  <2> QED BY <1>1, <1>4, <1>5, <2>1, SublistRemove
<1>7. PICK e : e = Entries(t)
  OBVIOUS
<1>8. PICK S : S = {Entry(t, q) : q \in Live(t)}
  OBVIOUS
<1>9. e \in Seq(S) /\ Len(e) = Len(o)
  BY <1>1, <1>4, <1>7, <1>8, OccupiedFacts
<1>10. Entries(u) = RemoveAt(e, n)
  <2>1. PICK N \in Nat : N = Len(o)
    BY <1>1, <1>4
  <2>2. n \in 1..N /\ N - 1 \in Nat
    BY <1>5, <2>1
  <2>3. /\ Len(RemoveAt(o, n)) = N - 1
        /\ \A m \in 1..(N - 1) : RemoveAt(o, n)[m] = IF m < n THEN o[m] ELSE o[m + 1]
    BY <2>1, <2>2, RemoveAtFacts
  <2>4. RemoveAt(e, n) = [m \in 1..(N - 1) |-> IF m < n THEN e[m] ELSE e[m + 1]]
    <3>1. PICK f : f = RemoveAt(e, n)
      OBVIOUS
    <3>2. /\ f \in Seq(S) /\ DOMAIN f = 1..(N - 1)
          /\ \A m \in 1..(N - 1) : f[m] = IF m < n THEN e[m] ELSE e[m + 1]
      <4>1. e \in Seq(S) /\ n \in 1..Len(e) /\ Len(e) = N
        BY <1>9, <2>1, <2>2
      <4>2. /\ RemoveAt(e, n) \in Seq(S) /\ DOMAIN RemoveAt(e, n) = 1..(Len(e) - 1)
            /\ \A m \in 1..(Len(e) - 1) : RemoveAt(e, n)[m] = IF m < n THEN e[m] ELSE e[m + 1]
        BY ONLY <4>1, RemoveAtFacts
      <4> QED BY <3>1, <4>1, <4>2
    <3>3. f = [m \in 1..(N - 1) |-> f[m]]
      BY <3>2
    <3>4. [m \in 1..(N - 1) |-> f[m]] = [m \in 1..(N - 1) |-> IF m < n THEN e[m] ELSE e[m + 1]]
      BY <3>2
    <3> QED BY <3>1, <3>3, <3>4
  <2>5. ASSUME NEW m \in 1..(N - 1)
        PROVE  Entry(u, RemoveAt(o, n)[m]) = IF m < n THEN e[m] ELSE e[m + 1]
    <3>1. PICK j \in 1..N : j = IF m < n THEN m ELSE m + 1
      BY <2>2
    <3>2. j # n
      BY <2>2, <3>1
    <3>3. o[j] # r /\ o[j] \in Live(t) /\ e[j] = Entry(t, o[j])
      BY <1>1, <1>4, <1>5, <1>7, <2>1, <3>2 DEF IsInjective
    <3>4. Entry(u, o[j]) = Entry(t, o[j])
      BY <1>2, <3>3 DEF Entry
    <3>5. RemoveAt(o, n)[m] = o[j] /\ (IF m < n THEN e[m] ELSE e[m + 1]) = e[j]
      BY <2>3, <3>1
    <3> QED BY <3>3, <3>4, <3>5
  <2>6. Entries(u) = [m \in 1..(N - 1) |-> Entry(u, RemoveAt(o, n)[m])]
    BY <1>6, <2>3 DEF Entries
  <2> QED BY <2>4, <2>5, <2>6
<1>11. ASSUME NEW q, q = NULL \/ q \in ToSet(u.records)
       PROVE  Position(u, q) = IF n <= Position(t, q) THEN Position(t, q) - 1 ELSE Position(t, q)
  <2>1. CASE q = NULL
    <3>1. Position(u, q) = 0 /\ Position(t, q) = 0
      BY <2>1 DEF Position
    <3> QED BY <1>5, <3>1
  <2>2. CASE q # NULL
    <3>1. q \in ToSet(u.records) /\ q \in ToSet(t.records) /\ Live(u) \subseteq ToSet(u.records)
      BY <1>11, <2>2, StateFacts
    <3>2. /\ Position(t, q) = Cardinality(UpTo(t, q)) /\ IsFiniteSet(UpTo(t, q))
      BY <2>2, <3>1, PositionFacts
    <3>3. n = Cardinality(UpTo(t, r)) /\ IsFiniteSet(UpTo(t, r))
      BY <1>2, <1>3, <1>5, PositionFacts
    <3>4. Position(u, q) = Cardinality(UpTo(u, q))
      BY <2>2, <3>1, PositionFacts
    <3>5. UpTo(u, q) = UpTo(t, q) \ {r}
      BY <3>1 DEF UpTo
    <3>6. \A a \in ToSet(t.records) : Place(t.records, a) \in Int
      BY <1>2, PlaceFacts
    <3>7. CASE Place(t.records, r) <= Place(t.records, q)
      <4>1. r \in UpTo(t, q)
        BY <3>7 DEF UpTo
      <4>2. UpTo(t, r) \in SUBSET UpTo(t, q)
        BY <1>2, <3>1, <3>6, <3>7 DEF UpTo
      <4>3. n <= Position(t, q)
        BY <3>2, <3>3, <4>2, FS_Subset
      <4>4. Cardinality(UpTo(t, q) \ {r}) = Cardinality(UpTo(t, q)) - 1
        BY <3>2, <4>1, FS_RemoveElement
      <4> QED BY <3>2, <3>4, <3>5, <4>3, <4>4
    <3>8. CASE ~(Place(t.records, r) <= Place(t.records, q))
      <4>1. r \notin UpTo(t, q) /\ r \in UpTo(t, r)
        BY <1>2, <3>6, <3>8 DEF UpTo
      <4>2. UpTo(t, q) \in SUBSET UpTo(t, r) /\ UpTo(t, q) # UpTo(t, r)
        <5>1. UpTo(t, q) \subseteq UpTo(t, r)
          BY <1>2, <3>1, <3>6, <3>8 DEF UpTo
        <5> QED BY <4>1, <5>1
      <4>3. Position(t, q) < n
        <5>1. /\ Cardinality(UpTo(t, q)) <= Cardinality(UpTo(t, r))
              /\ Cardinality(UpTo(t, q)) # Cardinality(UpTo(t, r))
          BY <3>3, <4>2, FS_Subset
        <5>2. Cardinality(UpTo(t, q)) \in Nat /\ Cardinality(UpTo(t, r)) \in Nat
          BY <3>2, <3>3, FS_CardinalityType
        <5> QED BY <3>2, <3>3, <5>1, <5>2
      <4>4. UpTo(u, q) = UpTo(t, q)
        BY <3>5, <4>1
      <4>5. Position(t, q) \in Nat
        BY <3>2, FS_CardinalityType
      <4> QED BY <1>5, <3>2, <3>4, <4>3, <4>4, <4>5
    <3> QED BY <3>7, <3>8
  <2> QED BY <2>1, <2>2
<1> QED BY <1>3, <1>7, <1>10, <1>11

(* Every entry goes: all positions are at the start. *)
LEMMA ClearRefine ==
  ASSUME NEW u, Live(u) = {}, Occupied(u) = <<>>
  PROVE  Entries(u) = <<>> /\ \A q : Position(u, q) = 0
<1>1. \A q : UpTo(u, q) = {}
  BY DEF UpTo
<1>2. \A q : Position(u, q) = 0
  BY <1>1, FS_EmptySet DEF Position, UpTo
<1>3. Entries(u) = <<>>
  BY DEF Entries
<1> QED BY <1>2, <1>3

-----------------------------------------------------------------------------
(* Map state t is well formed, and the iterators it and loops l are at records  *)
(* of its list.                                                               *)
Located(t, it, l) ==
  /\ WellFormed(t) /\ it \in [Iterators -> IteratorType] /\ l \in Seq(Records)
  /\ \A i \in Iterators : /\ (~it[i].open => ~it[i].obj) /\ (~it[i].obj => it[i].cur_record = NULL)
                          /\ it[i].cur_record = NULL \/ it[i].cur_record \in ToSet(t.records)
  /\ \A n \in 1..Len(l) : l[n] \in ToSet(t.records)

(* Records that iterations are at are counted, so they are in the list. *)
LEMMA CountedAreLocated ==
  ASSUME NEW t, NEW it, NEW l, WellFormed(t), it \in [Iterators -> IteratorType], l \in Seq(Records),
         CountedBy(t, CursorCounts(it, l)),
         \A i \in Iterators : (~it[i].open => ~it[i].obj) /\ (~it[i].obj => it[i].cur_record = NULL)
  PROVE  Located(t, it, l)
<1>1. \A r \in Records : IteratorsAt(it, r) \in Nat /\ LoopsAt(l, r) \in Nat
  BY CursorTypes
<1>2. ASSUME NEW r \in Records, IteratorsAt(it, r) # 0 \/ LoopsAt(l, r) # 0
      PROVE  r \in ToSet(t.records)
  <2>1. CursorCounts(it, l)[r] = IteratorsAt(it, r) + LoopsAt(l, r)
    BY DEF CursorCounts
  <2>2. CursorCounts(it, l)[r] > 0 /\ CursorCounts(it, l)[r] \in Nat
    BY <1>1, <1>2, <2>1
  <2>3. /\ t.record[r].ref_count = CursorCounts(it, l)[r] + (IF r \in Live(t) THEN 1 ELSE 0)
        /\ r \in ToSet(t.records) <=> t.record[r].ref_count > 0
    BY DEF CountedBy
  <2> QED BY <2>2, <2>3
<1>3. ASSUME NEW i \in Iterators, it[i].cur_record # NULL
      PROVE  it[i].cur_record \in ToSet(t.records)
  <2>1. PICK r \in Records : r = it[i].cur_record
    BY <1>3 DEF IteratorType
  <2>2. PICK A : A = {j \in Iterators : it[j].cur_record = r}
    OBVIOUS
  <2>3. A \in SUBSET Iterators /\ A # {} /\ IsFiniteSet(Iterators)
    BY <2>1, <2>2, MapAssumption
  <2>4. Cardinality(A) # 0
    BY <2>3, FS_Subset, FS_EmptySet
  <2> QED BY <1>2, <2>1, <2>2, <2>4 DEF IteratorsAt
<1>4. ASSUME NEW n \in 1..Len(l)
      PROVE  l[n] \in ToSet(t.records)
  <2>1. PICK r \in Records : r = l[n]
    OBVIOUS
  <2>2. PICK A : A = {m \in DOMAIN l : l[m] = r}
    OBVIOUS
  <2>3. Len(l) \in Nat /\ DOMAIN l = 1..Len(l)
    OBVIOUS
  <2>4. IsFiniteSet(1..Len(l))
    BY <2>3, FS_Interval
  <2>5. A \in SUBSET (1..Len(l)) /\ A # {}
    BY <2>1, <2>2, <2>3
  <2>6. Cardinality(A) # 0
    BY <2>4, <2>5, FS_Subset, FS_EmptySet
  <2> QED BY <1>2, <2>1, <2>2, <2>6 DEF LoopsAt
<1> QED BY <1>3, <1>4 DEF Located

(* So it is before and after every step. *)
LEMMA InvLocated ==
  /\ MapInv => Located(s, iter, loops)
  /\ MapInv' => Located(s', iter', loops')
<1>1. ASSUME MapInv
      PROVE  Located(s, iter, loops)
  <2>1. /\ WellFormed(s) /\ iter \in [Iterators -> IteratorType] /\ loops \in Seq(Records)
        /\ \A i \in Iterators : (~iter[i].open => ~iter[i].obj) /\ (~iter[i].obj => iter[i].cur_record = NULL)
    BY <1>1 DEF MapInv, IteratorsWellFormed
  <2>2. CountedBy(s, CursorCounts(iter, loops))
    BY <1>1, CountedDef DEF MapInv
  <2> QED BY <2>1, <2>2, CountedAreLocated
<1>2. ASSUME MapInv'
      PROVE  Located(s', iter', loops')
  <2>1. PICK t : t = s'
    OBVIOUS
  <2>2. PICK it : it = iter'
    OBVIOUS
  <2>3. PICK l : l = loops'
    OBVIOUS
  <2>4. /\ WellFormed(t) /\ it \in [Iterators -> IteratorType] /\ l \in Seq(Records)
        /\ \A i \in Iterators : (~it[i].open => ~it[i].obj) /\ (~it[i].obj => it[i].cur_record = NULL)
    BY <1>2, <2>1, <2>2, <2>3 DEF MapInv, IteratorsWellFormed
  <2>5. \A r \in Records : Cursors(r)' = CursorCounts(iter', loops')[r]
    BY DEF Cursors, CursorCounts, IteratorsAt, LoopsAt
  <2>6. \A r \in Records : r \in Live(s') <=> ~s'.record[r].empty
    BY DEF Live
  <2>7. CountedBy(s', CursorCounts(iter', loops'))
    BY <1>2, <2>5, <2>6 DEF MapInv, RecordsCounted, CountedBy
  <2>8. CountedBy(t, CursorCounts(it, l))
    BY <2>1, <2>2, <2>3, <2>7
  <2>9. Located(t, it, l)
    BY <2>4, <2>8, CountedAreLocated
  <2> QED BY <2>1, <2>2, <2>3, <2>9
<1> QED BY <1>1, <1>2

(* Iterations that stay where they are keep their positions. *)
LEMMA PositionsStay ==
  ASSUME NEW t, NEW u, NEW it, NEW l, Located(u, it, l),
         \A r : r = NULL \/ r \in ToSet(u.records) => Position(u, r) = Position(t, r)
  PROVE  IteratorPositions(u, it) = IteratorPositions(t, it) /\ LoopPositions(u, l) = LoopPositions(t, l)
<1>1. \A i \in Iterators : Position(u, it[i].cur_record) = Position(t, it[i].cur_record)
  BY DEF Located
<1>2. \A n \in DOMAIN l : Position(u, l[n]) = Position(t, l[n])
  BY DEF Located
<1> QED BY <1>1, <1>2 DEF IteratorPositions, LoopPositions

(* js_map_get and js_map_has return what OrderedMap does. *)
LEMMA LookupRefines ==
  ASSUME MapInv, NEW k \in Keys \cup {NegZero}, Lookup(k)
  PROVE  Abstract!ALookup(Normalize(k))
<1>1. PICK n \in Keys : n = Normalize(k)
  BY NormalizeType
<1>2. WellFormed(s)
  BY DEF MapInv
<1>3. PICK r : r = FindRecord(s, n)
  OBVIOUS
<1>4. \/ r = NULL /\ \A q \in Live(s) : s.record[q].key # n
      \/ r \in Live(s) /\ r # NULL /\ s.record[r].key = n
  BY <1>2, <1>3, FindRecordFinds
<1>5. /\ out' = <<"value", IF r = NULL THEN None ELSE s.record[r].value>>
      /\ s' = s /\ iter' = iter /\ loops' = loops
  BY <1>1, <1>3 DEF Lookup
<1>6. CASE r = NULL
  <2>1. r \notin Live(s)
    BY <1>2, <1>6, StateFacts DEF NULL, Records
  <2>2. Abstract!Index(n) = {}
    BY <1>2, <1>4, <2>1, KeyFacts DEF Abstract!Index
  <2> QED BY <1>1, <1>5, <1>6, <2>2 DEF Abstract!ALookup
<1>7. CASE r # NULL
  <2>1. r \in Live(s) /\ s.record[r].key = n /\ r \in ToSet(s.records)
    BY <1>2, <1>4, <1>7, StateFacts
  <2>2. Abstract!Index(n) = {Position(s, r)}
    BY <1>2, <2>1, KeyFacts DEF Abstract!Index
  <2>3. (CHOOSE m \in Abstract!Index(n) : TRUE) = Position(s, r)
    BY <2>2
  <2>4. Entries(s)[Position(s, r)] = <<s.record[r].key, s.record[r].value>>
    BY <1>2, <2>1, PositionFacts DEF Entry
  <2>5. Entries(s)[Position(s, r)][2] = s.record[r].value
    BY <2>4
  <2> QED BY <1>1, <1>5, <1>7, <2>2, <2>3, <2>5 DEF Abstract!ALookup
<1> QED BY <1>6, <1>7

(* js_map_set adds or replaces what OrderedMap does. *)
LEMMA SetRefines ==
  ASSUME MapInv, MapInv', NEW k \in Keys \cup {NegZero}, NEW v \in Values, Set(k, v)
  PROVE  Abstract!ASet(Normalize(k), v)
<1>1. PICK n \in Keys : n = Normalize(k)
  BY NormalizeType
<1>2. WellFormed(s) /\ Located(s, iter, loops) /\ Located(s', iter', loops')
  BY InvLocated DEF MapInv
<1>3. PICK r : r = FindRecord(s, n)
  OBVIOUS
<1>4. \/ r = NULL /\ \A q \in Live(s) : s.record[q].key # n
      \/ r \in Live(s) /\ r # NULL /\ s.record[r].key = n
  BY <1>2, <1>3, FindRecordFinds
<1>5. out' = <<>> /\ iter' = iter /\ loops' = loops
  BY DEF Set
<1>6. PICK u : u = s'
  OBVIOUS
<1>7. Located(u, iter, loops) /\ WellFormed(u)
  BY <1>2, <1>5, <1>6 DEF Located
<1>8. CASE r # NULL
  <2>1. u = [s EXCEPT !.record[r].value = v]
    BY <1>1, <1>3, <1>6, <1>8 DEF Set
  <2>2. r \in Live(s) /\ s.record[r].key = n /\ r \in ToSet(s.records)
    BY <1>2, <1>4, <1>8, StateFacts
  <2>3. /\ u.records = s.records /\ Live(u) = Live(s) /\ Occupied(u) = Occupied(s)
        /\ \A q \in Records : /\ u.record[q].key = s.record[q].key
                              /\ u.record[q].value = IF q = r THEN v ELSE s.record[q].value
    BY <1>2, <2>1, <2>2, ValueEffect
  <2>4. /\ Entries(u) = [Entries(s) EXCEPT ![Position(s, r)] = <<s.record[r].key, v>>]
        /\ \A q : Position(u, q) = Position(s, q)
    BY <1>2, <1>7, <2>2, <2>3, ValueRefine
  <2>5. IteratorPositions(u, iter) = IteratorPositions(s, iter) /\ LoopPositions(u, loops) = LoopPositions(s, loops)
    BY <1>7, <2>4, PositionsStay
  <2>6. Abstract!Index(n) = {Position(s, r)}
    BY <1>2, <2>2, KeyFacts DEF Abstract!Index
  <2>7. (CHOOSE m \in Abstract!Index(n) : TRUE) = Position(s, r)
    BY <2>6
  <2>8. Entries(s') = [Entries(s) EXCEPT ![CHOOSE m \in Abstract!Index(n) : TRUE] = <<n, v>>]
    BY <1>6, <2>2, <2>4, <2>7
  <2>9. IteratorPositions(s', iter') = IteratorPositions(s, iter) /\ LoopPositions(s', loops') = LoopPositions(s, loops)
    BY <1>5, <1>6, <2>5
  <2> QED BY <1>1, <1>5, <2>6, <2>8, <2>9 DEF Abstract!ASet
<1>9. CASE r = NULL
  <2>1. PICK q \in Records \ ToSet(s.records) : \E t \in AddRecord(s, n, q) : u = [t EXCEPT !.record[q].value = v]
    BY <1>1, <1>3, <1>6, <1>9 DEF Set
  <2>2. PICK t \in AddRecord(s, n, q) : u = [t EXCEPT !.record[q].value = v]
    BY <2>1
  <2>3. r \notin Live(s)
    BY <1>2, <1>9, StateFacts DEF NULL, Records
  <2>4. \A p \in Live(s) : s.record[p].key # n
    BY <1>4, <2>3
  <2>5. PICK c \in [Records -> Nat] : CountedBy(s, c)
    BY CountedDef DEF MapInv
  <2>6. /\ WellFormed(t) /\ t.records = Append(s.records, q) /\ Live(t) = Live(s) \cup {q} /\ q \notin Live(s)
        /\ Occupied(t) = Append(Occupied(s), q) /\ t.record[q].key = n
        /\ \A p \in Records : p # q => t.record[p] = s.record[p]
    BY <1>2, <2>4, <2>5, AddCounted
  <2>7. /\ u.records = t.records /\ Live(u) = Live(t) /\ Occupied(u) = Occupied(t)
        /\ u.record[q].key = t.record[q].key /\ u.record[q].value = v
    <3>1. WellFormed(t) /\ q \in Live(t) /\ v \in Values
      BY <2>6
    <3>2. /\ [t EXCEPT !.record[q].value = v].records = t.records
          /\ Live([t EXCEPT !.record[q].value = v]) = Live(t)
          /\ Occupied([t EXCEPT !.record[q].value = v]) = Occupied(t)
          /\ \A p \in Records :
               /\ [t EXCEPT !.record[q].value = v].record[p].key = t.record[p].key
               /\ [t EXCEPT !.record[q].value = v].record[p].value = IF p = q THEN v ELSE t.record[p].value
      BY ONLY <3>1, ValueEffect
    <3> QED BY <2>2, <3>2
  <2>8. \A p \in Live(s) : u.record[p] = s.record[p]
    <3>1. Live(s) \subseteq Records /\ t.record \in [Records -> RecordType] /\ t \in MapState(HashSize(t))
      BY <1>2, <2>6, StateFacts
    <3>2. \A p \in Records : p # q => u.record[p] = t.record[p]
      BY <2>2, <3>1 DEF MapState
    <3> QED BY <2>6, <3>1, <3>2
  <2>9. /\ Entries(u) = Append(Entries(s), <<u.record[q].key, v>>)
        /\ \A p : p = NULL \/ p \in ToSet(s.records) => Position(u, p) = Position(s, p)
    <3>1. /\ u.records = Append(s.records, q) /\ Live(u) = Live(s) \cup {q} /\ Occupied(u) = Append(Occupied(s), q)
          /\ u.record[q].value = v
      BY <2>6, <2>7
    <3> QED BY <1>2, <1>7, <2>8, <3>1, AddRefine
  <2>10. IteratorPositions(u, iter) = IteratorPositions(s, iter) /\ LoopPositions(u, loops) = LoopPositions(s, loops)
    <3>1. \A i \in Iterators : Position(u, iter[i].cur_record) = Position(s, iter[i].cur_record)
      BY <1>2, <2>9 DEF Located
    <3>2. \A m \in DOMAIN loops : Position(u, loops[m]) = Position(s, loops[m])
      <4>1. loops \in Seq(Records) /\ \A m \in 1..Len(loops) : loops[m] \in ToSet(s.records)
        BY <1>2 DEF Located
      <4>2. DOMAIN loops = 1..Len(loops)
        BY <4>1
      <4> QED BY <2>9, <4>1, <4>2
    <3> QED BY <3>1, <3>2 DEF IteratorPositions, LoopPositions
  <2>11. Abstract!Index(n) = {}
    BY <1>2, <2>4, KeyFacts DEF Abstract!Index
  <2>12. Entries(s') = Append(Entries(s), <<n, v>>)
    BY <1>6, <2>6, <2>7, <2>9
  <2>13. IteratorPositions(s', iter') = IteratorPositions(s, iter) /\ LoopPositions(s', loops') = LoopPositions(s, loops)
    BY <1>5, <1>6, <2>10
  <2> QED BY <1>1, <1>5, <2>11, <2>12, <2>13 DEF Abstract!ASet
<1> QED BY <1>8, <1>9

(* js_map_delete takes away what OrderedMap does, and moves what is behind it. *)
LEMMA DeleteRefines ==
  ASSUME MapInv, MapInv', NEW k \in Keys \cup {NegZero}, Delete(k)
  PROVE  Abstract!ADelete(Normalize(k))
<1>1. PICK n \in Keys : n = Normalize(k)
  BY NormalizeType
<1>2. WellFormed(s) /\ Located(s, iter, loops) /\ Located(s', iter', loops')
  BY InvLocated DEF MapInv
<1>3. PICK r : r = FindRecord(s, n)
  OBVIOUS
<1>4. \/ r = NULL /\ \A q \in Live(s) : s.record[q].key # n
      \/ r \in Live(s) /\ r # NULL /\ s.record[r].key = n
  BY <1>2, <1>3, FindRecordFinds
<1>5. /\ s' = IF r = NULL THEN s ELSE DeleteRecord(s, r)
      /\ out' = <<"deleted", r # NULL>> /\ iter' = iter /\ loops' = loops
  BY <1>1, <1>3 DEF Delete
<1>6. CASE r = NULL
  <2>1. r \notin Live(s)
    BY <1>2, <1>6, StateFacts DEF NULL, Records
  <2>2. Abstract!Index(n) = {}
    BY <1>2, <1>4, <2>1, KeyFacts DEF Abstract!Index
  <2>3. s' = s /\ out' = <<"deleted", FALSE>>
    BY <1>5, <1>6
  <2>4. (Abstract!Index(n) # {}) = FALSE
    BY <2>2
  <2> QED BY <1>1, <1>5, <2>2, <2>3, <2>4 DEF Abstract!ADelete
<1>7. CASE r # NULL
  <2>1. r \in Live(s) /\ s.record[r].key = n /\ r \in ToSet(s.records)
    BY <1>2, <1>4, <1>7, StateFacts
  <2>2. PICK u : u = DeleteRecord(s, r)
    OBVIOUS
  <2>3. s' = u /\ out' = <<"deleted", TRUE>>
    BY <1>5, <1>7, <2>2
  <2>4. PICK c \in [Records -> Nat] : CountedBy(s, c)
    BY CountedDef DEF MapInv
  <2>5. s.record[r].ref_count > 0
    BY <1>2, <2>1, <2>4, DeleteCounted
  <2>6. /\ WellFormed(u) /\ Live(u) = Live(s) \ {r} /\ Occupied(u) = Sublist(Occupied(s), Others(r))
        /\ \A q \in Records : q # r => u.record[q] = s.record[q]
        /\ ToSet(u.records) = {q \in ToSet(s.records) : q = r => s.record[r].ref_count > 1}
        /\ \A a, b \in ToSet(u.records) :
             Place(u.records, a) <= Place(u.records, b) <=> Place(s.records, a) <= Place(s.records, b)
    BY <1>2, <2>1, <2>2, <2>5, DeleteEffect
  <2>7. ToSet(u.records) \subseteq ToSet(s.records)
    BY <2>6
  <2>8. /\ Entries(u) = RemoveAt(Entries(s), Position(s, r))
        /\ \A q : q = NULL \/ q \in ToSet(u.records) =>
             Position(u, q) = IF Position(s, r) <= Position(s, q) THEN Position(s, q) - 1 ELSE Position(s, q)
    BY <1>2, <2>1, <2>6, <2>7, DeleteRefine
  <2>9. Abstract!Index(n) = {Position(s, r)}
    BY <1>2, <2>1, KeyFacts DEF Abstract!Index
  <2>10. (CHOOSE m \in Abstract!Index(n) : TRUE) = Position(s, r)
    BY <2>9
  <2>11. Located(u, iter, loops)
    BY <1>2, <1>5, <2>3
  <2>12. \A q : q = NULL \/ q \in ToSet(u.records) =>
           Position(s, q) \in Nat /\ Position(u, q) = Abstract!Shift(Position(s, q), Position(s, r))
    <3>1. \A q : q = NULL \/ q \in ToSet(u.records) => Position(s, q) \in Nat
      BY <1>2, <2>7, PositionFacts
    <3> QED BY <2>8, <3>1 DEF Abstract!Shift
  <2>13. IteratorPositions(u, iter)
           = [i \in Iterators |-> Abstract!Shift(IteratorPositions(s, iter)[i], Position(s, r))]
    <3>1. ASSUME NEW i \in Iterators
          PROVE  IteratorPositions(u, iter)[i] = Abstract!Shift(IteratorPositions(s, iter)[i], Position(s, r))
      <4>1. Position(u, iter[i].cur_record) = Abstract!Shift(Position(s, iter[i].cur_record), Position(s, r))
        BY <2>11, <2>12 DEF Located
      <4>2. Abstract!Shift(None, Position(s, r)) = None /\ Abstract!Shift(-1, Position(s, r)) = -1
        BY MapAssumption DEF Abstract!Shift
      <4> QED BY <4>1, <4>2 DEF IteratorPositions
    <3> QED BY <3>1 DEF IteratorPositions
  <2>14. LoopPositions(u, loops)
           = [m \in DOMAIN LoopPositions(s, loops) |-> Abstract!Shift(LoopPositions(s, loops)[m], Position(s, r))]
    <3>1. loops \in Seq(Records) /\ \A m \in 1..Len(loops) : loops[m] \in ToSet(u.records)
      BY <2>11 DEF Located
    <3>2. DOMAIN loops = 1..Len(loops)
      BY <3>1
    <3>3. \A m \in DOMAIN loops : Position(u, loops[m]) = Abstract!Shift(Position(s, loops[m]), Position(s, r))
      BY <2>12, <3>1, <3>2
    <3> QED BY <3>3 DEF LoopPositions
  <2>15. /\ Entries(s') = RemoveAt(Entries(s), CHOOSE m \in Abstract!Index(n) : TRUE)
         /\ IteratorPositions(s', iter') = IteratorPositions(u, iter)
         /\ LoopPositions(s', loops') = LoopPositions(u, loops)
    BY <1>5, <2>3, <2>8, <2>10
  <2>16. Abstract!Index(n) # {} /\ (Abstract!Index(n) # {}) = TRUE
    BY <2>9
  <2>17. out' = <<"deleted", Abstract!Index(n) # {}>>
    BY <2>3, <2>16
  <2>18. IteratorPositions(s', iter')
           = [i \in Iterators |-> Abstract!Shift(IteratorPositions(s, iter)[i], CHOOSE m \in Abstract!Index(n) : TRUE)]
    BY <2>10, <2>13, <2>15
  <2>19. LoopPositions(s', loops')
           = [j \in DOMAIN LoopPositions(s, loops) |->
                Abstract!Shift(LoopPositions(s, loops)[j], CHOOSE m \in Abstract!Index(n) : TRUE)]
    BY <2>10, <2>14, <2>15
  <2>20. Entries(s') = Abstract!RemoveAt(Entries(s), CHOOSE m \in Abstract!Index(n) : TRUE)
    BY <2>15 DEF Abstract!RemoveAt, RemoveAt
  <2> QED BY <1>1, <2>16, <2>17, <2>18, <2>19, <2>20 DEF Abstract!ADelete
<1> QED BY <1>6, <1>7

(* js_map_clear takes away every entry. *)
LEMMA ClearRefines ==
  ASSUME MapInv, Clear
  PROVE  Abstract!AClear
<1>1. WellFormed(s) /\ Located(s, iter, loops)
  BY InvLocated DEF MapInv
<1>2. PICK u : u = DeleteAll(s)
  OBVIOUS
<1>3. s' = u /\ out' = <<>> /\ iter' = iter /\ loops' = loops
  BY <1>2 DEF Clear
<1>4. PICK c \in [Records -> Nat] : CountedBy(s, c)
  BY CountedDef DEF MapInv
<1>5. \A r \in Live(s) : s.record[r].ref_count > 0
  BY <1>1, <1>4, ClearCounted
<1>6. Live(u) = {} /\ Occupied(u) = <<>>
  BY <1>1, <1>2, <1>5, ClearEffect
<1>7. Entries(u) = <<>> /\ \A q : Position(u, q) = 0
  BY <1>6, ClearRefine
<1>8. IteratorPositions(u, iter)
        = [i \in Iterators |-> IF IteratorPositions(s, iter)[i] \in Nat THEN 0 ELSE IteratorPositions(s, iter)[i]]
  <2>1. ASSUME NEW i \in Iterators
        PROVE  IteratorPositions(u, iter)[i]
                 = IF IteratorPositions(s, iter)[i] \in Nat THEN 0 ELSE IteratorPositions(s, iter)[i]
    <3>1. Position(s, iter[i].cur_record) \in Nat
      BY <1>1, PositionFacts DEF Located
    <3>2. None \notin Nat /\ -1 \notin Nat
      BY MapAssumption
    <3> QED BY <1>7, <3>1, <3>2 DEF IteratorPositions
  <2> QED BY <2>1 DEF IteratorPositions
<1>9. LoopPositions(u, loops) = [m \in DOMAIN LoopPositions(s, loops) |-> 0]
  BY <1>7 DEF LoopPositions
<1>10. /\ Entries(s') = <<>> /\ IteratorPositions(s', iter') = IteratorPositions(u, iter)
       /\ LoopPositions(s', loops') = LoopPositions(u, loops)
  BY <1>3, <1>7
<1> QED BY <1>3, <1>8, <1>9, <1>10 DEF Abstract!AClear

(* What a step of one iterator changes in OrderedMap. *)
LEMMA IteratorRefine ==
  ASSUME NEW t, NEW u, NEW it, NEW jt, NEW l, Located(t, it, l), Located(u, jt, l), SameEntries(t, u),
         NEW i \in Iterators, \A j \in Iterators : j # i => jt[j] = it[j]
  PROVE  /\ Entries(u) = Entries(t) /\ LoopPositions(u, l) = LoopPositions(t, l)
         /\ IteratorPositions(u, jt)
              = [IteratorPositions(t, it) EXCEPT ![i] = IF ~jt[i].open THEN None ELSE IF ~jt[i].obj THEN -1
                                                        ELSE Position(t, jt[i].cur_record)]
<1>1. /\ Entries(u) = Entries(t)
      /\ \A r : r = NULL \/ r \in ToSet(u.records) => Position(u, r) = Position(t, r)
  BY SameEntriesRefine DEF Located
<1>2. IteratorPositions(u, jt) = IteratorPositions(t, jt) /\ LoopPositions(u, l) = LoopPositions(t, l)
  BY <1>1, PositionsStay
<1>3. IteratorPositions(t, jt)
        = [IteratorPositions(t, it) EXCEPT ![i] = IF ~jt[i].open THEN None ELSE IF ~jt[i].obj THEN -1
                                                  ELSE Position(t, jt[i].cur_record)]
  BY DEF IteratorPositions
<1> QED BY <1>1, <1>2, <1>3

(* Iterators return what those of OrderedMap do. *)
LEMMA IteratorRefines ==
  ASSUME MapInv, MapInv', NEW i \in Iterators, CreateIterator(i) \/ IteratorNext(i) \/ FreeIterator(i)
  PROVE  Abstract!ANewIterator(i) \/ Abstract!ANext(i) \/ Abstract!ADropIterator(i)
<1>1. Located(s, iter, loops) /\ Located(s', iter', loops') /\ SameEntries(s, s')
  BY InvLocated, IteratorSteps
<1>2. loops' = loops
  BY DEF CreateIterator, IteratorNext, FreeIterator
<1>3. PICK jt : jt = iter'
  OBVIOUS
<1>4. iter \in [Iterators -> IteratorType] /\ \A j \in Iterators : j # i => jt[j] = iter[j]
  BY <1>1, <1>3 DEF Located, CreateIterator, IteratorNext, FreeIterator
<1>5. PICK u : u = s'
  OBVIOUS
<1>6. Located(u, jt, loops) /\ SameEntries(s, u)
  BY <1>1, <1>2, <1>3, <1>5
<1>7. PICK to : to = IF ~jt[i].open THEN None ELSE IF ~jt[i].obj THEN -1 ELSE Position(s, jt[i].cur_record)
  OBVIOUS
<1>8. /\ Entries(u) = Entries(s) /\ LoopPositions(u, loops) = LoopPositions(s, loops)
      /\ IteratorPositions(u, jt) = [IteratorPositions(s, iter) EXCEPT ![i] = to]
  BY <1>1, <1>4, <1>6, <1>7, IteratorRefine
<1>9. /\ Entries(s') = Entries(s) /\ LoopPositions(s', loops') = LoopPositions(s, loops)
      /\ IteratorPositions(s', iter') = [IteratorPositions(s, iter) EXCEPT ![i] = to]
  BY <1>2, <1>3, <1>5, <1>8
<1>10. WellFormed(s) /\ (iter[i].cur_record = NULL \/ iter[i].cur_record \in ToSet(s.records))
  BY <1>1 DEF Located
<1>11. Position(s, iter[i].cur_record) \in Nat
  BY <1>10, PositionFacts
<1>12. None \notin Int
  BY MapAssumption
<1>13. CASE CreateIterator(i)
  <2>1. IteratorPositions(s, iter)[i] = None /\ out' = <<>>
    BY <1>13 DEF CreateIterator, IteratorPositions
  <2>2. jt[i] = [open |-> TRUE, obj |-> TRUE, cur_record |-> NULL]
    BY <1>3, <1>4, <1>13 DEF CreateIterator
  <2>3. to = 0
    BY <1>7, <2>2 DEF Position
  <2> QED BY <1>9, <2>1, <2>3 DEF Abstract!ANewIterator
<1>14. CASE FreeIterator(i)
  <2>1. IteratorPositions(s, iter)[i] # None /\ out' = <<>>
    BY <1>11, <1>12, <1>14 DEF FreeIterator, IteratorPositions
  <2>2. jt[i] = NoIterator
    BY <1>3, <1>4, <1>14 DEF FreeIterator
  <2>3. to = None
    BY <1>7, <2>2 DEF NoIterator
  <2> QED BY <1>9, <2>1, <2>3 DEF Abstract!ADropIterator
<1>15. CASE IteratorNext(i)
  <2>1. iter[i].open /\ iter[i] \in IteratorType
    BY <1>4, <1>15 DEF IteratorNext
  <2>2. PICK p : p = IteratorPositions(s, iter)[i]
    OBVIOUS
  <2>3. p = IF iter[i].obj THEN Position(s, iter[i].cur_record) ELSE -1
    BY <2>1, <2>2 DEF IteratorPositions
  <2>4. p # None
    BY <1>11, <1>12, <2>3
  <2>5. PICK next : next = Following(s, iter[i].cur_record)
    OBVIOUS
  <2>6. /\ next = NULL => Position(s, iter[i].cur_record) = Len(Entries(s))
        /\ next # NULL =>
             /\ Position(s, iter[i].cur_record) < Len(Entries(s))
             /\ Position(s, next) = Position(s, iter[i].cur_record) + 1
             /\ Entries(s)[Position(s, iter[i].cur_record) + 1] = Entry(s, next)
    BY <1>10, <2>5, FollowingRefine
  <2>7. CASE iter[i].obj /\ next # NULL
    <3>1. jt[i].open = iter[i].open /\ jt[i].obj = iter[i].obj /\ jt[i].cur_record = next /\ out' = <<"entry", Entry(s, next)>>
      <4>1. jt = [iter EXCEPT ![i].cur_record = next] /\ out' = <<"entry", Entry(s, next)>>
        BY <1>3, <1>15, <2>5, <2>7 DEF IteratorNext
      <4>2. jt[i] = [iter[i] EXCEPT !.cur_record = next]
        BY <1>4, <4>1
      <4> QED BY <2>1, <4>1, <4>2 DEF IteratorType
    <3>2. p = Position(s, iter[i].cur_record) /\ p \in Nat /\ p < Len(Entries(s)) /\ to = p + 1
      BY <1>7, <1>11, <2>1, <2>3, <2>6, <2>7, <3>1
    <3>3. out' = <<"entry", Entries(s)[p + 1]>>
      BY <2>6, <2>7, <3>1, <3>2
    <3> QED BY <1>9, <2>2, <2>4, <3>2, <3>3 DEF Abstract!ANext
  <2>8. CASE ~(iter[i].obj /\ next # NULL)
    <3>1. jt[i].open = iter[i].open /\ jt[i].obj = FALSE /\ out' = <<"done">>
      <4>1. jt = [iter EXCEPT ![i].obj = FALSE, ![i].cur_record = NULL] /\ out' = <<"done">>
        BY <1>3, <1>15, <2>5, <2>8 DEF IteratorNext
      <4>2. jt[i] = [iter[i] EXCEPT !.obj = FALSE, !.cur_record = NULL]
        BY <1>4, <4>1
      <4> QED BY <2>1, <4>1, <4>2 DEF IteratorType
    <3>2. to = -1
      BY <1>7, <2>1, <3>1
    <3>3. ~(p \in Nat /\ p < Len(Entries(s)))
      BY <1>11, <2>3, <2>6, <2>8
    <3> QED BY <1>9, <2>2, <2>4, <3>1, <3>2, <3>3 DEF Abstract!ANext, Abstract!Done
  <2> QED BY <2>7, <2>8
<1> QED BY <1>13, <1>14, <1>15

(* The positions of loops of which one starts, or the innermost ends. *)
LEMMA LoopPositionFacts ==
  ASSUME NEW t, NEW l \in Seq(Records)
  PROVE  /\ Len(LoopPositions(t, l)) = Len(l)
         /\ \A q \in Records : LoopPositions(t, Append(l, q)) = Append(LoopPositions(t, l), Position(t, q))
         /\ l # <<>> =>
              /\ LoopPositions(t, l) # <<>> /\ Last(LoopPositions(t, l)) = Position(t, Last(l))
              /\ Front(LoopPositions(t, l)) = LoopPositions(t, Front(l))
<1>1. PICK S : S = {Position(t, q) : q \in Records}
  OBVIOUS
<1>2. ASSUME NEW k \in Seq(Records)
      PROVE  /\ LoopPositions(t, k) \in Seq(S) /\ Len(LoopPositions(t, k)) = Len(k)
             /\ DOMAIN LoopPositions(t, k) = 1..Len(k)
             /\ \A n \in 1..Len(k) : LoopPositions(t, k)[n] = Position(t, k[n])
  <2>1. PICK f : f = LoopPositions(t, k)
    OBVIOUS
  <2>2. f = [n \in 1..Len(k) |-> Position(t, k[n])] /\ Len(k) \in Nat
    BY <2>1 DEF LoopPositions
  <2>3. f \in [1..Len(k) -> S]
    BY <1>1, <2>2
  <2> QED BY <2>1, <2>2, <2>3
<1>3. ASSUME NEW k \in Seq(Records), NEW q \in Records
      PROVE  LoopPositions(t, Append(k, q)) = Append(LoopPositions(t, k), Position(t, q))
  <2>1. PICK f \in Seq(S) : f = LoopPositions(t, k)
    BY <1>2
  <2>2. PICK x \in S : x = Position(t, q)
    BY <1>1
  <2>3. PICK a \in Seq(Records) : a = Append(k, q)
    BY AppendProperties
  <2>4. Len(a) = Len(k) + 1 /\ a[Len(k) + 1] = q /\ (\A n \in 1..Len(k) : a[n] = k[n]) /\ Len(k) \in Nat
    BY <2>3, AppendProperties
  <2>5. PICK b \in Seq(S) : b = Append(f, x)
    BY AppendProperties
  <2>6. Len(b) = Len(f) + 1 /\ b[Len(f) + 1] = x /\ (\A n \in 1..Len(f) : b[n] = f[n]) /\ Len(f) \in Nat
    BY <2>5, AppendProperties
  <2>7. Len(f) = Len(k) /\ \A n \in 1..Len(k) : f[n] = Position(t, k[n])
    BY <1>2, <2>1
  <2>8. PICK g \in Seq(S) : /\ g = LoopPositions(t, a) /\ Len(g) = Len(a)
                            /\ \A n \in 1..Len(a) : g[n] = Position(t, a[n])
    BY <1>2
  <2>9. Len(g) = Len(b) /\ \A n \in 1..Len(g) : g[n] = b[n]
    BY <2>2, <2>4, <2>6, <2>7, <2>8
  <2>10. g = b
    BY <2>9, SeqEqual
  <2> QED BY <2>1, <2>2, <2>3, <2>5, <2>8, <2>10
<1>4. ASSUME l # <<>>
      PROVE  /\ LoopPositions(t, l) # <<>> /\ Last(LoopPositions(t, l)) = Position(t, Last(l))
             /\ Front(LoopPositions(t, l)) = LoopPositions(t, Front(l))
  <2>1. PICK k \in Seq(Records) : k = Front(l)
    BY <1>4, LoopEnds
  <2>2. PICK q \in Records : q = Last(l)
    BY <1>4, LoopEnds
  <2>3. l = Append(k, q)
    BY <1>4, <2>1, <2>2, LoopEnds
  <2>4. PICK f \in Seq(S) : f = LoopPositions(t, k)
    BY <1>2
  <2>5. PICK x \in S : x = Position(t, q)
    BY <1>1
  <2>6. LoopPositions(t, l) = Append(f, x)
    BY <1>3, <2>3, <2>4, <2>5
  <2>7. Append(f, x) # <<>> /\ Front(Append(f, x)) = f /\ Last(Append(f, x)) = x
    <3>1. PICK b \in Seq(S) : b = Append(f, x)
      BY AppendProperties
    <3>2. /\ b # <<>> /\ Len(b) = Len(f) + 1 /\ b[Len(f) + 1] = x /\ (\A n \in 1..Len(f) : b[n] = f[n])
          /\ Len(f) \in Nat
      BY <3>1, AppendProperties
    <3>3. Last(b) = x
      BY <3>2 DEF Last
    <3>4. PICK g : g = SubSeq(b, 1, Len(f))
      OBVIOUS
    <3>5. g \in Seq(S) /\ Len(g) = Len(f) /\ \A n \in 1..Len(f) : g[n] = b[n]
      BY <3>2, <3>4, SubSeqProperties
    <3>6. g = f
      BY <3>2, <3>5, SeqEqual
    <3>7. Front(b) = g
      BY <3>2, <3>4 DEF Front
    <3> QED BY <3>1, <3>2, <3>3, <3>6, <3>7
  <2> QED BY <2>1, <2>2, <2>4, <2>5, <2>6, <2>7
<1> QED BY <1>2, <1>3, <1>4

(* A loop goes on from record r as one of OrderedMap does from its position. *)
LEMMA VisitRefines ==
  ASSUME MapInv, MapInv', SameEntries(s, s'), NEW outer \in Seq(Records),
         NEW r \in Records \cup {NULL}, r = NULL \/ r \in ToSet(s.records), Visit(outer, r)
  PROVE  Abstract!AVisit(LoopPositions(s, outer), Position(s, r))
<1>1. Located(s, iter, loops) /\ Located(s', iter', loops') /\ iter' = iter
  BY InvLocated DEF Visit
<1>2. PICK u : u = s'
  OBVIOUS
<1>3. PICK m : m = loops'
  OBVIOUS
<1>4. WellFormed(s) /\ WellFormed(u) /\ Located(u, iter, m) /\ SameEntries(s, u)
  BY <1>1, <1>2, <1>3 DEF Located
<1>5. /\ Entries(u) = Entries(s)
      /\ \A q : q = NULL \/ q \in ToSet(u.records) => Position(u, q) = Position(s, q)
  BY <1>4, SameEntriesRefine
<1>6. IteratorPositions(u, iter) = IteratorPositions(s, iter) /\ LoopPositions(u, m) = LoopPositions(s, m)
  BY <1>4, <1>5, PositionsStay
<1>7. /\ Entries(s') = Entries(s) /\ IteratorPositions(s', iter') = IteratorPositions(s, iter)
      /\ LoopPositions(s', loops') = LoopPositions(s, m)
  BY <1>1, <1>2, <1>3, <1>5, <1>6
<1>8. PICK next : next = Following(s, r)
  OBVIOUS
<1>9. /\ next = NULL => Position(s, r) = Len(Entries(s))
      /\ next # NULL =>
           /\ next \in Live(s) /\ Position(s, r) < Len(Entries(s)) /\ Position(s, next) = Position(s, r) + 1
           /\ Entries(s)[Position(s, r) + 1] = Entry(s, next)
  BY <1>4, <1>8, FollowingRefine
<1>10. Position(s, r) \in Nat
  BY <1>4, PositionFacts
<1>11. CASE next # NULL
  <2>1. m = Append(outer, next) /\ out' = <<"entry", Entry(s, next)>>
    BY <1>3, <1>8, <1>11 DEF Visit
  <2>2. next \in Records
    BY <1>4, <1>9, <1>11, StateFacts
  <2>3. LoopPositions(s, m) = Append(LoopPositions(s, outer), Position(s, r) + 1)
    BY <1>9, <1>11, <2>1, <2>2, LoopPositionFacts
  <2>4. out' = <<"entry", Entries(s)[Position(s, r) + 1]>>
    BY <1>9, <1>11, <2>1
  <2> QED BY <1>7, <1>9, <1>11, <2>3, <2>4 DEF Abstract!AVisit
<1>12. CASE next = NULL
  <2>1. m = outer /\ out' = <<"done">>
    BY <1>3, <1>8, <1>12 DEF Visit
  <2>2. ~(Position(s, r) < Len(Entries(s)))
    BY <1>9, <1>10, <1>12
  <2> QED BY <1>7, <2>1, <2>2 DEF Abstract!AVisit
<1> QED BY <1>11, <1>12

(* forEach loops call back with what those of OrderedMap do. *)
LEMMA LoopRefines ==
  ASSUME MapInv, MapInv', ForEach \/ CallbackReturns \/ CallbackThrows
  PROVE  Abstract!AForEach \/ Abstract!ACallbackReturns \/ Abstract!ACallbackThrows
<1>1. Located(s, iter, loops) /\ Located(s', iter', loops') /\ SameEntries(s, s')
  BY InvLocated, LoopSteps
<1>2. loops \in Seq(Records) /\ WellFormed(s)
  BY <1>1 DEF Located
<1>3. CASE ForEach
  <2>1. Len(loops) < MaxLoops /\ Visit(loops, NULL)
    BY <1>3 DEF ForEach
  <2>2. Abstract!AVisit(LoopPositions(s, loops), Position(s, NULL))
    BY <1>1, <1>2, <2>1, VisitRefines
  <2>3. Position(s, NULL) = 0 /\ Len(LoopPositions(s, loops)) < MaxLoops
    BY <1>2, <2>1, LoopPositionFacts DEF Position
  <2> QED BY <2>2, <2>3 DEF Abstract!AForEach
<1>4. ASSUME loops # <<>>
      PROVE  /\ Front(loops) \in Seq(Records) /\ Last(loops) \in Records /\ Last(loops) \in ToSet(s.records)
             /\ LoopPositions(s, loops) # <<>>
             /\ Abstract!Last(LoopPositions(s, loops)) = Position(s, Last(loops))
             /\ Abstract!Front(LoopPositions(s, loops)) = LoopPositions(s, Front(loops))
  <2>1. Front(loops) \in Seq(Records) /\ Last(loops) \in Records
    BY <1>2, <1>4, LoopEnds
  <2>2. Last(loops) \in ToSet(s.records)
    BY <1>4, CursorListed
  <2>3. /\ LoopPositions(s, loops) # <<>> /\ Last(LoopPositions(s, loops)) = Position(s, Last(loops))
        /\ Front(LoopPositions(s, loops)) = LoopPositions(s, Front(loops))
    BY <1>2, <1>4, LoopPositionFacts
  <2> QED BY <2>1, <2>2, <2>3 DEF Abstract!Last, Abstract!Front, Last, Front
<1>5. CASE CallbackReturns
  <2>1. loops # <<>> /\ Visit(Front(loops), Last(loops))
    BY <1>5 DEF CallbackReturns
  <2>2. Abstract!AVisit(LoopPositions(s, Front(loops)), Position(s, Last(loops)))
    BY <1>1, <1>4, <2>1, VisitRefines
  <2> QED BY <1>4, <2>1, <2>2 DEF Abstract!ACallbackReturns
<1>6. CASE CallbackThrows
  <2>1. loops # <<>> /\ loops' = Front(loops) /\ out' = <<"exception">> /\ iter' = iter
    BY <1>6 DEF CallbackThrows
  <2>2. PICK u : u = s'
    OBVIOUS
  <2>3. PICK m : m = loops'
    OBVIOUS
  <2>4. WellFormed(u) /\ Located(u, iter, m) /\ SameEntries(s, u)
    BY <1>1, <2>1, <2>2, <2>3 DEF Located
  <2>5. /\ Entries(u) = Entries(s)
        /\ \A q : q = NULL \/ q \in ToSet(u.records) => Position(u, q) = Position(s, q)
    BY <1>2, <2>4, SameEntriesRefine
  <2>6. IteratorPositions(u, iter) = IteratorPositions(s, iter) /\ LoopPositions(u, m) = LoopPositions(s, m)
    BY <2>4, <2>5, PositionsStay
  <2>7. /\ Entries(s') = Entries(s) /\ IteratorPositions(s', iter') = IteratorPositions(s, iter)
        /\ LoopPositions(s', loops') = LoopPositions(s, Front(loops))
    BY <2>1, <2>2, <2>3, <2>5, <2>6
  <2> QED BY <1>4, <2>1, <2>7 DEF Abstract!ACallbackThrows
<1> QED BY <1>3, <1>5, <1>6

(* A new map is an empty OrderedMap. *)
LEMMA InitRefines ==
  ASSUME Init
  PROVE  Abstract!AInit
<1>1. Live(s) = {} /\ loops = <<>> /\ out = <<>> /\ iter = [i \in Iterators |-> NoIterator]
  BY DEF Init, Live, Free
<1>2. WellFormed(s)
  BY InitInv DEF MapInv
<1>3. Occupied(s) = <<>>
  <2>1. Occupied(s) \in Seq(Records) /\ Len(Occupied(s)) = Cardinality(Live(s))
    BY <1>2, OccupiedFacts
  <2>2. Cardinality(Live(s)) = 0
    BY <1>1, FS_EmptySet
  <2> QED BY <2>1, <2>2
<1>4. Entries(s) = <<>>
  BY <1>1, <1>3, ClearRefine
<1>5. IteratorPositions(s, iter) = [i \in Iterators |-> None]
  BY <1>1 DEF IteratorPositions, NoIterator
<1>6. LoopPositions(s, loops) = <<>>
  BY <1>1 DEF LoopPositions
<1> QED BY <1>1, <1>4, <1>5, <1>6 DEF Abstract!AInit

(* Every step is one of OrderedMap. *)
LEMMA NextRefines ==
  ASSUME MapInv, MapInv', [Next]_vars
  PROVE  [Abstract!ANextStep]_(Abstract!avars)
<1>1. CASE UNCHANGED vars
  BY <1>1 DEF vars, Abstract!avars
<1>2. ASSUME NEW k \in Keys \cup {NegZero}, Lookup(k)
      PROVE  Abstract!ANextStep
  BY <1>2, LookupRefines, NormalizeType DEF Abstract!ANextStep
<1>3. ASSUME NEW k \in Keys \cup {NegZero}, Delete(k)
      PROVE  Abstract!ANextStep
  BY <1>3, DeleteRefines, NormalizeType DEF Abstract!ANextStep
<1>4. ASSUME NEW k \in Keys \cup {NegZero}, SetFails(k)
      PROVE  Abstract!ANextStep
  <2>1. Abstract!AFail
    BY <1>4 DEF SetFails, Abstract!AFail
  <2> QED BY <2>1 DEF Abstract!ANextStep
<1>5. ASSUME NEW k \in Keys \cup {NegZero}, NEW v \in Values, Set(k, v)
      PROVE  Abstract!ANextStep
  BY <1>5, SetRefines, NormalizeType DEF Abstract!ANextStep
<1>6. CASE Size
  <2>1. s.record_count = Cardinality(Live(s))
    BY DEF MapInv, WellFormed, Exact
  <2>2. Len(Entries(s)) = Len(Occupied(s)) /\ Len(Occupied(s)) = Cardinality(Live(s))
    BY OccupiedFacts DEF MapInv
  <2>3. Abstract!ASize
    BY <1>6, <2>1, <2>2 DEF Size, Abstract!ASize
  <2> QED BY <2>3 DEF Abstract!ANextStep
<1>7. CASE Clear
  BY <1>7, ClearRefines DEF Abstract!ANextStep
<1>8. ASSUME NEW i \in Iterators, CreateIterator(i) \/ IteratorNext(i) \/ FreeIterator(i)
      PROVE  Abstract!ANextStep
  BY <1>8, IteratorRefines DEF Abstract!ANextStep
<1>9. CASE ForEach \/ CallbackReturns \/ CallbackThrows
  BY <1>9, LoopRefines DEF Abstract!ANextStep
<1> QED BY <1>1, <1>2, <1>3, <1>4, <1>5, <1>6, <1>7, <1>8, <1>9 DEF Next

(* A Map is an ordered map to the scripts that use it, whatever its iterators,  *)
(* its forEach loops and their callbacks do to it, and however its hash table   *)
(* grows: the records of quickjs.c implement OrderedMap.                       *)
THEOREM MapImplementsOrderedMap == Spec => ImplementsOrderedMap
<1>1. Init => Abstract!AInit
  BY InitRefines
<1>2. MapInv /\ MapInv' /\ [Next]_vars => [Abstract!ANextStep]_(Abstract!avars)
  BY NextRefines
<1> QED BY <1>1, <1>2, MapInvariance, PTL DEF Spec, ImplementsOrderedMap, Abstract!AbstractMap
=============================================================================
