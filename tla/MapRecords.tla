----------------------------- MODULE MapRecords -----------------------------
(***************************************************************************)
(* The records of a Map or a Set (quickjs.c): a list in the order of          *)
(* insertion, a hash table over it, and iterations that lock the record they   *)
(* are at, so that a deleted record stays in the list, empty, until the last   *)
(* of them has moved on.  A record that has been freed may be used again.      *)
(***************************************************************************)
EXTENDS Integers, FiniteSets, Sequences, SequencesExt

CONSTANTS
  Keys, Values, Iterators, None,
  Zero, NegZero,     \* the numbers 0 and -0
  Hash,              \* map_hash_key: of each key
  BitAnd(_, _),      \* the bitwise operator & of C
  FirstThreshold,    \* record_count_threshold of a new map (4 in the code)
  MaxRecords,        \* bound: records that there is memory for
  MaxSlack,          \* bound: hash table entries that realloc gives on top
  MaxLoops           \* bound: nested forEach loops

(* A table is resized only with 2 * n records in its n entries, or from 1 to 4. *)
MaxHashSize == MaxRecords + 4 + MaxSlack

ASSUME MapAssumption ==
  /\ Zero \in Keys /\ NegZero \notin Keys /\ None \notin Int
  /\ IsFiniteSet(Keys) /\ IsFiniteSet(Iterators)
  /\ Hash \in [Keys -> Nat]
  /\ FirstThreshold \in Nat \ {0} /\ MaxRecords \in Nat /\ MaxSlack \in Nat /\ MaxLoops \in Nat

(* x & m has no bit that m does not have. *)
ASSUME AndAssumption ==
  \A k \in Keys : \A m \in 0..(MaxHashSize - 1) : BitAnd(Hash[k], m) \in 0..m

VARIABLES
  s,      \* the JSMapState
  iter,   \* the iterators: obj is whether it still has the map
  loops,  \* the current records of the forEach loops, the innermost last
  out     \* what the last operation returned

vars == <<s, iter, loops, out>>

NULL == 0

Records == 1..MaxRecords

Free == [ref_count |-> 0, empty |-> TRUE, key |-> None, value |-> None]

NoIterator == [open |-> FALSE, obj |-> FALSE, cur_record |-> NULL]

Init ==
  /\ s = [records |-> <<>>, record |-> [r \in Records |-> Free],
          hash_table |-> [h \in {0} |-> <<>>], record_count |-> 0,
          record_count_threshold |-> FirstThreshold]
  /\ iter = [i \in Iterators |-> NoIterator]
  /\ loops = <<>> /\ out = <<>>

Normalize(k) == IF k = NegZero THEN Zero ELSE k

HashSize(t) == Cardinality(DOMAIN t.hash_table)

(* The index of key k in a table of n entries; n need not be a power of two. *)
Bucket(k, n) == BitAnd(Hash[k], n - 1)

(* The places of list that have a member of S, and the n-th of a set of places. *)
Places(list, S) == {m \in DOMAIN list : list[m] \in S}

Rank(P, m) == Cardinality({x \in P : x <= m})

Nth(P, n) == CHOOSE m \in P : Rank(P, m) = n

(* The list that is left of list when all but the members of S are taken out. *)
Sublist(list, S) ==
  LET P == Places(list, S) IN [n \in 1..Cardinality(P) |-> list[Nth(P, n)]]

Place(list, r) == CHOOSE n \in DOMAIN list : list[n] = r

Others(r) == Records \ {r}

(* map_find_record. *)
FindRecord(t, k) ==
  LET chain == t.hash_table[Bucket(k, HashSize(t))]
      found == {n \in 1..Len(chain) : t.record[chain[n]].key = k}
  IN  IF found = {} THEN NULL ELSE chain[CHOOSE n \in found : \A n1 \in found : n <= n1]

(* The records that have an entry. *)
Live(t) == {r \in Records : ~t.record[r].empty}

Chains(t, n) ==
  [h \in 0..(n - 1) |-> Sublist(t.records, {r \in Live(t) : Bucket(t.record[r].key, n) = h})]

(* Mutant: the records keep the places they had in the smaller table. *)
HashResizeInPlace(t, slack) ==
  LET n == (IF HashSize(t) = 1 THEN 4 ELSE 2 * HashSize(t)) + slack
  IN  [t EXCEPT !.hash_table = [h \in 0..(n - 1) |-> IF h < HashSize(t) THEN @[h] ELSE <<>>],
                !.record_count_threshold = 2 * n]

(* map_hash_resize, with slack entries more than it asked for. *)
HashResize(t, slack) ==
  LET n == (IF HashSize(t) = 1 THEN 4 ELSE 2 * HashSize(t)) + slack
  IN  [t EXCEPT !.hash_table = Chains(t, n), !.record_count_threshold = 2 * n]

(* map_add_record with the memory of record r, before the table is resized. *)
LinkRecord(t, k, r) ==
  [t EXCEPT !.record[r] = [ref_count |-> 1, empty |-> FALSE, key |-> k, value |-> None],
            !.hash_table[Bucket(k, HashSize(t))] = Append(@, r),
            !.records = Append(@, r), !.record_count = @ + 1]

(* map_add_record: the table grows by itself, or not when there is no memory. *)
AddRecord(t, k, r) ==
  LET t1 == LinkRecord(t, k, r)
  IN  IF t1.record_count >= t1.record_count_threshold
      THEN {t1} \cup {HashResize(t1, slack) : slack \in 0..MaxSlack}
      ELSE {t1}

Unlink(t, r) == [t EXCEPT !.records = Sublist(@, Others(r)), !.record[r] = Free]

(* map_decref_record. *)
DecrefRecord(t, r) ==
  LET t1 == [t EXCEPT !.record[r].ref_count = @ - 1]
  IN  IF t1.record[r].ref_count = 0 THEN Unlink(t1, r) ELSE t1

(* Mutant: the record stays in the hash table while an iteration is at it. *)
DeleteRecordInTable(t, r) ==
  IF t.record[r].empty THEN t
  ELSE IF t.record[r].ref_count > 1
  THEN [t EXCEPT !.record_count = @ - 1,
                 !.record[r] = [Free EXCEPT !.ref_count = t.record[r].ref_count - 1]]
  ELSE [Unlink(t, r) EXCEPT !.record_count = @ - 1,
          !.hash_table = [h \in DOMAIN @ |-> Sublist(@[h], Others(r))]]

(* map_delete_record: a record that is locked stays in the list, empty. *)
DeleteRecord(t, r) ==
  LET t1 == [t EXCEPT !.record[r].ref_count = @ - 1, !.record_count = @ - 1,
                      !.hash_table = [h \in DOMAIN @ |-> Sublist(@[h], Others(r))]]
  IN  IF t.record[r].empty THEN t
      ELSE IF t1.record[r].ref_count = 0 THEN Unlink(t1, r)
      ELSE [t1 EXCEPT !.record[r] = [Free EXCEPT !.ref_count = t1.record[r].ref_count]]

(* Mutant: records that are empty already are deleted once more. *)
DeleteAllAgain(t) ==
  [t EXCEPT !.record = [r \in Records |->
              IF r \in ToSet(t.records) THEN [Free EXCEPT !.ref_count = t.record[r].ref_count - 1] ELSE @[r]],
            !.records = Sublist(@, {r \in Records : t.record[r].ref_count > 1}),
            !.hash_table = [h \in DOMAIN @ |-> Sublist(@[h], Records \ Live(t))],
            !.record_count = @ - Len(t.records)]

(* map_delete_record, of every record of the list in turn. *)
DeleteAll(t) ==
  [t EXCEPT !.record = [r \in Records |->
              IF @[r].empty THEN @[r] ELSE [Free EXCEPT !.ref_count = t.record[r].ref_count - 1]],
            !.records = Sublist(@, {r \in Records : t.record[r].empty \/ t.record[r].ref_count > 1}),
            !.hash_table = [h \in DOMAIN @ |-> Sublist(@[h], Records \ Live(t))],
            !.record_count = @ - Cardinality(Live(t))]

LockRecord(t, r) == [t EXCEPT !.record[r].ref_count = @ + 1]

(* The first record after r, or of the list, that is not empty. *)
Following(t, r) ==
  LET start == IF r = NULL THEN 0 ELSE Place(t.records, r)
      live == {n \in (start + 1)..Len(t.records) : ~t.record[t.records[n]].empty}
  IN  IF live = {} THEN NULL ELSE t.records[CHOOSE n \in live : \A n1 \in live : n <= n1]

Entry(t, r) == <<t.record[r].key, t.record[r].value>>

-----------------------------------------------------------------------------
(* js_map_set. *)
Set(k, v) ==
  LET r == FindRecord(s, Normalize(k))
  IN  /\ \/ r # NULL /\ s' = [s EXCEPT !.record[r].value = v]
         \/ /\ r = NULL
            /\ \E q \in Records \ ToSet(s.records) : \E t \in AddRecord(s, Normalize(k), q) :
                 s' = [t EXCEPT !.record[q].value = v]
      /\ out' = <<>>
      /\ UNCHANGED <<iter, loops>>

(* js_map_set without the memory for a record. *)
SetFails(k) ==
  /\ FindRecord(s, Normalize(k)) = NULL
  /\ out' = <<"exception">>
  /\ UNCHANGED <<s, iter, loops>>

(* js_map_get and js_map_has. *)
Lookup(k) ==
  LET r == FindRecord(s, Normalize(k))
  IN  /\ out' = <<"value", IF r = NULL THEN None ELSE s.record[r].value>>
      /\ UNCHANGED <<s, iter, loops>>

(* js_map_get_size. *)
Size ==
  /\ out' = <<"size", s.record_count>>
  /\ UNCHANGED <<s, iter, loops>>

(* js_map_delete. *)
Delete(k) ==
  LET r == FindRecord(s, Normalize(k))
  IN  /\ s' = IF r = NULL THEN s ELSE DeleteRecord(s, r)
      /\ out' = <<"deleted", r # NULL>>
      /\ UNCHANGED <<iter, loops>>

(* js_map_clear. *)
Clear ==
  /\ s' = DeleteAll(s)
  /\ out' = <<>>
  /\ UNCHANGED <<iter, loops>>

(* js_create_map_iterator. *)
CreateIterator(i) ==
  /\ ~iter[i].open
  /\ iter' = [iter EXCEPT ![i] = [open |-> TRUE, obj |-> TRUE, cur_record |-> NULL]]
  /\ out' = <<>>
  /\ UNCHANGED <<s, loops>>

(* Mutant: a record is not unlocked when the iteration leaves it. *)
LeaveLocked(t, r) == t

(* An iteration leaves record r. *)
Leave(t, r) == IF r = NULL THEN t ELSE DecrefRecord(t, r)

(* js_map_iterator_next: the next link is read before the record is unlocked. *)
IteratorNext(i) ==
  LET next == Following(s, iter[i].cur_record)
      left == Leave(s, iter[i].cur_record)
  IN  /\ iter[i].open
      /\ IF iter[i].obj /\ next # NULL
         THEN /\ s' = LockRecord(left, next)
              /\ iter' = [iter EXCEPT ![i].cur_record = next]
              /\ out' = <<"entry", Entry(s, next)>>
         ELSE /\ s' = IF iter[i].obj THEN left ELSE s
              /\ iter' = [iter EXCEPT ![i].obj = FALSE, ![i].cur_record = NULL]
              /\ out' = <<"done">>
      /\ UNCHANGED loops

(* js_map_iterator_finalizer. *)
FreeIterator(i) ==
  /\ iter[i].open
  /\ s' = Leave(s, iter[i].cur_record)
  /\ iter' = [iter EXCEPT ![i] = NoIterator]
  /\ out' = <<>>
  /\ UNCHANGED loops

(* js_map_forEach goes on from record r of state s, with the loops around it. *)
Visit(outer, r) ==
  LET next == Following(s, r)
      left == Leave(s, r)
  IN  /\ IF next # NULL
         THEN s' = LockRecord(left, next) /\ loops' = Append(outer, next) /\ out' = <<"entry", Entry(s, next)>>
         ELSE s' = left /\ loops' = outer /\ out' = <<"done">>
      /\ UNCHANGED iter

ForEach == Len(loops) < MaxLoops /\ Visit(loops, NULL)

CallbackReturns == loops # <<>> /\ Visit(Front(loops), Last(loops))

CallbackThrows ==
  /\ loops # <<>>
  /\ s' = DecrefRecord(s, Last(loops)) /\ loops' = Front(loops)
  /\ out' = <<"exception">>
  /\ UNCHANGED iter

Next ==
  \/ \E k \in Keys \cup {NegZero} :
       Lookup(k) \/ Delete(k) \/ SetFails(k) \/ \E v \in Values : Set(k, v)
  \/ Size \/ Clear
  \/ \E i \in Iterators : CreateIterator(i) \/ IteratorNext(i) \/ FreeIterator(i)
  \/ ForEach \/ CallbackReturns \/ CallbackThrows

Spec == Init /\ [][Next]_vars
-----------------------------------------------------------------------------
Cursors(r) ==
  Cardinality({i \in Iterators : iter[i].cur_record = r})
    + Cardinality({n \in DOMAIN loops : loops[n] = r})

TypeOK ==
  /\ IsInjective(s.records) /\ ToSet(s.records) \subseteq Records
  /\ s.record_count \in 0..Cardinality(Keys)
  /\ \A r \in Records : s.record[r].ref_count \in Nat /\ s.record[r].key \in Keys \cup {None}
  /\ \A h \in DOMAIN s.hash_table : ToSet(s.hash_table[h]) \subseteq Records

(* A record is in the list exactly as long as it has an entry or an iteration   *)
(* is at it, and its reference count says how many of these there are: no       *)
(* iteration is ever at a record that was freed, and no empty record is left    *)
(* behind.                                                                    *)
RecordsCounted ==
  \A r \in Records :
    /\ s.record[r].ref_count = Cursors(r) + (IF s.record[r].empty THEN 0 ELSE 1)
    /\ r \in ToSet(s.records) <=> s.record[r].ref_count > 0

(* What TableExact says, of a map state t. *)
Exact(t) ==
  /\ t.hash_table = Chains(t, HashSize(t))
  /\ t.record_count = Cardinality(Live(t))

(* The hash table has every record with an entry once, in the chain of its key, *)
(* and no empty one, whatever the size of the table.                           *)
TableExact == Exact(s)

(* The records that have an entry, in the order of the list. *)
Occupied(t) == Sublist(t.records, Live(t))

Entries(t) == LET o == Occupied(t) IN [n \in 1..Len(o) |-> Entry(t, o[n])]

(* Where an iteration at record r is: how many entries there are up to r. *)
Position(t, r) ==
  IF r = NULL THEN 0
  ELSE Cardinality({q \in Live(t) : Place(t.records, q) <= Place(t.records, r)})

(* The positions of the iterators it and of the loops l, as OrderedMap has them. *)
IteratorPositions(t, it) ==
  [i \in Iterators |->
     IF ~it[i].open THEN None ELSE IF ~it[i].obj THEN -1 ELSE Position(t, it[i].cur_record)]

LoopPositions(t, l) == [n \in DOMAIN l |-> Position(t, l[n])]

Abstract == INSTANCE OrderedMap WITH
  entries <- Entries(s), pos <- IteratorPositions(s, iter), loops <- LoopPositions(s, loops)

(* The Map is an ordered map to the scripts that use it: lookups, sizes, and     *)
(* what iterators and forEach loops return, while entries are added, replaced,  *)
(* deleted and cleared under them, are those of OrderedMap.                    *)
ImplementsOrderedMap == Abstract!AbstractMap
-----------------------------------------------------------------------------
(* The inductive invariant behind the theorems of MapRecordsProofs. *)

RecordType ==
  [ref_count : Nat, empty : BOOLEAN, key : Keys \cup {None}, value : Values \cup {None}]

(* With a hash table of n entries. *)
MapState(n) ==
  [records : Seq(Records), record : [Records -> RecordType], hash_table : [0..(n - 1) -> Seq(Records)],
   record_count : Nat, record_count_threshold : Nat]

(* No two records have an entry for the same key. *)
KeysOnce(t) ==
  /\ \A r \in Live(t) : t.record[r].key \in Keys
  /\ \A q, r \in Live(t) : t.record[q].key = t.record[r].key => q = r

(* The state of a map, apart from its reference counts. *)
WellFormed(t) ==
  /\ \E n \in 1..MaxHashSize : t \in MapState(n)
  /\ IsInjective(t.records) /\ Live(t) \subseteq ToSet(t.records)
  /\ Exact(t) /\ KeysOnce(t)
  /\ t.record_count_threshold = IF HashSize(t) = 1 THEN FirstThreshold ELSE 2 * HashSize(t)

IteratorType == [open : BOOLEAN, obj : BOOLEAN, cur_record : Records \cup {NULL}]

(* An iterator without its map is at no record. *)
IteratorsWellFormed ==
  /\ iter \in [Iterators -> IteratorType]
  /\ \A i \in Iterators : (~iter[i].open => ~iter[i].obj) /\ (~iter[i].obj => iter[i].cur_record = NULL)

(* Every part of a map fits the others: the list, the hash table, the counts,   *)
(* and the records that iterators and loops are at.                            *)
MapInv ==
  WellFormed(s) /\ RecordsCounted /\ IteratorsWellFormed /\ loops \in Seq(Records)
=============================================================================
