---------------------------- MODULE MCMapRecords ----------------------------
(* MapRecords on a small instance. *)
EXTENDS MapRecords, Bitwise

(* Keys 0 and 4 share a chain in a table of four entries but not in one of five. *)
MCHash == [k \in Keys |-> k]

MCBitAnd(x, y) == x & y

(* DeleteAll is DeleteRecord on one record of the list after the other. *)
DeletesEach == DeleteAll(s) = FoldLeft(DeleteRecord, s, s.records)

(* Sublist is SelectSeq. *)
SublistSelects ==
  \A S \in SUBSET Records : Sublist(s.records, S) = SelectSeq(s.records, LAMBDA r : r \in S)
=============================================================================
