----------------------------- MODULE OrderedMap -----------------------------
(***************************************************************************)
(* What a Map promises to scripts: entries in the order of their insertion,   *)
(* and iterations (iterator objects, and forEach loops that wait for their    *)
(* callback) that pass over every entry once although entries come and go.    *)
(* The position of an iteration is the number of present entries it has       *)
(* passed.                                                                   *)
(***************************************************************************)
EXTENDS Integers, Sequences, SequencesExt

CONSTANTS Keys, Values, Iterators, None, MaxLoops

VARIABLES
  entries,  \* pairs of a key and a value
  pos,      \* of each iterator: a position, None, or Done after its last entry
  loops,    \* the positions of the forEach loops, the innermost last
  out       \* what the last operation returned

Done == -1

avars == <<entries, pos, loops, out>>

AInit == entries = <<>> /\ pos = [i \in Iterators |-> None] /\ loops = <<>> /\ out = <<>>

Index(k) == {n \in 1..Len(entries) : entries[n][1] = k}

(* Position p after the entry at n has gone. *)
Shift(p, n) == IF p \in Nat /\ n <= p THEN p - 1 ELSE p

ASet(k, v) ==
  /\ out' = <<>> /\ UNCHANGED <<pos, loops>>
  /\ entries' = IF Index(k) = {} THEN Append(entries, <<k, v>>)
                ELSE [entries EXCEPT ![CHOOSE n \in Index(k) : TRUE] = <<k, v>>]

(* An insertion for which there is no memory. *)
AFail == out' = <<"exception">> /\ UNCHANGED <<entries, pos, loops>>

ALookup(k) ==
  /\ out' = <<"value", IF Index(k) = {} THEN None ELSE entries[CHOOSE n \in Index(k) : TRUE][2]>>
  /\ UNCHANGED <<entries, pos, loops>>

ASize == out' = <<"size", Len(entries)>> /\ UNCHANGED <<entries, pos, loops>>

ADelete(k) ==
  /\ out' = <<"deleted", Index(k) # {}>>
  /\ IF Index(k) = {} THEN UNCHANGED <<entries, pos, loops>>
     ELSE LET n == CHOOSE n \in Index(k) : TRUE
          IN  /\ entries' = RemoveAt(entries, n)
              /\ pos' = [i \in Iterators |-> Shift(pos[i], n)]
              /\ loops' = [l \in DOMAIN loops |-> Shift(loops[l], n)]

AClear ==
  /\ out' = <<>> /\ entries' = <<>>
  /\ pos' = [i \in Iterators |-> IF pos[i] \in Nat THEN 0 ELSE pos[i]]
  /\ loops' = [l \in DOMAIN loops |-> 0]

ANewIterator(i) ==
  /\ out' = <<>> /\ UNCHANGED <<entries, loops>>
  /\ pos[i] = None /\ pos' = [pos EXCEPT ![i] = 0]

ANext(i) ==
  /\ pos[i] # None
  /\ IF pos[i] \in Nat /\ pos[i] < Len(entries)
     THEN pos' = [pos EXCEPT ![i] = @ + 1] /\ out' = <<"entry", entries[pos[i] + 1]>>
     ELSE pos' = [pos EXCEPT ![i] = Done] /\ out' = <<"done">>
  /\ UNCHANGED <<entries, loops>>

ADropIterator(i) ==
  /\ out' = <<>> /\ UNCHANGED <<entries, loops>>
  /\ pos[i] # None /\ pos' = [pos EXCEPT ![i] = None]

(* forEach calls back with the entry after position p of outer, or returns. *)
AVisit(outer, p) ==
  /\ IF p < Len(entries)
     THEN loops' = Append(outer, p + 1) /\ out' = <<"entry", entries[p + 1]>>
     ELSE loops' = outer /\ out' = <<"done">>
  /\ UNCHANGED <<entries, pos>>

AForEach == Len(loops) < MaxLoops /\ AVisit(loops, 0)

ACallbackReturns == loops # <<>> /\ AVisit(Front(loops), Last(loops))

ACallbackThrows ==
  /\ loops # <<>> /\ loops' = Front(loops)
  /\ out' = <<"exception">> /\ UNCHANGED <<entries, pos>>

ANextStep ==
  \/ \E k \in Keys : ALookup(k) \/ ADelete(k) \/ \E v \in Values : ASet(k, v)
  \/ AFail \/ ASize \/ AClear
  \/ \E i \in Iterators : ANewIterator(i) \/ ANext(i) \/ ADropIterator(i)
  \/ AForEach \/ ACallbackReturns \/ ACallbackThrows

AbstractMap == AInit /\ [][ANextStep]_avars
=============================================================================
