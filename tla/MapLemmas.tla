----------------------------- MODULE MapLemmas ------------------------------
(***************************************************************************)
(* Facts about the lists of records of MapRecords: what Sublist leaves of a   *)
(* list, in which order, and how sublists of sublists and of longer lists     *)
(* compose; then what each C function does to a well formed map.              *)
(***************************************************************************)
EXTENDS MapRecords, FiniteSetTheorems, SequenceTheorems, TLAPS

(* The rank of a member of a finite set of places is between 1 and the size of *)
(* the set, and grows with the member.                                        *)
LEMMA RankMonotone ==
  ASSUME NEW N \in Nat, NEW P \in SUBSET (1..N)
  PROVE  /\ IsFiniteSet(P) /\ Cardinality(P) \in Nat
         /\ \A m \in P : Rank(P, m) \in 1..Cardinality(P)
         /\ \A m, n \in P : m < n => Rank(P, m) < Rank(P, n)
<1>1. IsFiniteSet(P) /\ Cardinality(P) \in Nat
  <2>1. IsFiniteSet(1..N)
    BY FS_Interval
  <2> QED BY <2>1, FS_Subset, FS_CardinalityType
<1>2. ASSUME NEW m \in P PROVE Rank(P, m) \in 1..Cardinality(P)
  <2> DEFINE T == {x \in P : x <= m}
  <2>1. T \in SUBSET P /\ m \in T
    OBVIOUS
  <2>2. IsFiniteSet(T) /\ Cardinality(T) <= Cardinality(P) /\ Cardinality(T) \in Nat
    BY <1>1, <2>1, FS_Subset, FS_CardinalityType
  <2>3. Cardinality(T) # 0
    BY <2>1, <2>2, FS_EmptySet
  <2> QED BY <1>1, <2>2, <2>3 DEF Rank
<1>3. ASSUME NEW m \in P, NEW n \in P, m < n PROVE Rank(P, m) < Rank(P, n)
  <2> DEFINE T == {x \in P : x <= m}
             U == {x \in P : x <= n}
  <2>0. \A x \in P : x \in Int
    OBVIOUS
  <2>1. T \in SUBSET U /\ U \in SUBSET P /\ n \in U /\ n \notin T
    <3>1. \A x \in P : x <= m => x <= n
      BY <1>3, <2>0
    <3>2. ~(n <= m) /\ n <= n
      BY <1>3, <2>0
    <3> QED BY <3>1, <3>2
  <2>2. IsFiniteSet(U) /\ Cardinality(U) \in Nat
    BY <1>1, <2>1, FS_Subset, FS_CardinalityType
  <2>3. IsFiniteSet(T) /\ Cardinality(T) \in Nat /\ Cardinality(T) <= Cardinality(U)
    BY <2>1, <2>2, FS_Subset, FS_CardinalityType
  <2>4. Cardinality(T) # Cardinality(U)
    BY <2>1, <2>2, FS_Subset
  <2> QED BY <2>2, <2>3, <2>4 DEF Rank
<1> QED BY <1>1, <1>2, <1>3

(* Nth counts the members of a set of places from the least on. *)
LEMMA NthRank ==
  ASSUME NEW N \in Nat, NEW P \in SUBSET (1..N)
  PROVE  /\ \A n \in 1..Cardinality(P) : Nth(P, n) \in P /\ Rank(P, Nth(P, n)) = n
         /\ \A m \in P : Nth(P, Rank(P, m)) = m
<1>1. /\ IsFiniteSet(P) /\ Cardinality(P) \in Nat
      /\ \A m \in P : Rank(P, m) \in 1..Cardinality(P)
      /\ \A m, n \in P : m < n => Rank(P, m) < Rank(P, n)
  BY RankMonotone
<1>2. \A m, n \in P : Rank(P, m) = Rank(P, n) => m = n
  <2> SUFFICES ASSUME NEW m \in P, NEW n \in P, Rank(P, m) = Rank(P, n), m # n PROVE FALSE
    OBVIOUS
  <2>1. m < n \/ n < m
    OBVIOUS
  <2>2. Rank(P, m) < Rank(P, n) \/ Rank(P, n) < Rank(P, m)
    BY <1>1, <2>1
  <2>3. Rank(P, m) \in Int /\ Rank(P, n) \in Int
    BY <1>1
  <2> QED BY <2>2, <2>3
<1>3. ASSUME NEW n \in 1..Cardinality(P) PROVE \E m \in P : Rank(P, m) = n
  <2> DEFINE f == [m \in P |-> Rank(P, m)]
  <2>1. f \in Injection(P, 1..Cardinality(P))
    BY <1>1, <1>2 DEF Injection, IsInjective
  <2>2. IsFiniteSet(1..Cardinality(P)) /\ Cardinality(1..Cardinality(P)) = Cardinality(P)
    BY <1>1, FS_Interval
  <2>3. f \in Surjection(P, 1..Cardinality(P))
    BY <2>1, <2>2, FS_Injection
  <2> QED BY <2>3 DEF Surjection
<1>4. \A n \in 1..Cardinality(P) : Nth(P, n) \in P /\ Rank(P, Nth(P, n)) = n
  BY <1>3 DEF Nth
<1> QED BY <1>1, <1>2, <1>4

-----------------------------------------------------------------------------
(* The place of a member of a list without repetitions. *)
LEMMA PlaceFacts ==
  ASSUME NEW R, NEW list \in Seq(R), IsInjective(list)
  PROVE  /\ \A r \in ToSet(list) : Place(list, r) \in 1..Len(list) /\ list[Place(list, r)] = r
         /\ \A n \in 1..Len(list) : list[n] \in ToSet(list) /\ Place(list, list[n]) = n
         /\ \A q, r \in ToSet(list) : Place(list, q) = Place(list, r) => q = r
         /\ ToSet(list) \subseteq R
<1>1. DOMAIN list = 1..Len(list)
  OBVIOUS
<1>2. ASSUME NEW r \in ToSet(list) PROVE Place(list, r) \in 1..Len(list) /\ list[Place(list, r)] = r
  BY <1>1 DEF ToSet, Place
<1>3. ASSUME NEW n \in 1..Len(list) PROVE list[n] \in ToSet(list) /\ Place(list, list[n]) = n
  <2>1. list[n] \in ToSet(list)
    BY <1>1 DEF ToSet
  <2>2. Place(list, list[n]) \in 1..Len(list) /\ list[Place(list, list[n])] = list[n]
    BY <1>2, <2>1
  <2> QED BY <1>1, <2>1, <2>2 DEF IsInjective
<1>4. ToSet(list) \subseteq R
  BY <1>1 DEF ToSet
<1> QED BY <1>2, <1>3, <1>4

(* The members of a list up to place n are n. *)
LEMMA PlaceCounts ==
  ASSUME NEW R, NEW list \in Seq(R), IsInjective(list), NEW n \in 1..Len(list)
  PROVE  Cardinality({q \in ToSet(list) : Place(list, q) <= n}) = n
<1> DEFINE T == {q \in ToSet(list) : Place(list, q) <= n}
           f == [m \in 1..n |-> list[m]]
<1>1. /\ \A r \in ToSet(list) : Place(list, r) \in 1..Len(list) /\ list[Place(list, r)] = r
      /\ \A m \in 1..Len(list) : list[m] \in ToSet(list) /\ Place(list, list[m]) = m
  BY PlaceFacts
<1>2. n \in Nat /\ \A m \in 1..n : m \in 1..Len(list)
  OBVIOUS
<1>3. ASSUME NEW m \in 1..n PROVE list[m] \in T
  BY <1>1, <1>2
<1>4. f \in Injection(1..n, T)
  <2>1. f \in [1..n -> T]
    BY <1>3
  <2>2. \A a, b \in 1..n : list[a] = list[b] => a = b
    BY <1>1, <1>2
  <2> QED BY <2>1, <2>2 DEF Injection, IsInjective
<1>5. f \in Surjection(1..n, T)
  <2>1. ASSUME NEW q \in T PROVE \E m \in 1..n : f[m] = q
    <3>1. Place(list, q) \in 1..n /\ list[Place(list, q)] = q
      BY <1>1
    <3> QED BY <3>1
  <2> QED BY <2>1, <1>4 DEF Surjection, Injection
<1>6. IsFiniteSet(1..n) /\ Cardinality(1..n) = n
  BY <1>2, FS_Interval
<1>7. Cardinality(T) = Cardinality(1..n)
  BY <1>4, <1>5, <1>6, FS_Surjection
<1> QED BY <1>6, <1>7

(* A list without repetitions is its members and their order. *)
LEMMA SameList ==
  ASSUME NEW R, NEW K \in Seq(R), IsInjective(K), NEW L \in Seq(R), IsInjective(L),
         ToSet(K) = ToSet(L),
         \A a, b \in ToSet(K) : Place(K, a) <= Place(K, b) <=> Place(L, a) <= Place(L, b)
  PROVE  K = L
<1>1. /\ \A r \in ToSet(K) : Place(K, r) \in 1..Len(K) /\ K[Place(K, r)] = r
      /\ \A m \in 1..Len(K) : K[m] \in ToSet(K) /\ Place(K, K[m]) = m
  BY PlaceFacts
<1>2. /\ \A r \in ToSet(L) : Place(L, r) \in 1..Len(L) /\ L[Place(L, r)] = r
      /\ \A m \in 1..Len(L) : L[m] \in ToSet(L) /\ Place(L, L[m]) = m
  BY PlaceFacts
<1>3. ASSUME NEW n \in 1..Len(K) PROVE n \in 1..Len(L) /\ L[n] = K[n]
  <2>1. PICK m : m = Place(L, K[n])
    OBVIOUS
  <2>2. K[n] \in ToSet(K) /\ Place(K, K[n]) = n /\ m \in 1..Len(L) /\ L[m] = K[n]
    BY <1>1, <1>2, <2>1
  <2>3. {q \in ToSet(K) : Place(K, q) <= n} = {q \in ToSet(L) : Place(L, q) <= m}
    BY <2>1, <2>2
  <2>4. Cardinality({q \in ToSet(K) : Place(K, q) <= n}) = n
    BY PlaceCounts
  <2>5. Cardinality({q \in ToSet(L) : Place(L, q) <= m}) = m
    BY <2>2, PlaceCounts
  <2> QED BY <2>2, <2>3, <2>4, <2>5
<1>4. ASSUME NEW m \in 1..Len(L) PROVE m \in 1..Len(K)
  <2>1. PICK n : n = Place(K, L[m])
    OBVIOUS
  <2>2. n \in 1..Len(K) /\ K[n] = L[m]
    BY <1>1, <1>2, <2>1
  <2>3. L[n] = L[m] /\ n \in 1..Len(L)
    BY <1>3, <2>2
  <2>4. n = m
    BY <1>2, <2>3
  <2> QED BY <2>2, <2>4
<1>5. Len(K) = Len(L)
  <2>1. Len(K) \in Nat /\ Len(L) \in Nat
    OBVIOUS
  <2>2. Len(K) > 0 => Len(K) \in 1..Len(L)
    BY <1>3, <2>1
  <2>3. Len(L) > 0 => Len(L) \in 1..Len(K)
    BY <1>4, <2>1
  <2> QED BY <2>1, <2>2, <2>3
<1> QED BY <1>3, <1>5

-----------------------------------------------------------------------------
(* Taking members out of a list leaves the others, once each and in the order   *)
(* in which they were.                                                         *)
LEMMA SublistFacts ==
  ASSUME NEW R, NEW list \in Seq(R), IsInjective(list), NEW S
  PROVE  /\ Sublist(list, S) \in Seq(R)
         /\ IsInjective(Sublist(list, S))
         /\ ToSet(Sublist(list, S)) = ToSet(list) \cap S
         /\ \A a, b \in ToSet(Sublist(list, S)) :
              Place(Sublist(list, S), a) <= Place(Sublist(list, S), b) <=> Place(list, a) <= Place(list, b)
<1>1. PICK P : P = Places(list, S)
  OBVIOUS
<1>2. P \in SUBSET (1..Len(list)) /\ \A m \in 1..Len(list) : m \in P <=> list[m] \in S
  BY <1>1 DEF Places
<1>0. PICK N \in Nat : N = Len(list) /\ P \in SUBSET (1..N)
  BY <1>2
<1>3. /\ IsFiniteSet(P) /\ Cardinality(P) \in Nat
      /\ \A m \in P : Rank(P, m) \in 1..Cardinality(P)
      /\ \A m, n \in P : m < n => Rank(P, m) < Rank(P, n)
  BY <1>0, RankMonotone
<1>4. /\ \A n \in 1..Cardinality(P) : Nth(P, n) \in P /\ Rank(P, Nth(P, n)) = n
      /\ \A m \in P : Nth(P, Rank(P, m)) = m
  BY <1>0, NthRank
<1>5. PICK K : K = Sublist(list, S)
  OBVIOUS
<1>6. K = [n \in 1..Cardinality(P) |-> list[Nth(P, n)]]
  BY <1>1, <1>5 DEF Sublist
<1>7. \A n \in 1..Cardinality(P) : K[n] = list[Nth(P, n)] /\ K[n] \in R
  <2> SUFFICES ASSUME NEW n \in 1..Cardinality(P) PROVE K[n] = list[Nth(P, n)] /\ K[n] \in R
    OBVIOUS
  <2>1. Nth(P, n) \in 1..Len(list)
    BY <1>2, <1>4
  <2>2. K[n] = list[Nth(P, n)]
    BY <1>6
  <2> QED BY <2>1, <2>2
<1>8. K \in Seq(R) /\ Len(K) = Cardinality(P) /\ DOMAIN K = 1..Cardinality(P)
  BY <1>3, <1>6, <1>7
<1>9. /\ \A r \in ToSet(list) : Place(list, r) \in 1..Len(list) /\ list[Place(list, r)] = r
      /\ \A m \in 1..Len(list) : list[m] \in ToSet(list) /\ Place(list, list[m]) = m
  BY PlaceFacts
<1>10. \A n \in 1..Cardinality(P) : Nth(P, n) \in 1..Len(list) /\ Place(list, K[n]) = Nth(P, n) /\ K[n] \in S
  BY <1>2, <1>4, <1>7, <1>9
<1>11. IsInjective(K)
  <2> SUFFICES ASSUME NEW a \in 1..Cardinality(P), NEW b \in 1..Cardinality(P), K[a] = K[b] PROVE a = b
    BY <1>8 DEF IsInjective
  <2>1. Nth(P, a) = Nth(P, b)
    BY <1>10
  <2> QED BY <2>1, <1>4
<1>12. ToSet(K) = ToSet(list) \cap S
  <2>1. ASSUME NEW q \in ToSet(K) PROVE q \in ToSet(list) \cap S
    <3>1. PICK n \in 1..Cardinality(P) : q = K[n]
      BY <1>8 DEF ToSet
    <3> QED BY <3>1, <1>7, <1>9, <1>10
  <2>2. ASSUME NEW q \in ToSet(list), q \in S PROVE q \in ToSet(K)
    <3>1. PICK m \in 1..Len(list) : list[m] = q
      BY <1>9
    <3>2. m \in P
      BY <1>2, <2>2, <3>1
    <3>3. Rank(P, m) \in 1..Cardinality(P) /\ K[Rank(P, m)] = q
      BY <1>3, <1>4, <1>7, <3>1, <3>2
    <3> QED BY <1>8, <3>3 DEF ToSet
  <2> QED BY <2>1, <2>2
<1>13. /\ \A r \in ToSet(K) : Place(K, r) \in 1..Len(K) /\ K[Place(K, r)] = r
       /\ \A m \in 1..Len(K) : K[m] \in ToSet(K) /\ Place(K, K[m]) = m
  BY <1>8, <1>11, PlaceFacts
<1>14. ASSUME NEW a \in ToSet(K), NEW b \in ToSet(K)
       PROVE Place(K, a) <= Place(K, b) <=> Place(list, a) <= Place(list, b)
  <2>1. PICK m \in 1..Cardinality(P) : K[m] = a /\ Place(K, a) = m
    BY <1>8, <1>13
  <2>2. PICK n \in 1..Cardinality(P) : K[n] = b /\ Place(K, b) = n
    BY <1>8, <1>13
  <2>3. PICK x \in P : x = Place(list, a) /\ Rank(P, x) = m
    BY <1>4, <1>10, <2>1
  <2>4. PICK y \in P : y = Place(list, b) /\ Rank(P, y) = n
    BY <1>4, <1>10, <2>2
  <2>5. x \in Int /\ y \in Int /\ m \in Int /\ n \in Int
    BY <1>2
  <2>6. (x < y => m < n) /\ (y < x => n < m) /\ (x = y => m = n)
    BY <1>3, <2>3, <2>4
  <2>7. m <= n <=> x <= y
    BY <2>5, <2>6
  <2> QED BY <2>1, <2>2, <2>3, <2>4, <2>7
<1> QED BY <1>5, <1>8, <1>11, <1>12, <1>14

(* A sublist of a sublist. *)
LEMMA SublistSublist ==
  ASSUME NEW R, NEW list \in Seq(R), IsInjective(list), NEW S, NEW T
  PROVE  Sublist(Sublist(list, S), T) = Sublist(list, S \cap T)
<1>1. PICK J : J = Sublist(list, S)
  OBVIOUS
<1>2. PICK K : K = Sublist(J, T)
  OBVIOUS
<1>3. PICK L : L = Sublist(list, S \cap T)
  OBVIOUS
<1>4. /\ J \in Seq(R) /\ IsInjective(J) /\ ToSet(J) = ToSet(list) \cap S
      /\ \A a, b \in ToSet(J) : Place(J, a) <= Place(J, b) <=> Place(list, a) <= Place(list, b)
  BY <1>1, SublistFacts
<1>5. /\ K \in Seq(R) /\ IsInjective(K) /\ ToSet(K) = ToSet(J) \cap T
      /\ \A a, b \in ToSet(K) : Place(K, a) <= Place(K, b) <=> Place(J, a) <= Place(J, b)
  BY <1>2, <1>4, SublistFacts
<1>6. /\ L \in Seq(R) /\ IsInjective(L) /\ ToSet(L) = ToSet(list) \cap (S \cap T)
      /\ \A a, b \in ToSet(L) : Place(L, a) <= Place(L, b) <=> Place(list, a) <= Place(list, b)
  BY <1>3, SublistFacts
<1>7. ToSet(K) = ToSet(L)
  BY <1>4, <1>5, <1>6
<1>8. \A a, b \in ToSet(K) : Place(K, a) <= Place(K, b) <=> Place(L, a) <= Place(L, b)
  BY <1>4, <1>5, <1>6, <1>7
<1>9. K = L
  BY <1>5, <1>6, <1>7, <1>8, SameList
<1> QED BY <1>1, <1>2, <1>3, <1>9

(* Only the members of the list matter of what is kept. *)
LEMMA SublistSame ==
  ASSUME NEW list, NEW S, NEW T, ToSet(list) \cap S = ToSet(list) \cap T
  PROVE  Sublist(list, S) = Sublist(list, T)
<1>1. Places(list, S) = Places(list, T)
  <2>1. \A m \in DOMAIN list : list[m] \in ToSet(list)
    BY DEF ToSet
  <2> QED BY <2>1 DEF Places
<1> QED BY <1>1 DEF Sublist

(* Nothing is taken out when every member is kept. *)
LEMMA SublistAll ==
  ASSUME NEW R, NEW list \in Seq(R), IsInjective(list), NEW S, ToSet(list) \subseteq S
  PROVE  Sublist(list, S) = list
<1>1. PICK K : K = Sublist(list, S)
  OBVIOUS
<1>2. /\ K \in Seq(R) /\ IsInjective(K) /\ ToSet(K) = ToSet(list) \cap S
      /\ \A a, b \in ToSet(K) : Place(K, a) <= Place(K, b) <=> Place(list, a) <= Place(list, b)
  BY <1>1, SublistFacts
<1>3. ToSet(K) = ToSet(list)
  BY <1>2
<1>4. K = list
  BY <1>2, <1>3, SameList
<1> QED BY <1>1, <1>4

(* Nothing is left when no member is kept. *)
LEMMA SublistNone ==
  ASSUME NEW R, NEW list \in Seq(R), IsInjective(list), NEW S, ToSet(list) \cap S = {}
  PROVE  Sublist(list, S) = <<>>
<1>1. Sublist(list, S) \in Seq(R) /\ ToSet(Sublist(list, S)) = {}
  BY SublistFacts
<1>2. PICK K \in Seq(R) : K = Sublist(list, S)
  BY <1>1
<1>3. DOMAIN K = {}
  BY <1>1, <1>2 DEF ToSet
<1>4. K = <<>>
  BY <1>3
<1> QED BY <1>2, <1>4

-----------------------------------------------------------------------------
(* A new member at the end of a list moves no other. *)
LEMMA PlaceAppend ==
  ASSUME NEW R, NEW list \in Seq(R), IsInjective(list), NEW r \in R, r \notin ToSet(list)
  PROVE  /\ Append(list, r) \in Seq(R) /\ IsInjective(Append(list, r))
         /\ ToSet(Append(list, r)) = ToSet(list) \cup {r}
         /\ \A q \in ToSet(list) : Place(Append(list, r), q) = Place(list, q)
         /\ Place(Append(list, r), r) = Len(list) + 1
<1>1. PICK K : K = Append(list, r)
  OBVIOUS
<1>2. /\ K \in Seq(R) /\ Len(K) = Len(list) + 1 /\ Len(list) \in Nat
      /\ DOMAIN K = 1..(Len(list) + 1) /\ DOMAIN list = 1..Len(list)
      /\ \A m \in 1..Len(list) : K[m] = list[m]
      /\ K[Len(list) + 1] = r
  BY <1>1
<1>3. \A m \in 1..(Len(list) + 1) : m \in 1..Len(list) \/ m = Len(list) + 1
  BY <1>2
<1>4. \A m \in 1..Len(list) : list[m] # r /\ m \in 1..(Len(list) + 1)
  BY <1>2 DEF ToSet
<1>5. Len(list) + 1 \in 1..(Len(list) + 1)
  BY <1>2
<1>6. IsInjective(K)
  <2> SUFFICES ASSUME NEW a \in 1..(Len(list) + 1), NEW b \in 1..(Len(list) + 1), K[a] = K[b] PROVE a = b
    BY <1>2 DEF IsInjective
  <2>1. CASE a \in 1..Len(list) /\ b \in 1..Len(list)
    BY <2>1, <1>2 DEF IsInjective
  <2>2. CASE ~(a \in 1..Len(list) /\ b \in 1..Len(list))
    BY <2>2, <1>2, <1>3, <1>4
  <2> QED BY <2>1, <2>2
<1>7. ToSet(K) = ToSet(list) \cup {r}
  <2>1. ASSUME NEW q \in ToSet(K) PROVE q \in ToSet(list) \cup {r}
    BY <1>2, <1>3 DEF ToSet
  <2>2. ASSUME NEW q \in ToSet(list) PROVE q \in ToSet(K)
    <3>1. PICK m \in 1..Len(list) : list[m] = q
      BY <1>2 DEF ToSet
    <3> QED BY <3>1, <1>2, <1>4 DEF ToSet
  <2>3. r \in ToSet(K)
    BY <1>2, <1>5 DEF ToSet
  <2> QED BY <2>1, <2>2, <2>3
<1>8. \A m \in 1..Len(K) : K[m] \in ToSet(K) /\ Place(K, K[m]) = m
  BY <1>2, <1>6, PlaceFacts
<1>9. ASSUME NEW q \in ToSet(list) PROVE Place(K, q) = Place(list, q)
  <2>1. PICK m \in 1..Len(list) : m = Place(list, q) /\ list[m] = q
    BY PlaceFacts
  <2>2. K[m] = q /\ m \in 1..Len(K)
    BY <1>2, <1>4, <2>1
  <2> QED BY <1>8, <2>1, <2>2
<1>10. Place(K, r) = Len(list) + 1
  BY <1>2, <1>5, <1>8
<1> QED BY <1>1, <1>2, <1>6, <1>7, <1>9, <1>10

(* A new member that is kept comes last. *)
LEMMA SublistAppend ==
  ASSUME NEW R, NEW list \in Seq(R), IsInjective(list), NEW r \in R, r \notin ToSet(list),
         NEW S, r \in S
  PROVE  Sublist(Append(list, r), S) = Append(Sublist(list, S), r)
<1>1. PICK A : A = Append(list, r)
  OBVIOUS
<1>2. PICK J : J = Sublist(list, S)
  OBVIOUS
<1>3. PICK K : K = Sublist(A, S)
  OBVIOUS
<1>4. PICK L : L = Append(J, r)
  OBVIOUS
<1>5. /\ A \in Seq(R) /\ IsInjective(A) /\ ToSet(A) = ToSet(list) \cup {r}
      /\ \A q \in ToSet(list) : Place(A, q) = Place(list, q)
      /\ Place(A, r) = Len(list) + 1
  BY <1>1, PlaceAppend
<1>6. /\ J \in Seq(R) /\ IsInjective(J) /\ ToSet(J) = ToSet(list) \cap S
      /\ \A a, b \in ToSet(J) : Place(J, a) <= Place(J, b) <=> Place(list, a) <= Place(list, b)
  BY <1>2, SublistFacts
<1>7. /\ K \in Seq(R) /\ IsInjective(K) /\ ToSet(K) = ToSet(A) \cap S
      /\ \A a, b \in ToSet(K) : Place(K, a) <= Place(K, b) <=> Place(A, a) <= Place(A, b)
  BY <1>3, <1>5, SublistFacts
<1>8. /\ L \in Seq(R) /\ IsInjective(L) /\ ToSet(L) = ToSet(J) \cup {r}
      /\ \A q \in ToSet(J) : Place(L, q) = Place(J, q)
      /\ Place(L, r) = Len(J) + 1
  BY <1>4, <1>6, PlaceAppend
<1>9. ToSet(K) = ToSet(L)
  BY <1>5, <1>6, <1>7, <1>8
<1>10. \A q \in ToSet(J) : Place(J, q) \in 1..Len(J) /\ q \in ToSet(list)
  BY <1>6, PlaceFacts
<1>11. \A q \in ToSet(list) : Place(list, q) \in 1..Len(list)
  BY PlaceFacts
<1>12. ASSUME NEW a \in ToSet(K), NEW b \in ToSet(K)
       PROVE Place(L, a) <= Place(L, b) <=> Place(A, a) <= Place(A, b)
  <2>0. (a \in ToSet(J) \/ a = r) /\ (b \in ToSet(J) \/ b = r)
    BY <1>8, <1>9
  <2>1. CASE a \in ToSet(J) /\ b \in ToSet(J)
    BY <2>1, <1>5, <1>6, <1>8, <1>10
  <2>2. CASE a \in ToSet(J) /\ b = r
    BY <2>2, <1>5, <1>8, <1>10, <1>11
  <2>3. CASE a = r /\ b \in ToSet(J)
    BY <2>3, <1>5, <1>8, <1>10, <1>11
  <2>4. CASE a = r /\ b = r
    BY <2>4, <1>5, <1>8
  <2> QED BY <2>0, <2>1, <2>2, <2>3, <2>4
<1>13. \A a, b \in ToSet(K) : Place(K, a) <= Place(K, b) <=> Place(L, a) <= Place(L, b)
  BY <1>7, <1>12
<1>14. K = L
  BY <1>7, <1>8, <1>9, <1>13, SameList
<1> QED BY <1>1, <1>2, <1>3, <1>4, <1>14

(* A new member that is not kept makes no difference. *)
LEMMA SublistAppendOther ==
  ASSUME NEW R, NEW list \in Seq(R), IsInjective(list), NEW r \in R, r \notin ToSet(list),
         NEW S, r \notin S
  PROVE  Sublist(Append(list, r), S) = Sublist(list, S)
<1>1. Places(Append(list, r), S) = Places(list, S)
  <2>1. /\ Len(list) \in Nat /\ DOMAIN Append(list, r) = 1..(Len(list) + 1) /\ DOMAIN list = 1..Len(list)
        /\ \A m \in 1..Len(list) : Append(list, r)[m] = list[m]
        /\ Append(list, r)[Len(list) + 1] = r
    OBVIOUS
  <2>2. \A m \in 1..(Len(list) + 1) : m \in 1..Len(list) \/ m = Len(list) + 1
    BY <2>1
  <2>3. \A m \in 1..Len(list) : m \in 1..(Len(list) + 1)
    BY <2>1
  <2> QED BY <2>1, <2>2, <2>3 DEF Places
<1>2. PICK P : P = Places(list, S)
  OBVIOUS
<1>3. PICK N \in Nat : N = Len(list) /\ P \in SUBSET (1..N)
  BY <1>2 DEF Places
<1>4. \A n \in 1..Cardinality(P) : Nth(P, n) \in P
  BY <1>3, NthRank
<1>5. \A n \in 1..Cardinality(P) : Append(list, r)[Nth(P, n)] = list[Nth(P, n)]
  BY <1>3, <1>4
<1> QED BY <1>1, <1>2, <1>5 DEF Sublist

(* The place of a member of a sublist is its rank among the kept members. *)
LEMMA SublistPlace ==
  ASSUME NEW R, NEW list \in Seq(R), IsInjective(list), NEW S, NEW r \in ToSet(list), r \in S
  PROVE  /\ Place(Sublist(list, S), r) \in 1..Len(Sublist(list, S))
         /\ Place(Sublist(list, S), r)
              = Cardinality({q \in ToSet(list) \cap S : Place(list, q) <= Place(list, r)})
<1>1. PICK K : K = Sublist(list, S)
  OBVIOUS
<1>2. /\ K \in Seq(R) /\ IsInjective(K) /\ ToSet(K) = ToSet(list) \cap S
      /\ \A a, b \in ToSet(K) : Place(K, a) <= Place(K, b) <=> Place(list, a) <= Place(list, b)
  BY <1>1, SublistFacts
<1>3. PICK n : n = Place(K, r)
  OBVIOUS
<1>4. n \in 1..Len(K)
  BY <1>2, <1>3, PlaceFacts
<1>5. Cardinality({q \in ToSet(K) : Place(K, q) <= n}) = n
  BY <1>2, <1>4, PlaceCounts
<1>6. {q \in ToSet(K) : Place(K, q) <= n} = {q \in ToSet(list) \cap S : Place(list, q) <= Place(list, r)}
  BY <1>2, <1>3
<1> QED BY <1>1, <1>3, <1>4, <1>5, <1>6

(* RemoveAt leaves out one place. *)
LEMMA RemoveAtFacts ==
  ASSUME NEW R, NEW list \in Seq(R), NEW n \in 1..Len(list)
  PROVE  /\ RemoveAt(list, n) \in Seq(R) /\ Len(RemoveAt(list, n)) = Len(list) - 1
         /\ DOMAIN RemoveAt(list, n) = 1..(Len(list) - 1)
         /\ \A m \in 1..(Len(list) - 1) : RemoveAt(list, n)[m] = IF m < n THEN list[m] ELSE list[m + 1]
<1>1. PICK L : L = RemoveAt(list, n)
  OBVIOUS
<1>2. PICK N \in Nat : N = Len(list) /\ n \in 1..N
  OBVIOUS
<1>3. PICK H : H = SubSeq(list, 1, n - 1)
  OBVIOUS
<1>4. PICK T : T = SubSeq(list, n + 1, N)
  OBVIOUS
<1>5. H \in Seq(R) /\ Len(H) = n - 1 /\ \A m \in 1..(n - 1) : H[m] = list[m]
  BY <1>3, <1>2, SubSeqProperties
<1>6. T \in Seq(R) /\ Len(T) = N - n /\ \A m \in 1..(N - n) : T[m] = list[m + n]
  BY <1>4, <1>2, SubSeqProperties
<1>7. L = H \o T
  BY <1>1, <1>2, <1>3, <1>4 DEF RemoveAt
<1>8. L \in Seq(R) /\ Len(L) = N - 1
  <2>0. H \in Seq(R) /\ T \in Seq(R)
    BY <1>5, <1>6
  <2>1. H \o T \in Seq(R) /\ Len(H \o T) = Len(H) + Len(T)
    BY ONLY <2>0, ConcatProperties
  <2> QED BY <2>1, <1>2, <1>5, <1>6, <1>7
<1>9. ASSUME NEW m \in 1..(N - 1) PROVE L[m] = IF m < n THEN list[m] ELSE list[m + 1]
  <2>1. m \in 1..(Len(H) + Len(T))
    BY <1>2, <1>5, <1>6
  <2>2. L[m] = IF m <= Len(H) THEN H[m] ELSE T[m - Len(H)]
    BY <2>1, <1>5, <1>6, <1>7, ConcatProperties
  <2>3. CASE m < n
    BY <2>2, <2>3, <1>2, <1>5
  <2>4. CASE ~(m < n)
    <3>1. m - (n - 1) \in 1..(N - n) /\ (m - (n - 1)) + n = m + 1
      BY <2>4, <1>2
    <3> QED BY <2>2, <2>4, <3>1, <1>2, <1>5, <1>6
  <2> QED BY <2>3, <2>4
<1> QED BY <1>1, <1>2, <1>8, <1>9

(* Taking out one member is removing what is at its place. *)
LEMMA SublistRemove ==
  ASSUME NEW R, NEW list \in Seq(R), IsInjective(list), NEW n \in 1..Len(list),
         NEW S, ToSet(list) \cap S = ToSet(list) \ {list[n]}
  PROVE  Sublist(list, S) = RemoveAt(list, n)
<1>1. PICK K : K = Sublist(list, S)
  OBVIOUS
<1>2. PICK L : L = RemoveAt(list, n)
  OBVIOUS
<1>3. /\ K \in Seq(R) /\ IsInjective(K) /\ ToSet(K) = ToSet(list) \cap S
      /\ \A a, b \in ToSet(K) : Place(K, a) <= Place(K, b) <=> Place(list, a) <= Place(list, b)
  BY <1>1, SublistFacts
<1>4. PICK N \in Nat : N = Len(list) /\ n \in 1..N
  OBVIOUS
<1>5. /\ L \in Seq(R) /\ Len(L) = N - 1 /\ DOMAIN L = 1..(N - 1) /\ DOMAIN list = 1..N
      /\ \A m \in 1..(N - 1) : L[m] = IF m < n THEN list[m] ELSE list[m + 1]
  BY <1>2, <1>4, RemoveAtFacts
<1>6. /\ \A r \in ToSet(list) : Place(list, r) \in 1..N /\ list[Place(list, r)] = r
      /\ \A m \in 1..N : list[m] \in ToSet(list) /\ Place(list, list[m]) = m
  BY <1>4, PlaceFacts
<1>7. ASSUME NEW m \in 1..(N - 1)
      PROVE  L[m] \in ToSet(list) /\ Place(list, L[m]) = IF m < n THEN m ELSE m + 1
  <2>1. CASE m < n
    BY <2>1, <1>4, <1>5, <1>6
  <2>2. CASE ~(m < n)
    <3>1. m + 1 \in 1..N
      BY <1>4
    <3> QED BY <2>2, <3>1, <1>5, <1>6
  <2> QED BY <2>1, <2>2
<1>8. IsInjective(L)
  <2> SUFFICES ASSUME NEW a \in 1..(N - 1), NEW b \in 1..(N - 1), L[a] = L[b] PROVE a = b
    BY <1>5 DEF IsInjective
  <2>1. (IF a < n THEN a ELSE a + 1) = (IF b < n THEN b ELSE b + 1)
    BY <1>7
  <2> QED BY <2>1, <1>4
<1>9. ToSet(L) = ToSet(K)
  <2>1. ASSUME NEW m \in 1..(N - 1) PROVE L[m] \in ToSet(K)
    <3>1. L[m] # list[n]
      BY <1>4, <1>6, <1>7
    <3> QED BY <3>1, <1>3, <1>7
  <2>2. ASSUME NEW q \in ToSet(K) PROVE q \in ToSet(L)
    <3>1. q \in ToSet(list) /\ q # list[n]
      BY <1>3
    <3>2. PICK m \in 1..N : list[m] = q /\ m # n
      BY <3>1, <1>6
    <3>3. CASE m < n
      <4>1. m \in 1..(N - 1) /\ L[m] = q
        BY <3>2, <3>3, <1>4, <1>5
      <4> QED BY <4>1, <1>5 DEF ToSet
    <3>4. CASE ~(m < n)
      <4>1. m - 1 \in 1..(N - 1) /\ ~(m - 1 < n) /\ (m - 1) + 1 = m
        BY <3>2, <3>4, <1>4
      <4>2. L[m - 1] = q
        BY <4>1, <3>2, <1>5
      <4> QED BY <4>1, <4>2, <1>5 DEF ToSet
    <3> QED BY <3>3, <3>4
  <2>3. \A q \in ToSet(L) : q \in ToSet(K)
    BY <2>1, <1>5 DEF ToSet
  <2> QED BY <2>2, <2>3
<1>10. \A r \in ToSet(L) : Place(L, r) \in 1..(N - 1) /\ L[Place(L, r)] = r
  BY <1>5, <1>8, PlaceFacts
<1>11. ASSUME NEW a \in ToSet(L), NEW b \in ToSet(L)
       PROVE Place(L, a) <= Place(L, b) <=> Place(list, a) <= Place(list, b)
  <2>1. PICK m \in 1..(N - 1) : m = Place(L, a) /\ L[m] = a
    BY <1>10
  <2>2. PICK j \in 1..(N - 1) : j = Place(L, b) /\ L[j] = b
    BY <1>10
  <2>3. Place(list, a) = (IF m < n THEN m ELSE m + 1) /\ Place(list, b) = (IF j < n THEN j ELSE j + 1)
    BY <2>1, <2>2, <1>7
  <2> QED BY <2>1, <2>2, <2>3, <1>4
<1>12. \A a, b \in ToSet(K) : Place(K, a) <= Place(K, b) <=> Place(L, a) <= Place(L, b)
  BY <1>3, <1>9, <1>11
<1>13. K = L
  BY <1>3, <1>5, <1>8, <1>9, <1>12, SameList
<1> QED BY <1>1, <1>2, <1>13

(* A set of places that is not empty has a first one. *)
LEMMA FirstPlace ==
  ASSUME NEW N \in Nat, NEW P \in SUBSET (1..N), P # {}
  PROVE  \E n \in P : \A m \in P : n <= m
<1>1. /\ IsFiniteSet(P) /\ Cardinality(P) \in Nat
      /\ \A m \in P : Rank(P, m) \in 1..Cardinality(P)
      /\ \A m, n \in P : m < n => Rank(P, m) < Rank(P, n)
  BY RankMonotone
<1>2. 1 \in 1..Cardinality(P)
  BY <1>1, FS_EmptySet
<1>3. PICK n \in P : Rank(P, n) = 1
  BY <1>2, NthRank
<1>4. ASSUME NEW m \in P PROVE n <= m
  <2>1. m \in Int /\ n \in Int /\ Rank(P, m) \in Int /\ Rank(P, m) >= 1
    BY <1>1
  <2>2. ~(m < n)
    BY <1>1, <1>3, <2>1
  <2> QED BY <2>1, <2>2
<1> QED BY <1>4

-----------------------------------------------------------------------------
(* What a well-formed map state is made of. *)
LEMMA StateFacts ==
  ASSUME NEW t, WellFormed(t)
  PROVE  /\ HashSize(t) \in 1..MaxHashSize /\ t \in MapState(HashSize(t))
         /\ t.records \in Seq(Records) /\ IsInjective(t.records)
         /\ t.record \in [Records -> RecordType]
         /\ DOMAIN t.hash_table = 0..(HashSize(t) - 1)
         /\ Live(t) \subseteq Records /\ Live(t) \subseteq ToSet(t.records)
         /\ ToSet(t.records) \subseteq Records
         /\ IsFiniteSet(Live(t)) /\ Cardinality(Live(t)) \in 0..MaxRecords
<1>1. PICK n \in 1..MaxHashSize : t \in MapState(n)
  BY DEF WellFormed
<1>2. /\ t.records \in Seq(Records) /\ t.record \in [Records -> RecordType]
      /\ t.hash_table \in [0..(n - 1) -> Seq(Records)]
  BY <1>1 DEF MapState
<1>3. n \in Nat /\ 1 <= n
  BY MapAssumption DEF MaxHashSize
<1>4. HashSize(t) = n
  <2>1. DOMAIN t.hash_table = 0..(n - 1)
    BY <1>2
  <2>2. Cardinality(0..(n - 1)) = n
    BY <1>3, FS_Interval
  <2> QED BY <2>1, <2>2 DEF HashSize
<1>5. IsInjective(t.records) /\ Live(t) \subseteq ToSet(t.records)
  BY DEF WellFormed
<1>6. ToSet(t.records) \subseteq Records
  BY <1>2, <1>5, PlaceFacts
<1>7. IsFiniteSet(Records) /\ Cardinality(Records) = MaxRecords
  <2>1. MaxRecords \in Nat
    BY MapAssumption
  <2>2. IsFiniteSet(1..MaxRecords) /\ Cardinality(1..MaxRecords) = IF 1 > MaxRecords THEN 0 ELSE MaxRecords - 1 + 1
    BY <2>1, FS_Interval
  <2> QED BY <2>1, <2>2 DEF Records
<1>8. Live(t) \in SUBSET Records
  BY DEF Live
<1>9. IsFiniteSet(Live(t)) /\ Cardinality(Live(t)) \in Nat /\ Cardinality(Live(t)) <= MaxRecords
  BY <1>7, <1>8, FS_Subset, FS_CardinalityType
<1>10. Cardinality(Live(t)) \in 0..MaxRecords
  BY <1>9, MapAssumption
<1> QED BY <1>1, <1>2, <1>4, <1>5, <1>6, <1>8, <1>9, <1>10

(* A key is hashed to an entry of the table. *)
LEMMA BucketInTable ==
  ASSUME NEW k \in Keys, NEW n \in 1..MaxHashSize
  PROVE  Bucket(k, n) \in 0..(n - 1)
<1>1. MaxHashSize \in Nat
  BY MapAssumption DEF MaxHashSize
<1>2. n - 1 \in 0..(MaxHashSize - 1)
  BY <1>1
<1> QED BY <1>2, AndAssumption DEF Bucket

(* map_find_record finds the record with an entry for the key, if there is one. *)
LEMMA FindRecordFinds ==
  ASSUME NEW t, WellFormed(t), NEW k \in Keys
  PROVE  \/ /\ FindRecord(t, k) = NULL
            /\ \A r \in Live(t) : t.record[r].key # k
         \/ /\ FindRecord(t, k) \in Live(t) /\ FindRecord(t, k) # NULL
            /\ t.record[FindRecord(t, k)].key = k
<1>1. PICK h : h = Bucket(k, HashSize(t))
  OBVIOUS
<1>2. PICK chain : chain = t.hash_table[h]
  OBVIOUS
<1>3. PICK found : found = {n \in 1..Len(chain) : t.record[chain[n]].key = k}
  OBVIOUS
<1>4. FindRecord(t, k) = IF found = {} THEN NULL ELSE chain[CHOOSE n \in found : \A n1 \in found : n <= n1]
  BY <1>1, <1>2, <1>3 DEF FindRecord
<1>5. /\ HashSize(t) \in 1..MaxHashSize /\ t.records \in Seq(Records) /\ IsInjective(t.records)
      /\ Live(t) \subseteq Records /\ Live(t) \subseteq ToSet(t.records)
  BY StateFacts
<1>6. h \in 0..(HashSize(t) - 1)
  BY <1>1, <1>5, BucketInTable
<1>7. PICK S : S = {r \in Live(t) : Bucket(t.record[r].key, HashSize(t)) = h}
  OBVIOUS
<1>8. chain = Sublist(t.records, S)
  <2>1. t.hash_table = Chains(t, HashSize(t))
    BY DEF WellFormed, Exact
  <2> QED BY <1>2, <1>6, <1>7, <2>1 DEF Chains
<1>9. chain \in Seq(Records) /\ IsInjective(chain) /\ ToSet(chain) = S
  <2>1. chain \in Seq(Records) /\ IsInjective(chain) /\ ToSet(chain) = ToSet(t.records) \cap S
    BY <1>5, <1>8, SublistFacts
  <2> QED BY <2>1, <1>5, <1>7
<1>10. KeysOnce(t)
  BY DEF WellFormed
<1>11. CASE found = {}
  <2>1. ASSUME NEW r \in Live(t), t.record[r].key = k PROVE FALSE
    <3>1. r \in ToSet(chain)
      BY <1>1, <1>7, <1>9, <2>1
    <3>2. PICK n \in 1..Len(chain) : chain[n] = r
      BY <3>1, <1>9, PlaceFacts
    <3> QED BY <3>2, <2>1, <1>3, <1>11
  <2> QED BY <2>1, <1>4, <1>11
<1>12. CASE found # {}
  <2>1. PICK n \in found : TRUE
    BY <1>12
  <2>2. \A m \in found : m \in 1..Len(chain) /\ chain[m] \in Live(t) /\ t.record[chain[m]].key = k
    <3>1. \A m \in 1..Len(chain) : chain[m] \in ToSet(chain)
      BY <1>9, PlaceFacts
    <3> QED BY <3>1, <1>3, <1>7, <1>9
  <2>3. ASSUME NEW m \in found PROVE m = n
    <3>1. chain[m] = chain[n]
      BY <2>2, <1>10 DEF KeysOnce
    <3> QED BY <3>1, <2>2, <1>9 DEF IsInjective
  <2>4. n \in Int /\ found = {n}
    BY <2>2, <2>3
  <2>5. (CHOOSE m \in found : \A n1 \in found : m <= n1) = n
    BY <2>4
  <2>6. FindRecord(t, k) = chain[n]
    BY <1>4, <1>12, <2>5
  <2>7. chain[n] \in Live(t) /\ t.record[chain[n]].key = k
    BY <2>2
  <2>8. chain[n] # NULL
    BY <2>7, <1>5 DEF Records, NULL
  <2> QED BY <2>6, <2>7, <2>8
<1> QED BY <1>11, <1>12

(* The place of an iteration at record r: what it has passed is up to there. *)
Start(t, r) == IF r = NULL THEN 0 ELSE Place(t.records, r)

(* The next record of an iteration is the first with an entry after where it is. *)
LEMMA FollowingFinds ==
  ASSUME NEW t, WellFormed(t), NEW r, r = NULL \/ r \in ToSet(t.records)
  PROVE  /\ Start(t, r) \in 0..Len(t.records)
         /\ \/ /\ Following(t, r) = NULL
               /\ \A q \in Live(t) : Place(t.records, q) <= Start(t, r)
            \/ /\ Following(t, r) \in Live(t) /\ Following(t, r) # NULL
               /\ Start(t, r) < Place(t.records, Following(t, r))
               /\ \A q \in Live(t) : \/ Place(t.records, q) <= Start(t, r)
                                     \/ Place(t.records, Following(t, r)) <= Place(t.records, q)
<1>1. /\ t.records \in Seq(Records) /\ IsInjective(t.records)
      /\ Live(t) \subseteq Records /\ Live(t) \subseteq ToSet(t.records)
      /\ ToSet(t.records) \subseteq Records
  BY StateFacts
<1>2. /\ \A q \in ToSet(t.records) : Place(t.records, q) \in 1..Len(t.records) /\ t.records[Place(t.records, q)] = q
      /\ \A n \in 1..Len(t.records) : t.records[n] \in ToSet(t.records) /\ Place(t.records, t.records[n]) = n
  BY <1>1, PlaceFacts
<1>3. PICK N \in Nat : N = Len(t.records)
  BY <1>1
<1>4. PICK start \in 0..N : start = Start(t, r)
  BY <1>2, <1>3 DEF Start
<1>5. PICK live : live = {n \in (start + 1)..N : ~t.record[t.records[n]].empty}
  OBVIOUS
<1>6. Following(t, r) = IF live = {} THEN NULL ELSE t.records[CHOOSE n \in live : \A n1 \in live : n <= n1]
  BY <1>3, <1>4, <1>5 DEF Following, Start
<1>7. live \in SUBSET (1..N) /\ \A n \in 1..N : n \in live <=> (start < n /\ t.records[n] \in Live(t))
  <2>1. \A n \in (start + 1)..N : n \in 1..N /\ start < n
    BY <1>4
  <2>2. \A n \in 1..N : start < n => n \in (start + 1)..N
    BY <1>4
  <2>3. \A n \in 1..N : t.records[n] \in Records
    BY <1>1, <1>2, <1>3
  <2> QED BY <1>5, <2>1, <2>2, <2>3 DEF Live
<1>8. CASE live = {}
  <2>1. ASSUME NEW q \in Live(t) PROVE Place(t.records, q) <= start
    <3>1. Place(t.records, q) \in 1..N /\ t.records[Place(t.records, q)] \in Live(t)
      BY <1>1, <1>2, <1>3
    <3>2. ~(start < Place(t.records, q))
      BY <3>1, <1>7, <1>8
    <3> QED BY <3>1, <3>2, <1>4
  <2> QED BY <2>1, <1>3, <1>4, <1>6, <1>8
<1>9. CASE live # {}
  <2>1. \E n \in live : \A m \in live : n <= m
    BY <1>7, <1>9, FirstPlace
  <2>2. PICK n : n = CHOOSE k \in live : \A n1 \in live : k <= n1
    OBVIOUS
  <2>3. n \in live /\ \A m \in live : n <= m
    BY <2>1, <2>2
  <2>4. PICK f : f = t.records[n]
    OBVIOUS
  <2>5. Following(t, r) = f
    BY <1>6, <1>9, <2>2, <2>4
  <2>6. f \in Live(t) /\ f # NULL /\ Place(t.records, f) = n /\ start < n
    <3>1. n \in 1..N /\ start < n /\ f \in Live(t)
      BY <1>7, <2>3, <2>4
    <3>2. f # NULL
      BY <3>1, <1>1 DEF Records, NULL
    <3> QED BY <3>1, <3>2, <1>2, <1>3, <2>4
  <2>7. ASSUME NEW q \in Live(t) PROVE Place(t.records, q) <= start \/ n <= Place(t.records, q)
    <3>1. Place(t.records, q) \in 1..N /\ t.records[Place(t.records, q)] \in Live(t)
      BY <1>1, <1>2, <1>3
    <3>2. start < Place(t.records, q) => n <= Place(t.records, q)
      BY <3>1, <1>7, <2>3
    <3> QED BY <3>1, <3>2, <1>4
  <2> QED BY <1>3, <1>4, <2>5, <2>6, <2>7
<1> QED BY <1>8, <1>9

-----------------------------------------------------------------------------
(* Map state u has the entries of t, and the records it still has in their order. *)
SameEntries(t, u) ==
  /\ Live(u) = Live(t)
  /\ \A q \in Live(t) : u.record[q].key = t.record[q].key /\ u.record[q].value = t.record[q].value
  /\ ToSet(u.records) \subseteq ToSet(t.records)
  /\ \A a, b \in ToSet(u.records) :
       Place(u.records, a) <= Place(u.records, b) <=> Place(t.records, a) <= Place(t.records, b)
  /\ Occupied(u) = Occupied(t)

(* A change that leaves keys, entries and the hash table alone. *)
LEMMA SameTable ==
  ASSUME NEW t, WellFormed(t), NEW u, u \in MapState(HashSize(t)), IsInjective(u.records),
         u.hash_table = t.hash_table, u.record_count = t.record_count,
         u.record_count_threshold = t.record_count_threshold,
         Live(u) = Live(t), \A q \in Live(t) : u.record[q].key = t.record[q].key,
         Live(t) \subseteq ToSet(u.records),
         \A S \in SUBSET Live(t) : Sublist(u.records, S) = Sublist(t.records, S)
  PROVE  WellFormed(u) /\ Occupied(u) = Occupied(t)
<1>1. HashSize(t) \in 1..MaxHashSize /\ HashSize(u) = HashSize(t)
  BY StateFacts DEF HashSize
<1>2. \A h : {r \in Live(u) : Bucket(u.record[r].key, HashSize(t)) = h}
               = {r \in Live(t) : Bucket(t.record[r].key, HashSize(t)) = h}
  OBVIOUS
<1>3. \A h : Sublist(u.records, {r \in Live(u) : Bucket(u.record[r].key, HashSize(t)) = h})
               = Sublist(t.records, {r \in Live(t) : Bucket(t.record[r].key, HashSize(t)) = h})
  <2> SUFFICES ASSUME NEW h
               PROVE Sublist(u.records, {r \in Live(u) : Bucket(u.record[r].key, HashSize(t)) = h})
                       = Sublist(t.records, {r \in Live(t) : Bucket(t.record[r].key, HashSize(t)) = h})
    OBVIOUS
  <2>1. {r \in Live(t) : Bucket(t.record[r].key, HashSize(t)) = h} \in SUBSET Live(t)
    OBVIOUS
  <2> QED BY <1>2, <2>1
<1>4. Chains(u, HashSize(t)) = Chains(t, HashSize(t))
  BY <1>3 DEF Chains
<1>5. Exact(u)
  BY <1>1, <1>4 DEF Exact, WellFormed
<1>6. KeysOnce(u)
  BY DEF KeysOnce, WellFormed
<1>7. WellFormed(u)
  BY <1>1, <1>5, <1>6 DEF WellFormed
<1>8. Occupied(u) = Occupied(t)
  BY DEF Occupied
<1> QED BY <1>7, <1>8

(* map_decref_record on a record that an iteration is at. *)
LEMMA DecrefEffect ==
  ASSUME NEW t, WellFormed(t), NEW r \in ToSet(t.records),
         t.record[r].ref_count > 0, t.record[r].ref_count = 1 => r \notin Live(t)
  PROVE  /\ WellFormed(DecrefRecord(t, r)) /\ SameEntries(t, DecrefRecord(t, r))
         /\ \A q \in Records :
              DecrefRecord(t, r).record[q].ref_count
                = IF q = r THEN t.record[q].ref_count - 1 ELSE t.record[q].ref_count
         /\ ToSet(DecrefRecord(t, r).records) = {q \in ToSet(t.records) : q = r => t.record[r].ref_count > 1}
<1>1. /\ HashSize(t) \in 1..MaxHashSize /\ t \in MapState(HashSize(t))
      /\ t.records \in Seq(Records) /\ IsInjective(t.records)
      /\ t.record \in [Records -> RecordType]
      /\ Live(t) \subseteq Records /\ Live(t) \subseteq ToSet(t.records)
      /\ ToSet(t.records) \subseteq Records
  BY StateFacts
<1>2. r \in Records /\ t.record[r] \in RecordType /\ t.record[r].ref_count \in Nat
  BY <1>1 DEF RecordType
<1>3. PICK t1 : t1 = [t EXCEPT !.record[r].ref_count = @ - 1]
  OBVIOUS
<1>4. /\ t1 \in MapState(HashSize(t)) /\ t1.records = t.records /\ t1.hash_table = t.hash_table
      /\ t1.record_count = t.record_count /\ t1.record_count_threshold = t.record_count_threshold
      /\ t1.record = [t.record EXCEPT ![r].ref_count = @ - 1]
  <2>1. PICK c : c = t.record[r].ref_count - 1
    OBVIOUS
  <2>2. c \in Nat
    BY <1>2, <2>1
  <2>3. [t.record[r] EXCEPT !.ref_count = c] \in RecordType
    BY <1>2, <2>2 DEF RecordType
  <2>4. [t.record EXCEPT ![r] = [t.record[r] EXCEPT !.ref_count = c]] \in [Records -> RecordType]
    BY <1>1, <1>2, <2>3
  <2>5. [t.record EXCEPT ![r].ref_count = @ - 1] = [t.record EXCEPT ![r] = [t.record[r] EXCEPT !.ref_count = c]]
    BY <1>1, <1>2, <2>1
  <2>6. t1 = [t EXCEPT !.record = [t.record EXCEPT ![r].ref_count = @ - 1]]
    BY <1>3
  <2> QED BY <1>1, <2>4, <2>5, <2>6 DEF MapState
<1>5. \A q \in Records : /\ t1.record[q].empty = t.record[q].empty /\ t1.record[q].key = t.record[q].key
                         /\ t1.record[q].value = t.record[q].value
                         /\ t1.record[q].ref_count = IF q = r THEN t.record[q].ref_count - 1 ELSE t.record[q].ref_count
  BY <1>1, <1>2, <1>4 DEF RecordType
<1>6. PICK u : u = DecrefRecord(t, r)
  OBVIOUS
<1>7. u = IF t1.record[r].ref_count = 0 THEN Unlink(t1, r) ELSE t1
  BY <1>3, <1>6 DEF DecrefRecord
<1>8. CASE t.record[r].ref_count = 1
  <2>1. u = [t1 EXCEPT !.records = Sublist(@, Others(r)), !.record[r] = Free]
    BY <1>2, <1>5, <1>7, <1>8 DEF Unlink
  <2>2. /\ Sublist(t.records, Others(r)) \in Seq(Records) /\ IsInjective(Sublist(t.records, Others(r)))
        /\ ToSet(Sublist(t.records, Others(r))) = ToSet(t.records) \cap Others(r)
        /\ \A a, b \in ToSet(Sublist(t.records, Others(r))) :
             Place(Sublist(t.records, Others(r)), a) <= Place(Sublist(t.records, Others(r)), b)
               <=> Place(t.records, a) <= Place(t.records, b)
    BY <1>1, SublistFacts
  <2>3. Free \in RecordType /\ Free.ref_count = 0 /\ Free.empty = TRUE
    BY DEF Free, RecordType
  <2>4. /\ u \in MapState(HashSize(t)) /\ u.records = Sublist(t.records, Others(r)) /\ u.hash_table = t.hash_table
        /\ u.record_count = t.record_count /\ u.record_count_threshold = t.record_count_threshold
        /\ u.record = [t1.record EXCEPT ![r] = Free]
    BY <1>2, <1>4, <2>1, <2>2, <2>3 DEF MapState
  <2>5. \A q \in Records : q # r => u.record[q] = t.record[q]
    BY <1>1, <1>4, <2>4 DEF MapState
  <2>6. u.record[r] = Free
    BY <1>2, <1>4, <2>4 DEF MapState
  <2>7. Live(u) = Live(t) /\ r \notin Live(t)
    BY <1>8, <2>3, <2>5, <2>6 DEF Live
  <2>8. \A q \in Live(t) : u.record[q].key = t.record[q].key /\ u.record[q].value = t.record[q].value
    BY <1>1, <2>5, <2>7
  <2>9. ToSet(u.records) = ToSet(t.records) \ {r} /\ Live(t) \subseteq ToSet(u.records)
    BY <1>1, <2>2, <2>4, <2>7 DEF Others
  <2>10. ASSUME NEW S \in SUBSET Live(t) PROVE Sublist(u.records, S) = Sublist(t.records, S)
    <3>1. Others(r) \cap S = S
      BY <1>1, <2>7 DEF Others
    <3>2. Sublist(Sublist(t.records, Others(r)), S) = Sublist(t.records, Others(r) \cap S)
      BY <1>1, SublistSublist
    <3> QED BY <2>4, <3>1, <3>2
  <2>11. WellFormed(u) /\ Occupied(u) = Occupied(t)
    BY <2>2, <2>4, <2>7, <2>8, <2>9, <2>10, SameTable
  <2>12. SameEntries(t, u)
    BY <2>2, <2>4, <2>7, <2>8, <2>9, <2>11 DEF SameEntries
  <2>13. \A q \in Records : u.record[q].ref_count = IF q = r THEN t.record[q].ref_count - 1 ELSE t.record[q].ref_count
    BY <1>8, <2>3, <2>5, <2>6
  <2> QED BY <1>6, <1>8, <2>9, <2>11, <2>12, <2>13
<1>9. CASE t.record[r].ref_count # 1
  <2>1. u = t1 /\ t.record[r].ref_count > 1
    BY <1>2, <1>5, <1>7, <1>9
  <2>2. Live(u) = Live(t)
    BY <1>5, <2>1 DEF Live
  <2>3. \A q \in Live(t) : u.record[q].key = t.record[q].key /\ u.record[q].value = t.record[q].value
    BY <1>1, <1>5, <2>1
  <2>4. WellFormed(u) /\ Occupied(u) = Occupied(t)
    BY <1>1, <1>4, <2>1, <2>2, <2>3, SameTable
  <2>5. SameEntries(t, u)
    BY <1>4, <2>1, <2>2, <2>3, <2>4 DEF SameEntries
  <2> QED BY <1>4, <1>5, <1>6, <2>1, <2>4, <2>5
<1> QED BY <1>8, <1>9

(* Locking a record of the list. *)
LEMMA LockEffect ==
  ASSUME NEW t, WellFormed(t), NEW r \in ToSet(t.records)
  PROVE  /\ WellFormed(LockRecord(t, r)) /\ SameEntries(t, LockRecord(t, r))
         /\ \A q \in Records :
              LockRecord(t, r).record[q].ref_count
                = IF q = r THEN t.record[q].ref_count + 1 ELSE t.record[q].ref_count
         /\ LockRecord(t, r).records = t.records
<1>1. /\ HashSize(t) \in 1..MaxHashSize /\ t \in MapState(HashSize(t))
      /\ t.records \in Seq(Records) /\ IsInjective(t.records)
      /\ t.record \in [Records -> RecordType]
      /\ Live(t) \subseteq Records /\ Live(t) \subseteq ToSet(t.records)
      /\ ToSet(t.records) \subseteq Records
  BY StateFacts
<1>2. r \in Records /\ t.record[r] \in RecordType /\ t.record[r].ref_count \in Nat
  BY <1>1 DEF RecordType
<1>3. PICK u : u = LockRecord(t, r)
  OBVIOUS
<1>4. /\ u \in MapState(HashSize(t)) /\ u.records = t.records /\ u.hash_table = t.hash_table
      /\ u.record_count = t.record_count /\ u.record_count_threshold = t.record_count_threshold
      /\ u.record = [t.record EXCEPT ![r].ref_count = @ + 1]
  <2>1. PICK c : c = t.record[r].ref_count + 1
    OBVIOUS
  <2>2. c \in Nat
    BY <1>2, <2>1
  <2>3. [t.record[r] EXCEPT !.ref_count = c] \in RecordType
    BY <1>2, <2>2 DEF RecordType
  <2>4. [t.record EXCEPT ![r] = [t.record[r] EXCEPT !.ref_count = c]] \in [Records -> RecordType]
    BY <1>1, <1>2, <2>3
  <2>5. [t.record EXCEPT ![r].ref_count = @ + 1] = [t.record EXCEPT ![r] = [t.record[r] EXCEPT !.ref_count = c]]
    BY <1>1, <1>2, <2>1
  <2>6. u = [t EXCEPT !.record = [t.record EXCEPT ![r].ref_count = @ + 1]]
    BY <1>3 DEF LockRecord
  <2> QED BY <1>1, <2>4, <2>5, <2>6 DEF MapState
<1>5. \A q \in Records : /\ u.record[q].empty = t.record[q].empty /\ u.record[q].key = t.record[q].key
                         /\ u.record[q].value = t.record[q].value
                         /\ u.record[q].ref_count = IF q = r THEN t.record[q].ref_count + 1 ELSE t.record[q].ref_count
  BY <1>1, <1>2, <1>4 DEF RecordType
<1>6. Live(u) = Live(t)
  BY <1>5 DEF Live
<1>7. \A q \in Live(t) : u.record[q].key = t.record[q].key /\ u.record[q].value = t.record[q].value
  BY <1>1, <1>5
<1>8. WellFormed(u) /\ Occupied(u) = Occupied(t)
  BY <1>1, <1>4, <1>6, <1>7, SameTable
<1>9. SameEntries(t, u)
  BY <1>4, <1>6, <1>7, <1>8 DEF SameEntries
<1> QED BY <1>3, <1>4, <1>5, <1>8, <1>9

-----------------------------------------------------------------------------
(* A record with an entry gets another value. *)
LEMMA ValueEffect ==
  ASSUME NEW t, WellFormed(t), NEW r \in Live(t), NEW v \in Values
  PROVE  /\ WellFormed([t EXCEPT !.record[r].value = v])
         /\ [t EXCEPT !.record[r].value = v].records = t.records
         /\ Live([t EXCEPT !.record[r].value = v]) = Live(t)
         /\ Occupied([t EXCEPT !.record[r].value = v]) = Occupied(t)
         /\ \A q \in Records :
              /\ [t EXCEPT !.record[r].value = v].record[q].ref_count = t.record[q].ref_count
              /\ [t EXCEPT !.record[r].value = v].record[q].empty = t.record[q].empty
              /\ [t EXCEPT !.record[r].value = v].record[q].key = t.record[q].key
              /\ [t EXCEPT !.record[r].value = v].record[q].value = IF q = r THEN v ELSE t.record[q].value
<1>1. /\ HashSize(t) \in 1..MaxHashSize /\ t \in MapState(HashSize(t))
      /\ t.records \in Seq(Records) /\ IsInjective(t.records)
      /\ t.record \in [Records -> RecordType]
      /\ Live(t) \subseteq Records /\ Live(t) \subseteq ToSet(t.records)
  BY StateFacts
<1>2. r \in Records /\ t.record[r] \in RecordType
  BY <1>1
<1>3. PICK u : u = [t EXCEPT !.record[r].value = v]
  OBVIOUS
<1>4. /\ u \in MapState(HashSize(t)) /\ u.records = t.records /\ u.hash_table = t.hash_table
      /\ u.record_count = t.record_count /\ u.record_count_threshold = t.record_count_threshold
      /\ u.record = [t.record EXCEPT ![r].value = v]
  <2>1. [t.record[r] EXCEPT !.value = v] \in RecordType
    BY <1>2 DEF RecordType
  <2>2. [t.record EXCEPT ![r] = [t.record[r] EXCEPT !.value = v]] \in [Records -> RecordType]
    BY <1>1, <1>2, <2>1
  <2>3. u = [t EXCEPT !.record = [t.record EXCEPT ![r] = [t.record[r] EXCEPT !.value = v]]]
    BY <1>1, <1>2, <1>3
  <2> QED BY <1>1, <2>2, <2>3 DEF MapState
<1>5. \A q \in Records : /\ u.record[q].ref_count = t.record[q].ref_count
                         /\ u.record[q].empty = t.record[q].empty /\ u.record[q].key = t.record[q].key
                         /\ u.record[q].value = IF q = r THEN v ELSE t.record[q].value
  BY <1>1, <1>2, <1>4 DEF RecordType
<1>6. Live(u) = Live(t)
  BY <1>5 DEF Live
<1>7. \A q \in Live(t) : u.record[q].key = t.record[q].key
  BY <1>1, <1>5
<1>8. WellFormed(u) /\ Occupied(u) = Occupied(t)
  BY <1>1, <1>4, <1>6, <1>7, SameTable
<1> QED BY <1>3, <1>4, <1>5, <1>6, <1>8

(* map_add_record links record r for key k, which has no entry. *)
LEMMA LinkEffect ==
  ASSUME NEW t, WellFormed(t), NEW k \in Keys, NEW r \in Records \ ToSet(t.records),
         \A q \in Live(t) : t.record[q].key # k
  PROVE  /\ WellFormed(LinkRecord(t, k, r))
         /\ LinkRecord(t, k, r).records = Append(t.records, r)
         /\ Live(LinkRecord(t, k, r)) = Live(t) \cup {r}
         /\ Occupied(LinkRecord(t, k, r)) = Append(Occupied(t), r)
         /\ \A q \in Records : q # r => LinkRecord(t, k, r).record[q] = t.record[q]
         /\ LinkRecord(t, k, r).record[r] = [ref_count |-> 1, empty |-> FALSE, key |-> k, value |-> None]
<1>1. /\ HashSize(t) \in 1..MaxHashSize /\ t \in MapState(HashSize(t))
      /\ t.records \in Seq(Records) /\ IsInjective(t.records)
      /\ t.record \in [Records -> RecordType]
      /\ Live(t) \subseteq Records /\ Live(t) \subseteq ToSet(t.records)
      /\ IsFiniteSet(Live(t)) /\ Cardinality(Live(t)) \in 0..MaxRecords
  BY StateFacts
<1>2. PICK n \in 1..MaxHashSize : n = HashSize(t)
  BY <1>1
<1>3. PICK b : b = Bucket(k, n)
  OBVIOUS
<1>4. b \in 0..(n - 1)
  BY <1>3, BucketInTable
<1>5. PICK new : new = [ref_count |-> 1, empty |-> FALSE, key |-> k, value |-> None]
  OBVIOUS
<1>6. new \in RecordType /\ new.empty = FALSE /\ new.key = k
  BY <1>5 DEF RecordType
<1>7. PICK u : u = LinkRecord(t, k, r)
  OBVIOUS
<1>8. u = [t EXCEPT !.record = [t.record EXCEPT ![r] = new],
                    !.hash_table = [t.hash_table EXCEPT ![b] = Append(t.hash_table[b], r)],
                    !.records = Append(t.records, r), !.record_count = t.record_count + 1]
  <2>1. u = [t EXCEPT !.record[r] = new,
                      !.hash_table[b] = Append(@, r),
                      !.records = Append(@, r), !.record_count = @ + 1]
    BY <1>2, <1>3, <1>5, <1>7 DEF LinkRecord
  <2> QED BY <1>1, <2>1 DEF MapState
<1>9. t.hash_table \in [0..(n - 1) -> Seq(Records)] /\ t.record_count \in Nat /\ t.record_count_threshold \in Nat
  BY <1>1, <1>2 DEF MapState
<1>10. /\ u.record = [t.record EXCEPT ![r] = new]
       /\ u.hash_table = [t.hash_table EXCEPT ![b] = Append(t.hash_table[b], r)]
       /\ u.records = Append(t.records, r) /\ u.record_count = t.record_count + 1
       /\ u.record_count_threshold = t.record_count_threshold
  BY <1>1, <1>8 DEF MapState
<1>11. u \in MapState(n)
  <2>1. [t.record EXCEPT ![r] = new] \in [Records -> RecordType]
    BY <1>1, <1>6
  <2>2. Append(t.hash_table[b], r) \in Seq(Records) /\ Append(t.records, r) \in Seq(Records)
    BY <1>1, <1>4, <1>9
  <2>3. [t.hash_table EXCEPT ![b] = Append(t.hash_table[b], r)] \in [0..(n - 1) -> Seq(Records)]
    BY <1>9, <2>2
  <2>4. t.record_count + 1 \in Nat
    BY <1>9
  <2> QED BY <1>1, <1>2, <1>8, <2>1, <2>2, <2>3, <2>4 DEF MapState
<1>12. /\ \A q \in Records : q # r => u.record[q] = t.record[q]
       /\ u.record[r] = new
  BY <1>1, <1>10
<1>13. r \notin Live(t) /\ Live(u) = Live(t) \cup {r}
  <2>1. r \notin Live(t)
    BY <1>1
  <2> QED BY <2>1, <1>6, <1>12 DEF Live
<1>14. /\ Append(t.records, r) \in Seq(Records) /\ IsInjective(Append(t.records, r))
       /\ ToSet(Append(t.records, r)) = ToSet(t.records) \cup {r}
  BY <1>1, PlaceAppend
<1>15. HashSize(u) = n
  BY <1>2, <1>9, <1>10 DEF HashSize
<1>16. ASSUME NEW S \in SUBSET Live(t)
       PROVE  /\ Sublist(Append(t.records, r), S) = Sublist(t.records, S)
              /\ Sublist(Append(t.records, r), S \cup {r}) = Append(Sublist(t.records, S), r)
  <2>1. r \notin S
    BY <1>13
  <2>2. Sublist(Append(t.records, r), S) = Sublist(t.records, S)
    BY <1>1, <2>1, SublistAppendOther
  <2>3. Sublist(Append(t.records, r), S \cup {r}) = Append(Sublist(t.records, S \cup {r}), r)
    BY <1>1, SublistAppend
  <2>4. Sublist(t.records, S \cup {r}) = Sublist(t.records, S)
    <3>1. ToSet(t.records) \cap (S \cup {r}) = ToSet(t.records) \cap S
      OBVIOUS
    <3> QED BY <3>1, SublistSame
  <2> QED BY <2>2, <2>3, <2>4
<1>17. ASSUME NEW h \in 0..(n - 1)
       PROVE  u.hash_table[h] = Sublist(u.records, {q \in Live(u) : Bucket(u.record[q].key, n) = h})
  <2>1. PICK S : S = {q \in Live(t) : Bucket(t.record[q].key, n) = h}
    OBVIOUS
  <2>2. t.hash_table[h] = Sublist(t.records, S)
    BY <1>2, <2>1 DEF WellFormed, Exact, Chains
  <2>3. S \in SUBSET Live(t)
    BY <2>1
  <2>4. CASE h = b
    <3>1. {q \in Live(u) : Bucket(u.record[q].key, n) = h} = S \cup {r}
      BY <1>1, <1>3, <1>6, <1>12, <1>13, <2>1, <2>4
    <3>2. u.hash_table[h] = Append(Sublist(t.records, S), r)
      BY <1>9, <1>10, <2>2, <2>4
    <3>3. Sublist(Append(t.records, r), S \cup {r}) = Append(Sublist(t.records, S), r)
      BY <1>16, <2>3
    <3> QED BY <3>1, <3>2, <3>3, <1>10
  <2>5. CASE h # b
    <3>1. {q \in Live(u) : Bucket(u.record[q].key, n) = h} = S
      BY <1>1, <1>3, <1>6, <1>12, <1>13, <2>1, <2>5
    <3>2. u.hash_table[h] = Sublist(t.records, S)
      BY <1>9, <1>10, <2>2, <2>5
    <3>3. Sublist(Append(t.records, r), S) = Sublist(t.records, S)
      BY <1>16, <2>3
    <3> QED BY <3>1, <3>2, <3>3, <1>10
  <2> QED BY <2>4, <2>5
<1>18. Exact(u)
  <2>1. DOMAIN u.hash_table = 0..(n - 1)
    BY <1>9, <1>10
  <2>2. u.hash_table \in [0..(n - 1) -> Seq(Records)]
    BY <1>11 DEF MapState
  <2>3. u.hash_table = Chains(u, n)
    BY <1>17, <2>2 DEF Chains
  <2>4. Cardinality(Live(u)) = Cardinality(Live(t)) + 1
    BY <1>1, <1>13, FS_AddElement
  <2>5. t.record_count = Cardinality(Live(t))
    BY DEF WellFormed, Exact
  <2> QED BY <1>10, <1>15, <2>3, <2>4, <2>5 DEF Exact
<1>19. KeysOnce(u)
  <2>1. KeysOnce(t)
    BY DEF WellFormed
  <2>2. \A q \in Live(t) : u.record[q].key = t.record[q].key
    BY <1>1, <1>12, <1>13
  <2> QED BY <2>1, <2>2, <1>6, <1>12, <1>13 DEF KeysOnce
<1>20. WellFormed(u)
  <2>1. Live(u) \subseteq ToSet(u.records) /\ IsInjective(u.records)
    BY <1>1, <1>10, <1>13, <1>14
  <2>2. u.record_count_threshold = IF HashSize(u) = 1 THEN FirstThreshold ELSE 2 * HashSize(u)
    BY <1>2, <1>10, <1>15 DEF WellFormed
  <2> QED BY <1>11, <1>18, <1>19, <2>1, <2>2 DEF WellFormed
<1>21. Occupied(u) = Append(Occupied(t), r)
  <2>1. Sublist(Append(t.records, r), Live(t) \cup {r}) = Append(Sublist(t.records, Live(t)), r)
    BY <1>16
  <2> QED BY <2>1, <1>10, <1>13 DEF Occupied
<1> QED BY <1>5, <1>7, <1>10, <1>12, <1>13, <1>20, <1>21

(* map_hash_resize, of a table that has reached its threshold, into any size that *)
(* realloc gives.                                                                *)
LEMMA ResizeEffect ==
  ASSUME NEW t, WellFormed(t), NEW slack \in 0..MaxSlack, t.record_count >= t.record_count_threshold
  PROVE  /\ WellFormed(HashResize(t, slack))
         /\ HashResize(t, slack).records = t.records /\ HashResize(t, slack).record = t.record
<1>1. /\ HashSize(t) \in 1..MaxHashSize /\ t \in MapState(HashSize(t))
      /\ t.records \in Seq(Records) /\ IsInjective(t.records)
      /\ t.record \in [Records -> RecordType]
      /\ Cardinality(Live(t)) \in 0..MaxRecords
  BY StateFacts
<1>2. MaxRecords \in Nat /\ MaxSlack \in Nat /\ slack \in Nat /\ slack <= MaxSlack /\ MaxHashSize = MaxRecords + 4 + MaxSlack
  BY MapAssumption DEF MaxHashSize
<1>3. PICK n : n = (IF HashSize(t) = 1 THEN 4 ELSE 2 * HashSize(t)) + slack
  OBVIOUS
<1>4. t.record_count = Cardinality(Live(t))
  BY DEF WellFormed, Exact
<1>5. t.record_count_threshold = IF HashSize(t) = 1 THEN FirstThreshold ELSE 2 * HashSize(t)
  BY DEF WellFormed
<1>6. n \in 1..MaxHashSize /\ n # 1
  <2>1. CASE HashSize(t) = 1
    BY <2>1, <1>2, <1>3
  <2>2. CASE HashSize(t) # 1
    <3>1. 2 * HashSize(t) <= MaxRecords /\ HashSize(t) \in Nat /\ HashSize(t) >= 2
      BY <2>2, <1>1, <1>2, <1>4, <1>5
    <3> QED BY <2>2, <3>1, <1>2, <1>3
  <2> QED BY <2>1, <2>2
<1>7. PICK u : u = HashResize(t, slack)
  OBVIOUS
<1>8. u = [t EXCEPT !.hash_table = Chains(t, n), !.record_count_threshold = 2 * n]
  BY <1>3, <1>7 DEF HashResize
<1>9. /\ u.records = t.records /\ u.record = t.record /\ u.record_count = t.record_count
      /\ u.hash_table = Chains(t, n) /\ u.record_count_threshold = 2 * n
  BY <1>1, <1>8 DEF MapState
<1>10. n \in Nat /\ 2 * n \in Nat
  BY <1>2, <1>6
<1>11. Chains(t, n) \in [0..(n - 1) -> Seq(Records)]
  <2>1. \A S : Sublist(t.records, S) \in Seq(Records)
    BY <1>1, SublistFacts
  <2> QED BY <2>1 DEF Chains
<1>12. u \in MapState(n)
  BY <1>1, <1>8, <1>10, <1>11 DEF MapState
<1>13. HashSize(u) = n
  <2>1. DOMAIN u.hash_table = 0..(n - 1)
    BY <1>9, <1>11
  <2>2. Cardinality(0..(n - 1)) = n
    BY <1>6, <1>10, FS_Interval
  <2> QED BY <2>1, <2>2 DEF HashSize
<1>14. Live(u) = Live(t)
  BY <1>9 DEF Live
<1>15. Chains(u, n) = Chains(t, n)
  BY <1>9, <1>14 DEF Chains
<1>16. Exact(u)
  BY <1>4, <1>9, <1>13, <1>14, <1>15 DEF Exact
<1>17. KeysOnce(u)
  BY <1>9, <1>14 DEF KeysOnce, WellFormed
<1>18. WellFormed(u)
  BY <1>6, <1>9, <1>12, <1>13, <1>14, <1>16, <1>17 DEF WellFormed
<1> QED BY <1>7, <1>9, <1>18

(* A change after which the hash table has just the records of K: the entries of *)
(* the others are gone.                                                         *)
LEMMA SmallerTable ==
  ASSUME NEW t, WellFormed(t), NEW u, u \in MapState(HashSize(t)), NEW K \in SUBSET Records,
         IsInjective(u.records), Live(u) = Live(t) \cap K, Live(u) \subseteq ToSet(u.records),
         u.hash_table = [h \in DOMAIN t.hash_table |-> Sublist(t.hash_table[h], K)],
         u.record_count = Cardinality(Live(u)),
         u.record_count_threshold = t.record_count_threshold,
         \A q \in Live(u) : u.record[q].key = t.record[q].key,
         \A S \in SUBSET Live(u) : Sublist(u.records, S) = Sublist(t.records, S)
  PROVE  WellFormed(u) /\ Occupied(u) = Sublist(Occupied(t), K)
<1>1. /\ HashSize(t) \in 1..MaxHashSize
      /\ t.records \in Seq(Records) /\ IsInjective(t.records)
      /\ DOMAIN t.hash_table = 0..(HashSize(t) - 1)
  BY StateFacts
<1>2. PICK n \in 1..MaxHashSize : n = HashSize(t)
  BY <1>1
<1>3. HashSize(u) = n
  BY <1>2 DEF HashSize
<1>4. ASSUME NEW h \in 0..(n - 1)
      PROVE  u.hash_table[h] = Sublist(u.records, {q \in Live(u) : Bucket(u.record[q].key, n) = h})
  <2>1. PICK S : S = {q \in Live(t) : Bucket(t.record[q].key, n) = h}
    OBVIOUS
  <2>2. t.hash_table[h] = Sublist(t.records, S)
    BY <1>2, <2>1 DEF WellFormed, Exact, Chains
  <2>3. u.hash_table[h] = Sublist(Sublist(t.records, S), K)
    BY <1>1, <1>2, <2>2
  <2>4. Sublist(Sublist(t.records, S), K) = Sublist(t.records, S \cap K)
    BY <1>1, SublistSublist
  <2>5. {q \in Live(u) : Bucket(u.record[q].key, n) = h} = S \cap K
    BY <2>1
  <2>6. S \cap K \in SUBSET Live(u)
    BY <2>1
  <2>7. Sublist(u.records, S \cap K) = Sublist(t.records, S \cap K)
    BY <2>6
  <2> QED BY <2>3, <2>4, <2>5, <2>7
<1>5. u.hash_table = Chains(u, n)
  <2>1. u.hash_table \in [0..(n - 1) -> Seq(Records)]
    BY <1>2 DEF MapState
  <2> QED BY <2>1, <1>4 DEF Chains
<1>6. Exact(u)
  BY <1>3, <1>5 DEF Exact
<1>7. KeysOnce(u)
  BY DEF KeysOnce, WellFormed
<1>8. WellFormed(u)
  BY <1>1, <1>2, <1>3, <1>6, <1>7 DEF WellFormed
<1>9. Occupied(u) = Sublist(Occupied(t), K)
  <2>1. Sublist(Sublist(t.records, Live(t)), K) = Sublist(t.records, Live(t) \cap K)
    BY <1>1, SublistSublist
  <2>2. Sublist(u.records, Live(u)) = Sublist(t.records, Live(u))
    OBVIOUS
  <2> QED BY <2>1, <2>2 DEF Occupied
<1> QED BY <1>8, <1>9

(* map_delete_record on a record that has an entry. *)
LEMMA DeleteEffect ==
  ASSUME NEW t, WellFormed(t), NEW r \in Live(t), t.record[r].ref_count > 0
  PROVE  /\ WellFormed(DeleteRecord(t, r))
         /\ Live(DeleteRecord(t, r)) = Live(t) \ {r}
         /\ Occupied(DeleteRecord(t, r)) = Sublist(Occupied(t), Others(r))
         /\ \A q \in Records : q # r => DeleteRecord(t, r).record[q] = t.record[q]
         /\ DeleteRecord(t, r).record[r].ref_count = t.record[r].ref_count - 1
         /\ ToSet(DeleteRecord(t, r).records) = {q \in ToSet(t.records) : q = r => t.record[r].ref_count > 1}
         /\ \A a, b \in ToSet(DeleteRecord(t, r).records) :
              Place(DeleteRecord(t, r).records, a) <= Place(DeleteRecord(t, r).records, b)
                <=> Place(t.records, a) <= Place(t.records, b)
<1>1. /\ HashSize(t) \in 1..MaxHashSize /\ t \in MapState(HashSize(t))
      /\ t.records \in Seq(Records) /\ IsInjective(t.records)
      /\ t.record \in [Records -> RecordType]
      /\ DOMAIN t.hash_table = 0..(HashSize(t) - 1)
      /\ Live(t) \subseteq Records /\ Live(t) \subseteq ToSet(t.records)
      /\ ToSet(t.records) \subseteq Records
      /\ IsFiniteSet(Live(t)) /\ Cardinality(Live(t)) \in 0..MaxRecords
  BY StateFacts
<1>2. PICK c \in Nat : c = t.record[r].ref_count - 1
  BY <1>1 DEF RecordType
<1>3. r \in Records /\ t.record[r] \in RecordType /\ t.record[r].ref_count = c + 1 /\ ~t.record[r].empty
  BY <1>1, <1>2 DEF RecordType, Live
<1>4. PICK table : table = [h \in DOMAIN t.hash_table |-> Sublist(t.hash_table[h], Others(r))]
  OBVIOUS
<1>5. table \in [0..(HashSize(t) - 1) -> Seq(Records)]
  <2>1. \A h \in 0..(HashSize(t) - 1) : t.hash_table[h] \in Seq(Records) /\ IsInjective(t.hash_table[h])
    <3> SUFFICES ASSUME NEW h \in 0..(HashSize(t) - 1)
                 PROVE t.hash_table[h] \in Seq(Records) /\ IsInjective(t.hash_table[h])
      OBVIOUS
    <3>1. t.hash_table[h] = Sublist(t.records, {q \in Live(t) : Bucket(t.record[q].key, HashSize(t)) = h})
      BY DEF WellFormed, Exact, Chains
    <3> QED BY <3>1, <1>1, SublistFacts
  <2>2. \A h \in 0..(HashSize(t) - 1) : Sublist(t.hash_table[h], Others(r)) \in Seq(Records)
    BY <2>1, SublistFacts
  <2> QED BY <2>2, <1>1, <1>4
<1>6. PICK t1 : t1 = [t EXCEPT !.record[r].ref_count = @ - 1, !.record_count = @ - 1,
                        !.hash_table = [h \in DOMAIN @ |-> Sublist(@[h], Others(r))]]
  OBVIOUS
<1>7. PICK rec : rec = [t.record EXCEPT ![r] = [t.record[r] EXCEPT !.ref_count = c]]
  OBVIOUS
<1>8. t1 = [t EXCEPT !.record = rec, !.record_count = t.record_count - 1, !.hash_table = table]
  BY <1>1, <1>2, <1>3, <1>4, <1>6, <1>7 DEF MapState
<1>9. rec \in [Records -> RecordType] /\ rec[r].ref_count = c /\ \A q \in Records : q # r => rec[q] = t.record[q]
  <2>1. [t.record[r] EXCEPT !.ref_count = c] \in RecordType /\ [t.record[r] EXCEPT !.ref_count = c].ref_count = c
    BY <1>2, <1>3 DEF RecordType
  <2> QED BY <2>1, <1>1, <1>3, <1>7
<1>10. t.record_count = Cardinality(Live(t)) /\ Cardinality(Live(t) \ {r}) = Cardinality(Live(t)) - 1 /\ t.record_count - 1 \in Nat
  <2>1. t.record_count = Cardinality(Live(t))
    BY DEF WellFormed, Exact
  <2>2. IsFiniteSet(Live(t) \ {r}) /\ Cardinality(Live(t) \ {r}) = Cardinality(Live(t)) - 1
    BY <1>1, FS_RemoveElement
  <2>3. Cardinality(Live(t) \ {r}) \in Nat
    BY <2>2, FS_CardinalityType
  <2> QED BY <2>1, <2>2, <2>3
<1>11. /\ t1 \in MapState(HashSize(t)) /\ t1.records = t.records /\ t1.record = rec
       /\ t1.record_count = t.record_count - 1 /\ t1.hash_table = table
       /\ t1.record_count_threshold = t.record_count_threshold
  BY <1>1, <1>5, <1>8, <1>9, <1>10 DEF MapState
<1>12. PICK u : u = DeleteRecord(t, r)
  OBVIOUS
<1>13. u = IF c = 0 THEN Unlink(t1, r) ELSE [t1 EXCEPT !.record[r] = [Free EXCEPT !.ref_count = c]]
  <2>1. u = IF t.record[r].empty THEN t
            ELSE IF t1.record[r].ref_count = 0 THEN Unlink(t1, r)
            ELSE [t1 EXCEPT !.record[r] = [Free EXCEPT !.ref_count = t1.record[r].ref_count]]
    BY <1>6, <1>12 DEF DeleteRecord
  <2>2. t1.record[r].ref_count = c
    BY <1>9, <1>11
  <2> QED BY <2>1, <2>2, <1>3
<1>14. PICK free : free = [Free EXCEPT !.ref_count = c]
  OBVIOUS
<1>15. free \in RecordType /\ free.ref_count = c /\ free.empty = TRUE /\ (c = 0 => free = Free)
  BY <1>2, <1>14 DEF Free, RecordType
<1>16. PICK list : list = IF c = 0 THEN Sublist(t.records, Others(r)) ELSE t.records
  OBVIOUS
<1>17. u = [t1 EXCEPT !.record = [rec EXCEPT ![r] = free], !.records = list]
  <2>1. CASE c = 0
    BY <2>1, <1>11, <1>13, <1>15, <1>16 DEF Unlink, MapState
  <2>2. CASE c # 0
    BY <2>2, <1>11, <1>13, <1>14, <1>16 DEF MapState
  <2> QED BY <2>1, <2>2
<1>18. /\ list \in Seq(Records) /\ IsInjective(list)
       /\ ToSet(list) = {q \in ToSet(t.records) : q = r => c # 0}
       /\ \A a, b \in ToSet(list) : Place(list, a) <= Place(list, b) <=> Place(t.records, a) <= Place(t.records, b)
       /\ \A S \in SUBSET Others(r) : Sublist(list, S) = Sublist(t.records, S)
  <2>1. CASE c # 0
    BY <2>1, <1>1, <1>16
  <2>2. CASE c = 0
    <3>1. /\ list \in Seq(Records) /\ IsInjective(list)
          /\ ToSet(list) = ToSet(t.records) \cap Others(r)
          /\ \A a, b \in ToSet(list) : Place(list, a) <= Place(list, b) <=> Place(t.records, a) <= Place(t.records, b)
      BY <2>2, <1>1, <1>16, SublistFacts
    <3>2. ASSUME NEW S \in SUBSET Others(r) PROVE Sublist(list, S) = Sublist(t.records, S)
      <4>1. Sublist(Sublist(t.records, Others(r)), S) = Sublist(t.records, Others(r) \cap S)
        BY <1>1, SublistSublist
      <4>2. Others(r) \cap S = S
        OBVIOUS
      <4> QED BY <4>1, <4>2, <2>2, <1>16
    <3>3. ToSet(list) = {q \in ToSet(t.records) : q = r => c # 0}
      BY <3>1, <2>2, <1>1 DEF Others
    <3> QED BY <3>1, <3>2, <3>3
  <2> QED BY <2>1, <2>2
<1>19. /\ u \in MapState(HashSize(t)) /\ u.records = list /\ u.record = [rec EXCEPT ![r] = free]
       /\ u.record_count = t.record_count - 1 /\ u.hash_table = table
       /\ u.record_count_threshold = t.record_count_threshold
  <2>1. [rec EXCEPT ![r] = free] \in [Records -> RecordType]
    BY <1>9, <1>15
  <2> QED BY <2>1, <1>11, <1>17, <1>18 DEF MapState
<1>20. u.record[r] = free /\ \A q \in Records : q # r => u.record[q] = t.record[q]
  BY <1>3, <1>9, <1>19
<1>21. Live(u) = Live(t) \ {r}
  BY <1>15, <1>20 DEF Live
<1>22. Live(u) = Live(t) \cap Others(r) /\ Live(u) \subseteq ToSet(u.records) /\ Others(r) \in SUBSET Records
  BY <1>1, <1>18, <1>19, <1>21 DEF Others
<1>23. \A q \in Live(u) : u.record[q].key = t.record[q].key
  BY <1>1, <1>20, <1>21
<1>24. u.record_count = Cardinality(Live(u))
  BY <1>10, <1>19, <1>21
<1>25. \A S \in SUBSET Live(u) : Sublist(u.records, S) = Sublist(t.records, S)
  BY <1>18, <1>19, <1>22
<1>26. IsInjective(u.records) /\ u.hash_table = [h \in DOMAIN t.hash_table |-> Sublist(t.hash_table[h], Others(r))]
  BY <1>4, <1>18, <1>19
<1>27. WellFormed(u) /\ Occupied(u) = Sublist(Occupied(t), Others(r))
  BY <1>19, <1>22, <1>23, <1>24, <1>25, <1>26, SmallerTable
<1>28. ToSet(u.records) = {q \in ToSet(t.records) : q = r => t.record[r].ref_count > 1}
  BY <1>2, <1>3, <1>18, <1>19
<1> QED BY <1>2, <1>12, <1>15, <1>18, <1>19, <1>20, <1>21, <1>27, <1>28

(* js_map_clear: all entries go, and with them the records no iteration is at. *)
LEMMA ClearEffect ==
  ASSUME NEW t, WellFormed(t), \A r \in Live(t) : t.record[r].ref_count > 0
  PROVE  /\ WellFormed(DeleteAll(t)) /\ Live(DeleteAll(t)) = {} /\ Occupied(DeleteAll(t)) = <<>>
         /\ \A q \in Records :
              DeleteAll(t).record[q].ref_count
                = IF q \in Live(t) THEN t.record[q].ref_count - 1 ELSE t.record[q].ref_count
         /\ ToSet(DeleteAll(t).records)
              = {q \in ToSet(t.records) : q \in Live(t) => t.record[q].ref_count > 1}
<1>1. /\ HashSize(t) \in 1..MaxHashSize /\ t \in MapState(HashSize(t))
      /\ t.records \in Seq(Records) /\ IsInjective(t.records)
      /\ t.record \in [Records -> RecordType]
      /\ DOMAIN t.hash_table = 0..(HashSize(t) - 1)
      /\ Live(t) \subseteq Records /\ Live(t) \subseteq ToSet(t.records)
      /\ ToSet(t.records) \subseteq Records
      /\ IsFiniteSet(Live(t)) /\ Cardinality(Live(t)) \in 0..MaxRecords
  BY StateFacts
<1>2. PICK u : u = DeleteAll(t)
  OBVIOUS
<1>3. PICK rec : rec = [r \in Records |-> IF t.record[r].empty THEN t.record[r]
                                          ELSE [Free EXCEPT !.ref_count = t.record[r].ref_count - 1]]
  OBVIOUS
<1>4. PICK locked : locked = {r \in Records : t.record[r].empty \/ t.record[r].ref_count > 1}
  OBVIOUS
<1>5. PICK list : list = Sublist(t.records, locked)
  OBVIOUS
<1>6. PICK table : table = [h \in DOMAIN t.hash_table |-> Sublist(t.hash_table[h], Records \ Live(t))]
  OBVIOUS
<1>7. u = [t EXCEPT !.record = rec, !.records = list, !.hash_table = table,
                    !.record_count = t.record_count - Cardinality(Live(t))]
  BY <1>1, <1>2, <1>3, <1>4, <1>5, <1>6 DEF DeleteAll, MapState
<1>8. /\ rec \in [Records -> RecordType]
      /\ \A q \in Records : /\ rec[q].empty = TRUE
                            /\ q \in Live(t) => rec[q].ref_count = t.record[q].ref_count - 1
                            /\ q \notin Live(t) => rec[q].ref_count = t.record[q].ref_count
  <2> SUFFICES ASSUME NEW q \in Records
               PROVE  /\ rec[q] \in RecordType /\ rec[q].empty = TRUE
                      /\ q \in Live(t) => rec[q].ref_count = t.record[q].ref_count - 1
                      /\ q \notin Live(t) => rec[q].ref_count = t.record[q].ref_count
    BY <1>3
  <2>1. t.record[q] \in RecordType /\ t.record[q].ref_count \in Nat /\ t.record[q].empty \in BOOLEAN
    BY <1>1 DEF RecordType
  <2>2. CASE t.record[q].empty
    BY <2>1, <2>2, <1>3 DEF Live
  <2>3. CASE ~t.record[q].empty
    <3>1. q \in Live(t)
      BY <2>3 DEF Live
    <3>2. PICK c \in Nat : c = t.record[q].ref_count - 1
      BY <2>1, <3>1
    <3>3. rec[q] = [Free EXCEPT !.ref_count = c]
      BY <2>3, <3>2, <1>3
    <3>4. rec[q] \in RecordType /\ rec[q].ref_count = c /\ rec[q].empty = TRUE
      BY <3>3 DEF Free, RecordType
    <3> QED BY <3>1, <3>2, <3>4
  <2> QED BY <2>1, <2>2, <2>3
<1>9. list \in Seq(Records) /\ IsInjective(list) /\ ToSet(list) = ToSet(t.records) \cap locked
  BY <1>1, <1>5, SublistFacts
<1>10. table \in [0..(HashSize(t) - 1) -> Seq(Records)]
  <2>1. \A h \in 0..(HashSize(t) - 1) : t.hash_table[h] \in Seq(Records) /\ IsInjective(t.hash_table[h])
    <3> SUFFICES ASSUME NEW h \in 0..(HashSize(t) - 1)
                 PROVE t.hash_table[h] \in Seq(Records) /\ IsInjective(t.hash_table[h])
      OBVIOUS
    <3>1. t.hash_table[h] = Sublist(t.records, {q \in Live(t) : Bucket(t.record[q].key, HashSize(t)) = h})
      BY DEF WellFormed, Exact, Chains
    <3> QED BY <3>1, <1>1, SublistFacts
  <2>2. \A h \in 0..(HashSize(t) - 1) : Sublist(t.hash_table[h], Records \ Live(t)) \in Seq(Records)
    BY <2>1, SublistFacts
  <2> QED BY <2>2, <1>1, <1>6
<1>11. t.record_count - Cardinality(Live(t)) = 0 /\ Cardinality({}) = 0
  <2>1. t.record_count = Cardinality(Live(t))
    BY DEF WellFormed, Exact
  <2> QED BY <2>1, <1>1, FS_EmptySet
<1>12. /\ u \in MapState(HashSize(t)) /\ u.records = list /\ u.record = rec /\ u.record_count = 0
       /\ u.hash_table = table /\ u.record_count_threshold = t.record_count_threshold
  <2>1. rec \in [Records -> RecordType] /\ list \in Seq(Records)
    BY <1>8, <1>9
  <2>2. u = [t EXCEPT !.record = rec, !.records = list, !.hash_table = table, !.record_count = 0]
    BY <1>7, <1>11
  <2> QED BY <1>1, <1>10, <2>1, <2>2 DEF MapState
<1>13. Live(u) = {}
  BY <1>8, <1>12 DEF Live
<1>14. Live(u) = Live(t) \cap (Records \ Live(t)) /\ Records \ Live(t) \in SUBSET Records
  BY <1>13
<1>15. \A S \in SUBSET Live(u) : Sublist(u.records, S) = Sublist(t.records, S)
  <2>1. Sublist(list, {}) = <<>> /\ Sublist(t.records, {}) = <<>>
    BY <1>1, <1>9, SublistNone
  <2> QED BY <2>1, <1>12, <1>13
<1>16. WellFormed(u) /\ Occupied(u) = Sublist(Occupied(t), Records \ Live(t))
  <2>1. IsInjective(u.records) /\ Live(u) \subseteq ToSet(u.records) /\ u.record_count = Cardinality(Live(u))
    BY <1>9, <1>11, <1>12, <1>13
  <2>2. u.hash_table = [h \in DOMAIN t.hash_table |-> Sublist(t.hash_table[h], Records \ Live(t))]
    BY <1>6, <1>12
  <2>3. \A q \in Live(u) : u.record[q].key = t.record[q].key
    BY <1>13
  <2> QED BY <1>12, <1>14, <1>15, <2>1, <2>2, <2>3, SmallerTable
<1>17. Occupied(u) = <<>>
  <2>1. Sublist(list, {}) = <<>>
    BY <1>9, SublistNone
  <2> QED BY <2>1, <1>12, <1>13 DEF Occupied
<1>18. ToSet(u.records) = {q \in ToSet(t.records) : q \in Live(t) => t.record[q].ref_count > 1}
  <2>1. \A q \in Records : q \in locked <=> (q \in Live(t) => t.record[q].ref_count > 1)
    BY <1>1, <1>4 DEF Live, RecordType
  <2> QED BY <2>1, <1>1, <1>9, <1>12
<1> QED BY <1>2, <1>8, <1>12, <1>13, <1>16, <1>17, <1>18

-----------------------------------------------------------------------------
(* How many iterators of it, and how many loops of l, are at record r. *)
IteratorsAt(it, r) == Cardinality({i \in Iterators : it[i].cur_record = r})

LoopsAt(l, r) == Cardinality({n \in DOMAIN l : l[n] = r})

(* Both are numbers. *)
LEMMA CursorTypes ==
  ASSUME NEW it, NEW l \in Seq(Records), NEW r
  PROVE  IteratorsAt(it, r) \in Nat /\ LoopsAt(l, r) \in Nat
<1>1. IsFiniteSet(Iterators)
  BY MapAssumption
<1>2. IteratorsAt(it, r) \in Nat
  <2>1. {i \in Iterators : it[i].cur_record = r} \in SUBSET Iterators
    OBVIOUS
  <2> QED BY <1>1, <2>1, FS_Subset, FS_CardinalityType DEF IteratorsAt
<1>3. LoopsAt(l, r) \in Nat
  <2>1. {n \in DOMAIN l : l[n] = r} \in SUBSET (1..Len(l)) /\ Len(l) \in Nat
    OBVIOUS
  <2>2. IsFiniteSet(1..Len(l))
    BY <2>1, FS_Interval
  <2> QED BY <2>1, <2>2, FS_Subset, FS_CardinalityType DEF LoopsAt
<1> QED BY <1>2, <1>3

(* An iterator moves from a record, or from none, to another. *)
LEMMA IteratorMoves ==
  ASSUME NEW it \in [Iterators -> IteratorType], NEW i \in Iterators, NEW to \in IteratorType, NEW r,
         NEW jt, jt[i] = to, \A j \in Iterators : j # i => jt[j] = it[j]
  PROVE  /\ it[i].cur_record = r /\ to.cur_record = r => IteratorsAt(jt, r) = IteratorsAt(it, r)
         /\ it[i].cur_record = r /\ to.cur_record # r => IteratorsAt(jt, r) = IteratorsAt(it, r) - 1
         /\ it[i].cur_record # r /\ to.cur_record = r => IteratorsAt(jt, r) = IteratorsAt(it, r) + 1
         /\ it[i].cur_record # r /\ to.cur_record # r => IteratorsAt(jt, r) = IteratorsAt(it, r)
<1>1. PICK A : A = {j \in Iterators : it[j].cur_record = r}
  OBVIOUS
<1>2. PICK B : B = {j \in Iterators : jt[j].cur_record = r}
  OBVIOUS
<1>3. IsFiniteSet(A) /\ Cardinality(A) \in Nat
  <2>1. IsFiniteSet(Iterators) /\ A \in SUBSET Iterators
    BY <1>1, MapAssumption
  <2> QED BY <2>1, FS_Subset, FS_CardinalityType
<1>4. i \in A <=> it[i].cur_record = r
  BY <1>1
<1>5. \A j \in Iterators : j \in B <=> IF j = i THEN to.cur_record = r ELSE j \in A
  BY <1>1, <1>2
<1>6. A \subseteq Iterators /\ B \subseteq Iterators
  BY <1>1, <1>2
<1>7. CASE to.cur_record = r
  <2>1. B = A \cup {i}
    BY <1>5, <1>6, <1>7
  <2>2. Cardinality(B) = IF i \in A THEN Cardinality(A) ELSE Cardinality(A) + 1
    BY <1>3, <2>1, FS_AddElement
  <2> QED BY <1>1, <1>2, <1>3, <1>4, <1>7, <2>2 DEF IteratorsAt
<1>8. CASE to.cur_record # r
  <2>1. B = A \ {i}
    BY <1>5, <1>6, <1>8
  <2>2. Cardinality(B) = IF i \in A THEN Cardinality(A) - 1 ELSE Cardinality(A)
    BY <1>3, <2>1, FS_RemoveElement
  <2> QED BY <1>1, <1>2, <1>3, <1>4, <1>8, <2>2 DEF IteratorsAt
<1> QED BY <1>7, <1>8

(* A loop more. *)
LEMMA LoopStarts ==
  ASSUME NEW l \in Seq(Records), NEW q \in Records, NEW r
  PROVE  LoopsAt(Append(l, q), r) = LoopsAt(l, r) + (IF q = r THEN 1 ELSE 0)
<1>1. PICK N \in Nat : N = Len(l)
  OBVIOUS
<1>2. PICK A : A = {n \in DOMAIN l : l[n] = r}
  OBVIOUS
<1>3. PICK B : B = {n \in DOMAIN Append(l, q) : Append(l, q)[n] = r}
  OBVIOUS
<1>4. IsFiniteSet(A) /\ Cardinality(A) \in Nat /\ N + 1 \notin A
  <2>1. A \in SUBSET (1..N)
    BY <1>1, <1>2
  <2>2. IsFiniteSet(1..N)
    BY FS_Interval
  <2>3. IsFiniteSet(A) /\ Cardinality(A) \in Nat
    BY <2>1, <2>2, FS_Subset, FS_CardinalityType
  <2>4. N + 1 \notin A
    BY <2>1
  <2> QED BY <2>3, <2>4
<1>5. /\ DOMAIN Append(l, q) = 1..(N + 1) /\ DOMAIN l = 1..N
      /\ \A n \in 1..N : Append(l, q)[n] = l[n]
      /\ Append(l, q)[N + 1] = q
  BY <1>1
<1>6. \A n : n \in 1..(N + 1) <=> (n \in 1..N \/ n = N + 1)
  OBVIOUS
<1>7. CASE q = r
  <2>1. B = A \cup {N + 1}
    BY <1>2, <1>3, <1>5, <1>6, <1>7
  <2>2. Cardinality(B) = Cardinality(A) + 1
    BY <1>4, <2>1, FS_AddElement
  <2> QED BY <1>2, <1>3, <1>7, <2>2 DEF LoopsAt
<1>8. CASE q # r
  <2>1. B = A
    BY <1>2, <1>3, <1>5, <1>6, <1>8
  <2>2. LoopsAt(Append(l, q), r) = Cardinality(A) /\ LoopsAt(l, r) = Cardinality(A)
    BY <1>2, <1>3, <2>1 DEF LoopsAt
  <2> QED BY <1>4, <1>8, <2>2
<1> QED BY <1>7, <1>8

(* The innermost loop ends. *)
LEMMA LoopEnds ==
  ASSUME NEW l \in Seq(Records), l # <<>>, NEW r
  PROVE  /\ Front(l) \in Seq(Records) /\ Last(l) \in Records /\ l = Append(Front(l), Last(l))
         /\ LoopsAt(l, r) = LoopsAt(Front(l), r) + (IF Last(l) = r THEN 1 ELSE 0)
<1>1. PICK N \in Nat : N = Len(l) /\ N > 0
  OBVIOUS
<1>2. PICK f : f = Front(l)
  OBVIOUS
<1>3. f \in Seq(Records) /\ Len(f) = N - 1 /\ \A n \in 1..(N - 1) : f[n] = l[n]
  <2>1. \A n \in 1..(N - 1) : l[n] \in Records
    BY <1>1
  <2>2. f = SubSeq(l, 1, N - 1)
    BY <1>1, <1>2 DEF Front
  <2> QED BY <1>1, <2>1, <2>2, SubSeqProperties
<1>4. Last(l) \in Records /\ Last(l) = l[N]
  BY <1>1 DEF Last
<1>5. l = Append(f, Last(l))
  BY <1>1, <1>3, <1>4
<1>6. LoopsAt(Append(f, Last(l)), r) = LoopsAt(f, r) + (IF Last(l) = r THEN 1 ELSE 0)
  BY <1>3, <1>4, LoopStarts
<1> QED BY <1>2, <1>3, <1>4, <1>5, <1>6
=============================================================================
