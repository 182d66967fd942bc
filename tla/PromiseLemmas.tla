---------------------------- MODULE PromiseLemmas ----------------------------
(***************************************************************************)
(* What the proofs about promises rest on, for any sets of promises, values, *)
(* thenables and async functions and any bounds.                             *)
(*                                                                          *)
(* First the job list and the stack: which positions hold a job or a frame   *)
(* that can settle a promise, or resume an async function, after something   *)
(* was added or taken.  Then the three parts of SettlingInv: what is done to  *)
(* promises, who can settle them, and the ids of reactions.  Last what the    *)
(* actions are made of: fulfill_or_reject_promise,                           *)
(* js_promise_resolve_function_call and                                      *)
(* perform_promise_then keep SettlingInv.                                    *)
(***************************************************************************)
EXTENDS Promises, FiniteSetTheorems, SequenceTheorems, TLAPS

(* Reaction jobs behind a job list settle nothing by themselves. *)
LEMMA ReactionsBehind ==
  ASSUME NEW js \in Seq(Jobs), NEW R \in Seq(ReactionJobs), NEW jl, jl = js \o R
  PROVE  /\ jl \in Seq(Jobs) /\ Len(jl) = Len(js) + Len(R)
         /\ Len(js) \in Nat /\ Len(R) \in Nat
         /\ \A i \in 1..Len(js) : jl[i] = js[i]
         /\ \A i \in 1..Len(R) : jl[Len(js) + i] = R[i] /\ R[i] \in ReactionJobs
         /\ \A i \in 1..Len(jl) : i \in 1..Len(js) \/ (i - Len(js) \in 1..Len(R) /\ jl[i] = R[i - Len(js)])
         /\ 1..Len(js) \subseteq 1..Len(jl)
         /\ \A i \in 1..Len(jl) : jl[i].kind = "thenable" => i \in 1..Len(js)
<1>1. R \in Seq(Jobs)
  BY SeqMonotonic DEF Jobs
<1>2. /\ jl \in Seq(Jobs) /\ Len(jl) = Len(js) + Len(R)
      /\ \A i \in 1..Len(js) + Len(R) : jl[i] = IF i <= Len(js) THEN js[i] ELSE R[i - Len(js)]
  BY <1>1, ConcatProperties
<1>3. Len(js) \in Nat /\ Len(R) \in Nat
  BY LenProperties
<1>4. \A i \in 1..Len(js) : jl[i] = js[i]
  BY <1>2, <1>3
<1>5. \A i \in 1..Len(R) : jl[Len(js) + i] = R[i] /\ R[i] \in ReactionJobs
  BY <1>2, <1>3, ElementOfSeq
<1>6. \A i \in 1..Len(jl) : i \in 1..Len(js) \/ (i - Len(js) \in 1..Len(R) /\ jl[i] = R[i - Len(js)])
  BY <1>2, <1>3
<1>7. \A i \in 1..Len(jl) : jl[i].kind = "thenable" => i \in 1..Len(js)
  <2> SUFFICES ASSUME NEW i \in 1..Len(jl), i \notin 1..Len(js) PROVE jl[i].kind # "thenable"
    OBVIOUS
  <2>1. jl[i] \in ReactionJobs
    BY <1>5, <1>6
  <2> QED BY <2>1 DEF ReactionJobs
<1>8. 1..Len(js) \subseteq 1..Len(jl)
  BY <1>2, <1>3
<1> QED BY <1>2, <1>3, <1>4, <1>5, <1>6, <1>7, <1>8

(* ... so the thenable jobs and the adoptions stay where they are. *)
LEMMA ThenablesBehind ==
  ASSUME NEW js \in Seq(Jobs), NEW R \in Seq(ReactionJobs), NEW jl, jl = js \o R, NEW p
  PROVE  ThenableFor(jl, p) = ThenableFor(js, p) /\ AdoptionsIn(jl) = AdoptionsIn(js)
<1>1. /\ \A i \in 1..Len(js) : jl[i] = js[i]
      /\ 1..Len(js) \subseteq 1..Len(jl)
      /\ \A i \in 1..Len(jl) : jl[i].kind = "thenable" => i \in 1..Len(js)
  BY ReactionsBehind
<1>2. ThenableFor(jl, p) = ThenableFor(js, p)
  BY <1>1 DEF ThenableFor
<1>3. AdoptionsIn(jl) = AdoptionsIn(js)
  BY <1>1 DEF AdoptionsIn
<1> QED BY <1>2, <1>3

(* A job is added. *)
LEMMA JobAppended ==
  ASSUME NEW js \in Seq(Jobs), NEW e \in Jobs, NEW jl, jl = Append(js, e)
  PROVE  /\ jl \in Seq(Jobs) /\ Len(jl) = Len(js) + 1 /\ Len(js) \in Nat
         /\ \A i \in 1..Len(js) : jl[i] = js[i]
         /\ jl[Len(js) + 1] = e
         /\ \A i \in 1..Len(jl) : i \in 1..Len(js) \/ i = Len(js) + 1
         /\ 1..Len(jl) = 1..Len(js) \cup {Len(js) + 1}
<1>1. /\ jl \in Seq(Jobs) /\ Len(jl) = Len(js) + 1
      /\ \A i \in 1..Len(js) : jl[i] = js[i]
      /\ jl[Len(js) + 1] = e
  BY AppendProperties
<1>2. Len(js) \in Nat
  BY LenProperties
<1>3. 1..Len(jl) = 1..Len(js) \cup {Len(js) + 1}
  BY <1>1, <1>2
<1> QED BY <1>1, <1>2, <1>3

(* ... and if it is a reaction, the thenable jobs are those there were. *)
LEMMA ThenablesAppended ==
  ASSUME NEW js \in Seq(Jobs), NEW e \in ReactionJobs, NEW jl, jl = Append(js, e), NEW p
  PROVE  ThenableFor(jl, p) = ThenableFor(js, p)
<1>1. e \in Jobs /\ e.kind = "reaction"
  BY DEF Jobs, ReactionJobs
<1>2. /\ \A i \in 1..Len(js) : jl[i] = js[i]
      /\ jl[Len(js) + 1] = e
      /\ 1..Len(jl) = 1..Len(js) \cup {Len(js) + 1}
  BY <1>1, JobAppended
<1> QED BY <1>1, <1>2 DEF ThenableFor

(* The adoptions of a job list are finitely many. *)
LEMMA AdoptionsFinite ==
  ASSUME NEW js \in Seq(Jobs)
  PROVE  /\ IsFiniteSet(AdoptionsIn(js)) /\ AdoptionsIn(js) \in SUBSET Nat
         /\ Cardinality(AdoptionsIn(js)) \in Nat
<1>1. Len(js) \in Nat
  BY LenProperties
<1>2. IsFiniteSet(1..Len(js))
  BY <1>1, FS_Interval
<1>3. AdoptionsIn(js) \in SUBSET (1..Len(js)) /\ AdoptionsIn(js) \in SUBSET Nat
  BY <1>1 DEF AdoptionsIn
<1> QED BY <1>2, <1>3, FS_Subset, FS_CardinalityType

(* With a job that adopts a promise there is one adoption more. *)
LEMMA AdoptionsAppended ==
  ASSUME NEW js \in Seq(Jobs), NEW e \in Jobs, NEW jl, jl = Append(js, e)
  PROVE  /\ e.kind = "thenable" /\ e.arg \in Promises =>
              Cardinality(AdoptionsIn(jl)) = Cardinality(AdoptionsIn(js)) + 1
         /\ ~(e.kind = "thenable" /\ e.arg \in Promises) => AdoptionsIn(jl) = AdoptionsIn(js)
<1>1. /\ \A i \in 1..Len(js) : jl[i] = js[i]
      /\ jl[Len(js) + 1] = e /\ Len(js) \in Nat
      /\ 1..Len(jl) = 1..Len(js) \cup {Len(js) + 1}
  BY JobAppended
<1>2. CASE e.kind = "thenable" /\ e.arg \in Promises
  <2>1. AdoptionsIn(jl) = AdoptionsIn(js) \cup {Len(js) + 1}
    BY <1>1, <1>2 DEF AdoptionsIn
  <2>2. Len(js) + 1 \notin AdoptionsIn(js)
    BY <1>1 DEF AdoptionsIn
  <2>3. IsFiniteSet(AdoptionsIn(js)) /\ Cardinality(AdoptionsIn(js)) \in Nat
    BY AdoptionsFinite
  <2>4. Cardinality(AdoptionsIn(jl)) = Cardinality(AdoptionsIn(js)) + 1
    BY <2>1, <2>2, <2>3, FS_AddElement
  <2> QED BY <1>2, <2>4
<1>3. CASE ~(e.kind = "thenable" /\ e.arg \in Promises)
  <2>1. AdoptionsIn(jl) = AdoptionsIn(js)
    BY <1>1, <1>3 DEF AdoptionsIn
  <2> QED BY <1>3, <2>1
<1> QED BY <1>2, <1>3

(* Moving a finite set of positions does not change their number. *)
LEMMA ShiftedCardinality ==
  ASSUME NEW S \in SUBSET Nat, IsFiniteSet(S), NEW T, T = {i - 1 : i \in S}
  PROVE  IsFiniteSet(T) /\ Cardinality(T) = Cardinality(S)
<1> DEFINE f == [i \in S |-> i - 1]
<1>1. f \in Bijection(S, T)
  <2>1. f \in [S -> T]
    OBVIOUS
  <2>2. \A a, b \in S : f[a] = f[b] => a = b
    OBVIOUS
  <2>3. \A t \in T : \E a \in S : f[a] = t
    OBVIOUS
  <2> QED BY <2>1, <2>2, <2>3 DEF Bijection, Injection, Surjection, IsInjective
<1>2. ExistsBijection(S, T)
  BY <1>1 DEF ExistsBijection
<1> QED BY <1>2, FS_Bijection

(* The first job is taken. *)
LEMMA JobTaken ==
  ASSUME NEW js \in Seq(Jobs), js # <<>>, NEW jl, jl = Tail(js), NEW e, e = Head(js)
  PROVE  /\ jl \in Seq(Jobs) /\ Len(jl) = Len(js) - 1 /\ Len(js) \in Nat \ {0}
         /\ e \in Jobs /\ js[1] = e
         /\ \A i \in 1..Len(jl) : i + 1 \in 1..Len(js) /\ jl[i] = js[i + 1]
         /\ \A i \in 1..Len(js) : i = 1 \/ (i - 1 \in 1..Len(jl) /\ jl[i - 1] = js[i])
<1>1. /\ jl \in Seq(Jobs) /\ Len(jl) = Len(js) - 1 /\ e \in Jobs
      /\ \A i \in 1..Len(jl) : jl[i] = js[i + 1]
  BY HeadTailProperties
<1>2. Len(js) \in Nat \ {0}
  BY EmptySeq
<1>3. js[1] = e
  OBVIOUS
<1>4. /\ \A i \in 1..Len(jl) : i + 1 \in 1..Len(js) /\ jl[i] = js[i + 1]
      /\ \A i \in 1..Len(js) : i = 1 \/ (i - 1 \in 1..Len(jl) /\ jl[i - 1] = js[i])
  BY <1>1, <1>2
<1> QED BY <1>1, <1>2, <1>3, <1>4

(* ... and the thenable jobs that are left are the others, one place earlier. *)
LEMMA ThenablesTaken ==
  ASSUME NEW js \in Seq(Jobs), js # <<>>, NEW jl, jl = Tail(js), NEW e, e = Head(js), NEW p,
         Lone(ThenableFor(js, p))
  PROVE  /\ Lone(ThenableFor(jl, p))
         /\ ~(e.kind = "thenable" /\ e.promise = p) =>
              (ThenableFor(jl, p) = {} <=> ThenableFor(js, p) = {})
         /\ (e.kind = "thenable" /\ e.promise = p) =>
              ThenableFor(jl, p) = {} /\ ThenableFor(js, p) # {}
<1>1. /\ jl \in Seq(Jobs) /\ Len(jl) = Len(js) - 1 /\ Len(js) \in Nat \ {0}
      /\ e \in Jobs /\ js[1] = e
      /\ \A i \in 1..Len(jl) : i + 1 \in 1..Len(js) /\ jl[i] = js[i + 1]
      /\ \A i \in 1..Len(js) : i = 1 \/ (i - 1 \in 1..Len(jl) /\ jl[i - 1] = js[i])
  BY JobTaken
<1>2. /\ \A i \in ThenableFor(jl, p) : i + 1 \in ThenableFor(js, p) /\ i \in Nat \ {0}
      /\ \A i \in ThenableFor(js, p) : i = 1 \/ i - 1 \in ThenableFor(jl, p)
      /\ 1 \in ThenableFor(js, p) <=> e.kind = "thenable" /\ e.promise = p
  BY <1>1 DEF ThenableFor
<1>3. Lone(ThenableFor(jl, p))
  BY <1>2 DEF Lone
<1>4. CASE ~(e.kind = "thenable" /\ e.promise = p)
  BY <1>2, <1>3, <1>4
<1>5. CASE e.kind = "thenable" /\ e.promise = p
  <2>1. ASSUME NEW i \in ThenableFor(jl, p) PROVE FALSE
    BY <1>2, <1>5, <2>1 DEF Lone
  <2> QED BY <1>2, <1>3, <1>5, <2>1
<1> QED BY <1>4, <1>5

(* The adoptions that are left when the first job is taken. *)
LEMMA AdoptionTaken ==
  ASSUME NEW js \in Seq(Jobs), js # <<>>, NEW jl, jl = Tail(js), NEW e, e = Head(js)
  PROVE  Cardinality(AdoptionsIn(jl)) = Cardinality(AdoptionsIn(js))
           - (IF e.kind = "thenable" /\ e.arg \in Promises THEN 1 ELSE 0)
<1>1. /\ jl \in Seq(Jobs) /\ Len(jl) = Len(js) - 1 /\ Len(js) \in Nat \ {0}
      /\ e \in Jobs /\ js[1] = e
      /\ \A i \in 1..Len(jl) : i + 1 \in 1..Len(js) /\ jl[i] = js[i + 1]
      /\ \A i \in 1..Len(js) : i = 1 \/ (i - 1 \in 1..Len(jl) /\ jl[i - 1] = js[i])
  BY JobTaken
<1> DEFINE A == AdoptionsIn(js)
           B == A \ {1}
<1>2. IsFiniteSet(A) /\ A \in SUBSET Nat /\ Cardinality(A) \in Nat
  BY AdoptionsFinite
<1>3. AdoptionsIn(jl) = {i - 1 : i \in B}
  <2>1. ASSUME NEW i \in AdoptionsIn(jl) PROVE \E k \in B : i = k - 1
    <3>1. i + 1 \in B /\ i = (i + 1) - 1
      BY <1>1 DEF AdoptionsIn
    <3> QED BY <3>1
  <2>2. ASSUME NEW k \in B PROVE k - 1 \in AdoptionsIn(jl)
    BY <1>1 DEF AdoptionsIn
  <2> DEFINE T == {i - 1 : i \in B}
  <2>3. AdoptionsIn(jl) \subseteq T /\ T \subseteq AdoptionsIn(jl)
    BY <2>1, <2>2
  <2> HIDE DEF T
  <2>4. AdoptionsIn(jl) = T
    BY <2>3
  <2> QED BY <2>4 DEF T
<1>4. 1 \in A <=> e.kind = "thenable" /\ e.arg \in Promises
  BY <1>1 DEF AdoptionsIn
<1> HIDE DEF A
<1>5. IsFiniteSet(B) /\ Cardinality(B) = Cardinality(A) - (IF 1 \in A THEN 1 ELSE 0)
  <2>1. /\ IsFiniteSet(A \ {1})
        /\ Cardinality(A \ {1}) = IF 1 \in A THEN Cardinality(A) - 1 ELSE Cardinality(A)
    BY <1>2, FS_RemoveElement
  <2> HIDE DEF B
  <2>2. B = A \ {1}
    BY DEF B
  <2> QED BY <1>2, <2>1, <2>2
<1>6. Cardinality(AdoptionsIn(jl)) = Cardinality(B)
  <2>1. B \in SUBSET Nat
    BY <1>2
  <2> HIDE DEF B
  <2> QED BY <1>3, <1>5, <2>1, ShiftedCardinality
<1> QED BY <1>4, <1>5, <1>6 DEF A

(* A C function calls user code. *)
LEMMA FramePushed ==
  ASSUME NEW fs \in Seq(Frames), NEW x \in Frames, NEW fr, fr = <<x>> \o fs
  PROVE  /\ fr \in Seq(Frames) /\ Len(fr) = Len(fs) + 1 /\ Len(fs) \in Nat
         /\ fr[1] = x
         /\ \A i \in 1..Len(fs) : i + 1 \in 1..Len(fr) /\ fr[i + 1] = fs[i]
         /\ \A i \in 1..Len(fr) : i = 1 \/ (i - 1 \in 1..Len(fs) /\ fr[i] = fs[i - 1])
<1>1. <<x>> \in Seq(Frames) /\ Len(<<x>>) = 1 /\ <<x>>[1] = x
  OBVIOUS
<1>2. /\ fr \in Seq(Frames) /\ Len(fr) = 1 + Len(fs)
      /\ \A i \in 1..(1 + Len(fs)) : fr[i] = IF i <= 1 THEN <<x>>[i] ELSE fs[i - 1]
  BY <1>1, ConcatProperties
<1>3. Len(fs) \in Nat
  BY LenProperties
<1>4. /\ fr[1] = x /\ 1 \in 1..Len(fr)
      /\ \A i \in 1..Len(fs) : i + 1 \in 1..Len(fr) /\ fr[i + 1] = fs[i]
      /\ \A i \in 1..Len(fr) : i = 1 \/ (i - 1 \in 1..Len(fs) /\ fr[i] = fs[i - 1])
  BY <1>1, <1>2, <1>3
<1> QED BY <1>2, <1>3, <1>4

(* ... and the lookups of then are those there were, and the new call if it is one. *)
LEMMA GettersPushed ==
  ASSUME NEW fs \in Seq(Frames), NEW x \in Frames, NEW fr, fr = <<x>> \o fs, NEW p,
         Lone(GettersFor(fs, p)), x.kind = "getter" /\ x.promise = p => GettersFor(fs, p) = {}
  PROVE  /\ Lone(GettersFor(fr, p))
         /\ x.kind = "getter" /\ x.promise = p => GettersFor(fr, p) # {}
         /\ ~(x.kind = "getter" /\ x.promise = p) =>
              (GettersFor(fr, p) = {} <=> GettersFor(fs, p) = {})
<1>1. /\ fr \in Seq(Frames) /\ Len(fr) = Len(fs) + 1 /\ Len(fs) \in Nat /\ fr[1] = x
      /\ \A i \in 1..Len(fs) : i + 1 \in 1..Len(fr) /\ fr[i + 1] = fs[i]
      /\ \A i \in 1..Len(fr) : i = 1 \/ (i - 1 \in 1..Len(fs) /\ fr[i] = fs[i - 1])
  BY FramePushed
<1>2. /\ \A i \in GettersFor(fs, p) : i + 1 \in GettersFor(fr, p)
      /\ \A i \in GettersFor(fr, p) : i \in Nat /\ (i = 1 \/ i - 1 \in GettersFor(fs, p))
      /\ 1 \in GettersFor(fr, p) <=> x.kind = "getter" /\ x.promise = p
  BY <1>1 DEF GettersFor
<1>3. Lone(GettersFor(fr, p))
  BY <1>2 DEF Lone
<1>4. CASE x.kind = "getter" /\ x.promise = p
  BY <1>2, <1>3, <1>4
<1>5. CASE ~(x.kind = "getter" /\ x.promise = p)
  BY <1>2, <1>3, <1>5
<1> QED BY <1>4, <1>5

(* User code comes back to it. *)
LEMMA FramePopped ==
  ASSUME NEW fs \in Seq(Frames), fs # <<>>, NEW fr, fr = Tail(fs), NEW x, x = Head(fs)
  PROVE  /\ fr \in Seq(Frames) /\ x \in Frames /\ fs[1] = x /\ 1 \in 1..Len(fs)
         /\ \A i \in 1..Len(fr) : i + 1 \in 1..Len(fs) /\ fr[i] = fs[i + 1]
         /\ \A i \in 1..Len(fs) : i = 1 \/ (i - 1 \in 1..Len(fr) /\ fr[i - 1] = fs[i])
         /\ Len(fr) = Len(fs) - 1 /\ Len(fs) \in Nat \ {0}
<1>1. /\ fr \in Seq(Frames) /\ Len(fr) = Len(fs) - 1 /\ x \in Frames
      /\ \A i \in 1..Len(fr) : fr[i] = fs[i + 1]
  BY HeadTailProperties
<1>2. Len(fs) \in Nat \ {0} /\ fs[1] = x
  BY EmptySeq
<1>3. /\ \A i \in 1..Len(fr) : i + 1 \in 1..Len(fs) /\ fr[i] = fs[i + 1]
      /\ \A i \in 1..Len(fs) : i = 1 \/ (i - 1 \in 1..Len(fr) /\ fr[i - 1] = fs[i])
  BY <1>1, <1>2
<1> QED BY <1>1, <1>2, <1>3

(* ... and the lookups of then that are left are the others. *)
LEMMA GettersPopped ==
  ASSUME NEW fs \in Seq(Frames), fs # <<>>, NEW fr, fr = Tail(fs), NEW x, x = Head(fs), NEW p,
         Lone(GettersFor(fs, p))
  PROVE  /\ Lone(GettersFor(fr, p))
         /\ ~(x.kind = "getter" /\ x.promise = p) =>
              (GettersFor(fr, p) = {} <=> GettersFor(fs, p) = {})
         /\ (x.kind = "getter" /\ x.promise = p) =>
              GettersFor(fr, p) = {} /\ GettersFor(fs, p) # {}
<1>1. /\ fr \in Seq(Frames) /\ Len(fr) = Len(fs) - 1 /\ Len(fs) \in Nat \ {0} /\ fs[1] = x
      /\ \A i \in 1..Len(fr) : i + 1 \in 1..Len(fs) /\ fr[i] = fs[i + 1]
      /\ \A i \in 1..Len(fs) : i = 1 \/ (i - 1 \in 1..Len(fr) /\ fr[i - 1] = fs[i])
  BY FramePopped
<1>2. /\ \A i \in GettersFor(fr, p) : i + 1 \in GettersFor(fs, p) /\ i \in Nat \ {0}
      /\ \A i \in GettersFor(fs, p) : i = 1 \/ i - 1 \in GettersFor(fr, p)
      /\ 1 \in GettersFor(fs, p) <=> x.kind = "getter" /\ x.promise = p
  BY <1>1 DEF GettersFor
<1>3. Lone(GettersFor(fr, p))
  BY <1>2 DEF Lone
<1>4. CASE ~(x.kind = "getter" /\ x.promise = p)
  BY <1>2, <1>3, <1>4
<1>5. CASE x.kind = "getter" /\ x.promise = p
  <2>1. ASSUME NEW i \in GettersFor(fr, p) PROVE FALSE
    BY <1>2, <1>5, <2>1 DEF Lone
  <2> QED BY <1>2, <1>3, <1>5, <2>1
<1> QED BY <1>4, <1>5

-----------------------------------------------------------------------------
(* Numbers given out from 1 on are 1 to how many there are. *)
LEMMA GivenOutInOrder ==
  ASSUME NEW n \in Nat, NEW U \in SUBSET (1..n), \A x \in U : \A y \in 1..x : y \in U
  PROVE  /\ IsFiniteSet(U) /\ Cardinality(U) \in Nat /\ Cardinality(U) <= n
         /\ U = 1..Cardinality(U)
<1>1. IsFiniteSet(1..n) /\ Cardinality(1..n) = n
  BY FS_Interval
<1>2. IsFiniteSet(U) /\ Cardinality(U) <= n /\ Cardinality(U) \in Nat
  BY <1>1, FS_Subset, FS_CardinalityType
<1>3. ASSUME NEW x \in U PROVE x <= Cardinality(U)
  <2>1. x \in Nat /\ 1..x \in SUBSET U
    OBVIOUS
  <2>2. Cardinality(1..x) = x
    BY <2>1, FS_Interval
  <2>3. Cardinality(1..x) <= Cardinality(U)
    BY <1>2, <2>1, FS_Subset
  <2> QED BY <2>2, <2>3
<1> DEFINE m == Cardinality(U)
<1>4. U \in SUBSET (1..m)
  BY <1>3
<1>5. IsFiniteSet(1..m) /\ Cardinality(1..m) = m
  BY <1>2, FS_Interval
<1>6. U = 1..m
  BY <1>4, <1>5, FS_Subset
<1> QED BY <1>2, <1>6

(* js_create_resolving_functions makes a pair that did not exist. *)
LEMMA NewPairFresh ==
  ASSUME PairsNumbered, NEW p \in Promises, pairs[<<p, MaxPairs>>] = "none"
  PROVE  /\ NewPair(p) \in Pairs /\ NewPair(p)[1] = p /\ pairs[NewPair(p)] = "none"
         /\ \A k \in 1..MaxPairs : <<p, k>> = NewPair(p) \/ pairs[<<p, k>>] # "none"
                                   \/ k > NewPair(p)[2]
         /\ \A k \in 1..MaxPairs : k < NewPair(p)[2] => pairs[<<p, k>>] # "none"
         /\ NewPair(p) = <<p, NewPair(p)[2]>> /\ NewPair(p)[2] \in 1..MaxPairs
<1> DEFINE U == {k \in 1..MaxPairs : pairs[<<p, k>>] # "none"}
           n == Cardinality(U)
<1>1. MaxPairs \in Nat \ {0}
  BY PromisesAssumption
<1>2. \A x \in U : \A y \in 1..x : y \in U
  BY <1>1 DEF PairsNumbered
<1>3. n \in Nat /\ n <= MaxPairs /\ U = 1..n
  <2>1. U \in SUBSET (1..MaxPairs)
    OBVIOUS
  <2> HIDE DEF U
  <2> QED BY <1>1, <1>2, <2>1, GivenOutInOrder
<1>4. MaxPairs \notin U
  OBVIOUS
<1>5. NewPair(p) = <<p, n + 1>>
  BY DEF NewPair
<1>6. \A k \in 1..MaxPairs : pairs[<<p, k>>] # "none" <=> k \in U
  OBVIOUS
<1> HIDE DEF n, U
<1>7. n < MaxPairs
  BY <1>1, <1>3, <1>4
<1>8. n + 1 \in 1..MaxPairs /\ n + 1 \notin U
  BY <1>1, <1>3, <1>7
<1>9. <<p, n + 1>> \in Pairs
  BY <1>8 DEF Pairs
<1>10. \A k \in 1..MaxPairs : k < n + 1 => k \in U
  BY <1>1, <1>3
<1> QED BY <1>3, <1>5, <1>6, <1>8, <1>9, <1>10

(* The ids of reactions: the next one is new, and with it they are still in order. *)
LEMMA NextReactionFresh ==
  ASSUME registered \in [Promises -> Seq(Reactions)], \A x \in Used : \A y \in 1..x : y \in Used
  PROVE  /\ Used \in SUBSET Reactions /\ IsFiniteSet(Used) /\ Cardinality(Used) \in Nat
         /\ Used = 1..Cardinality(Used) /\ NextReaction \notin Used
         /\ NextReaction \in Nat \ {0} /\ \A x \in Used : x < NextReaction
<1>1. MaxReactions \in Nat
  BY PromisesAssumption
<1>2. Used \in SUBSET (1..MaxReactions)
  <2> SUFFICES ASSUME NEW p \in Promises, NEW x \in ToSet(registered[p]) PROVE x \in 1..MaxReactions
    BY DEF Used
  <2>1. registered[p] \in Seq(Reactions)
    OBVIOUS
  <2>2. PICK i \in DOMAIN registered[p] : x = registered[p][i]
    BY DEF ToSet
  <2> QED BY <2>1, <2>2, LenProperties, ElementOfSeq DEF Reactions
<1>3. IsFiniteSet(Used) /\ Cardinality(Used) \in Nat /\ Used = 1..Cardinality(Used)
  BY <1>1, <1>2, GivenOutInOrder
<1> QED BY <1>2, <1>3 DEF NextReaction, Reactions

(* Where the members of S are in a sequence, after something was added or taken. *)
LEMMA AtAppended ==
  ASSUME NEW T, NEW s \in Seq(T), NEW e \in T, NEW S
  PROVE  /\ e \notin S => At(Append(s, e), S) = At(s, S)
         /\ e \in S /\ At(s, S) = {} => Lone(At(Append(s, e), S))
<1> DEFINE t == Append(s, e)
<1>1. /\ Len(t) = Len(s) + 1 /\ Len(s) \in Nat
      /\ \A i \in 1..Len(s) : t[i] = s[i]
      /\ t[Len(s) + 1] = e
  BY AppendProperties, LenProperties
<1> HIDE DEF t
<1>2. 1..Len(t) = 1..Len(s) \cup {Len(s) + 1}
  BY <1>1
<1>3. ASSUME e \notin S PROVE At(t, S) = At(s, S)
  BY <1>1, <1>2, <1>3 DEF At
<1>4. ASSUME e \in S, At(s, S) = {} PROVE Lone(At(t, S))
  <2>1. At(t, S) = At(s, S) \cup {Len(s) + 1}
    BY <1>1, <1>2, <1>4 DEF At
  <2> QED BY <1>4, <2>1 DEF Lone
<1> USE DEF t
<1> QED BY <1>3, <1>4, Zenon

(* ... when several are queued behind it ... *)
LEMMA AtBehind ==
  ASSUME NEW T, NEW s \in Seq(T), NEW R \in Seq(T), NEW S
  PROVE  /\ At(R, S) = {} => At(s \o R, S) = At(s, S)
         /\ At(s, S) = {} /\ Lone(At(R, S)) => Lone(At(s \o R, S))
<1> DEFINE t == s \o R
<1>1. /\ Len(t) = Len(s) + Len(R)
      /\ \A i \in 1..Len(s) + Len(R) : t[i] = IF i <= Len(s) THEN s[i] ELSE R[i - Len(s)]
  BY ConcatProperties
<1>2. Len(s) \in Nat /\ Len(R) \in Nat
  BY LenProperties
<1> HIDE DEF t
<1>3. /\ \A i \in 1..Len(s) : i \in 1..Len(t) /\ t[i] = s[i]
      /\ \A i \in 1..Len(t) : i \in 1..Len(s) \/ (i - Len(s) \in 1..Len(R) /\ t[i] = R[i - Len(s)])
  BY <1>1, <1>2
<1>4. \A i \in At(t, S) : i \in At(s, S) \/ (i - Len(s) \in At(R, S) /\ i \in Nat)
  BY <1>1, <1>2, <1>3 DEF At
<1>5. \A i \in At(s, S) : i \in At(t, S)
  BY <1>3 DEF At
<1>6. ASSUME At(R, S) = {} PROVE At(t, S) = At(s, S)
  BY <1>4, <1>5, <1>6
<1>7. ASSUME At(s, S) = {}, Lone(At(R, S)) PROVE Lone(At(t, S))
  <2> SUFFICES ASSUME NEW i \in At(t, S), NEW j \in At(t, S) PROVE i = j
    BY DEF Lone
  <2>1. i - Len(s) \in At(R, S) /\ i \in Nat /\ j - Len(s) \in At(R, S) /\ j \in Nat
    BY <1>4, <1>7
  <2>2. i - Len(s) = j - Len(s)
    BY <1>7, <2>1 DEF Lone
  <2> QED BY <1>2, <2>1, <2>2
<1> USE DEF t
<1> QED BY <1>6, <1>7, Zenon

(* ... when the first one is taken ... *)
LEMMA AtTaken ==
  ASSUME NEW T, NEW s \in Seq(T), s # <<>>, NEW S, Lone(At(s, S))
  PROVE  /\ Tail(s) \in Seq(T) /\ Head(s) \in T /\ Lone(At(Tail(s), S))
         /\ At(Tail(s), S) # {} => At(s, S) # {}
         /\ Head(s) \in S => At(Tail(s), S) = {} /\ At(s, S) # {}
<1> DEFINE t == Tail(s)
           x == Head(s)
<1>1. /\ t \in Seq(T) /\ Len(t) = Len(s) - 1 /\ x \in T
      /\ \A i \in 1..Len(t) : t[i] = s[i + 1]
  BY HeadTailProperties
<1>2. Len(s) \in Nat \ {0} /\ s[1] = x
  BY EmptySeq
<1> HIDE DEF t, x
<1>3. \A i \in At(t, S) : i + 1 \in At(s, S) /\ i \in Nat \ {0}
  BY <1>1, <1>2 DEF At
<1>4. x \in S => 1 \in At(s, S)
  BY <1>2 DEF At
<1>5. Lone(At(t, S))
  BY <1>3 DEF Lone
<1>6. ASSUME x \in S, NEW i \in At(t, S) PROVE FALSE
  <2>1. i + 1 = 1 /\ i \in Nat \ {0}
    BY <1>3, <1>4, <1>6 DEF Lone
  <2> QED BY <2>1
<1>7. /\ t \in Seq(T) /\ x \in T /\ Lone(At(t, S))
      /\ At(t, S) # {} => At(s, S) # {}
      /\ x \in S => At(t, S) = {} /\ At(s, S) # {}
  BY <1>1, <1>3, <1>4, <1>5, <1>6
<1> USE DEF t, x
<1> QED BY <1>7, Zenon

(* ... and when one is put before it. *)
LEMMA AtPushed ==
  ASSUME NEW T, NEW s \in Seq(T), NEW x \in T, NEW S, Lone(At(s, S)),
         x \in S => At(s, S) = {}
  PROVE  /\ Lone(At(<<x>> \o s, S))
         /\ x \notin S /\ At(<<x>> \o s, S) # {} => At(s, S) # {}
<1> DEFINE t == <<x>> \o s
<1>1. <<x>> \in Seq(T) /\ Len(<<x>>) = 1 /\ <<x>>[1] = x
  OBVIOUS
<1>2. /\ Len(t) = 1 + Len(s)
      /\ \A i \in 1..(1 + Len(s)) : t[i] = IF i <= 1 THEN <<x>>[i] ELSE s[i - 1]
  BY <1>1, ConcatProperties
<1>3. Len(s) \in Nat
  BY LenProperties
<1> HIDE DEF t
<1>4. \A i \in 1..Len(t) : (i = 1 /\ t[i] = x) \/ (i - 1 \in 1..Len(s) /\ t[i] = s[i - 1])
  BY <1>1, <1>2, <1>3
<1>5. \A i \in At(t, S) : i \in Nat /\ ((i = 1 /\ x \in S) \/ i - 1 \in At(s, S))
  BY <1>2, <1>3, <1>4 DEF At
<1>6. Lone(At(t, S)) /\ (x \notin S /\ At(t, S) # {} => At(s, S) # {})
  <2>1. Lone(At(t, S))
    BY <1>5 DEF Lone
  <2> QED BY <1>5, <2>1
<1> USE DEF t
<1> QED BY <1>6, Zenon

-----------------------------------------------------------------------------
(* The second part is about the promises themselves: what they are, what they *)
(* were settled with, and what the host was told.  Three things are done to    *)
(* them: one is made, one is settled, one gets a reaction.                     *)

PromiseInv ==
  /\ promise \in [Promises -> PromiseRecords]
  /\ tracked \subseteq Promises
  /\ registered \in [Promises -> Seq(Reactions)]
  /\ ResultsBorn /\ HandledInv /\ TrackerExact /\ IntactPromisesAdopted

(* The promises of B are new, those of S were settled, and nothing else changed *)
(* between having been made, waiting and being settled.                        *)
Moved(B, S) ==
  /\ Born' = Born \cup B
  /\ \A q \in Promises :
       (promise[q].state = "pending")' <=> (promise[q].state = "pending" /\ q \notin S) \/ q \in B

(* js_promise_constructor makes a pending promise without reactions. *)
LEMMA PendingRecord ==
  /\ Pending \in PromiseRecords
  /\ Pending.state = "pending" /\ Pending.result = None
  /\ Pending.is_handled = FALSE /\ Pending.reactions = <<>>
<1>1. Unborn \in PromiseRecords /\ Unborn.result = None
      /\ Unborn.is_handled = FALSE /\ Unborn.reactions = <<>>
  BY DEF Unborn, PromiseRecords
<1>2. Pending = [Unborn EXCEPT !.state = "pending"]
  BY DEF Pending
<1> QED BY <1>1, <1>2 DEF PromiseRecords

(* A promise is made. *)
LEMMA PromiseMade ==
  ASSUME PromiseInv, NEW q \in Fresh, promise' = [promise EXCEPT ![q] = Pending],
         UNCHANGED <<tracked, registered>>
  PROVE  PromiseInv' /\ Moved({q}, {})
<1>1. q \in Promises /\ promise[q].state = "none"
  BY DEF Fresh, Born
<1>2. /\ Pending.state = "pending" /\ Pending.result = None
      /\ Pending.is_handled = FALSE /\ Pending.reactions = <<>>
  BY PendingRecord
<1>3. Pending \in PromiseRecords
  BY PendingRecord
<1>4. promise' \in [Promises -> PromiseRecords]
  BY <1>3 DEF PromiseInv
<1>5. /\ promise'[q] = Pending
      /\ \A p \in Promises \ {q} : promise'[p] = promise[p]
  BY <1>1 DEF PromiseInv
<1>6. Born' = Born \cup {q}
  BY <1>1, <1>2, <1>5 DEF Born
<1>7. Moved({q}, {})
  BY <1>1, <1>2, <1>5, <1>6 DEF Moved
<1>8. ResultsBorn'
  BY <1>2, <1>5, <1>6, PromisesAssumption DEF PromiseInv, ResultsBorn, Values
<1>9. HandledInv'
  BY <1>1, <1>2, <1>5 DEF PromiseInv, HandledInv
<1>10. TrackerExact'
  BY <1>1, <1>2, <1>5 DEF PromiseInv, TrackerExact
<1>11. IntactPromisesAdopted'
  BY <1>2, <1>5 DEF PromiseInv, IntactPromisesAdopted
<1> QED BY <1>4, <1>7, <1>8, <1>9, <1>10, <1>11 DEF PromiseInv

(* A pending promise is settled; fulfilled with a promise only if user code      *)
(* replaces the then of that one.                                              *)
LEMMA PromiseSettled ==
  ASSUME PromiseInv, NEW p \in Promises, promise[p].state = "pending",
         NEW value \in Values \cup {None, TypeError}, NEW is_reject \in BOOLEAN,
         value \in Promises => value \in Born /\ (is_reject \/ value \in Patched),
         promise' = [promise EXCEPT ![p].reactions = <<>>, ![p].result = value,
                       ![p].state = IF is_reject THEN "rejected" ELSE "fulfilled"],
         tracked' = IF is_reject /\ ~promise[p].is_handled THEN tracked \cup {p} ELSE tracked,
         UNCHANGED registered
  PROVE  PromiseInv' /\ Moved({}, {p})
<1>1. /\ promise' \in [Promises -> PromiseRecords]
      /\ promise'[p].state = IF is_reject THEN "rejected" ELSE "fulfilled"
      /\ promise'[p].result = value /\ promise'[p].reactions = <<>>
      /\ promise'[p].is_handled = promise[p].is_handled
      /\ \A q \in Promises \ {p} : promise'[q] = promise[q]
  BY DEF PromiseInv, PromiseRecords
<1>2. Born' = Born
  BY <1>1 DEF Born
<1>3. Moved({}, {p})
  BY <1>1, <1>2 DEF Moved
<1>4. ResultsBorn'
  BY <1>1, <1>2 DEF PromiseInv, ResultsBorn
<1>5. HandledInv'
  BY <1>1 DEF PromiseInv, HandledInv
<1>6. promise[p].is_handled <=> registered[p] # <<>>
  BY DEF PromiseInv, HandledInv
<1>7. tracked = {q \in Promises : promise[q].state = "rejected" /\ registered[q] = <<>>}
  BY DEF PromiseInv, TrackerExact
<1>8. \A q : q \in tracked' <=> q \in Promises /\ promise'[q].state = "rejected" /\ registered'[q] = <<>>
  BY <1>1, <1>6, <1>7
<1>9. TrackerExact'
  BY <1>8 DEF TrackerExact
<1>10. IntactPromisesAdopted'
  BY <1>1 DEF PromiseInv, IntactPromisesAdopted
<1> QED BY <1>1, <1>3, <1>4, <1>5, <1>7, <1>8, <1>9, <1>10 DEF PromiseInv

(* A reaction is registered at a promise. *)
LEMMA ReactionRegistered ==
  ASSUME PromiseInv, NEW p \in Born, NEW rd \in ReactionRecords, rd.id \in Reactions,
         NEW B \in SUBSET Fresh, NEW js, PerformThen(p, rd, B, js)
  PROVE  PromiseInv' /\ Moved(B, {})
<1>1. p \in Promises /\ promise[p].state # "none" /\ p \notin B
  BY DEF Born, Fresh
<1>2. \A q \in B : q \in Promises /\ promise[q].state = "none"
  BY DEF Fresh, Born
<1>3. /\ Pending.state = "pending" /\ Pending.result = None
      /\ Pending.is_handled = FALSE /\ Pending.reactions = <<>>
  BY PendingRecord
<1>4. /\ promise[p] \in PromiseRecords /\ promise[p].reactions \in Seq(ReactionRecords)
      /\ Append(promise[p].reactions, rd) \in Seq(ReactionRecords)
  BY <1>1, AppendProperties DEF PromiseInv, PromiseRecords
<1>5. /\ \A q \in B : promise'[q] = Pending
      /\ \A q \in Promises \ (B \cup {p}) : promise'[q] = promise[q]
  BY <1>1, <1>2 DEF PerformThen
<1>6. /\ promise'[p] \in PromiseRecords /\ promise'[p].is_handled = TRUE
      /\ promise'[p].state = promise[p].state /\ promise'[p].result = promise[p].result
      /\ promise[p].state # "pending" => promise'[p].reactions = promise[p].reactions
  <2>1. promise'[p] = IF promise[p].state = "pending"
                      THEN [promise[p] EXCEPT !.reactions = Append(promise[p].reactions, rd), !.is_handled = TRUE]
                      ELSE [promise[p] EXCEPT !.is_handled = TRUE]
    BY <1>1 DEF PerformThen
  <2> QED BY <1>4, <2>1 DEF PromiseRecords
<1>7. Pending \in PromiseRecords
  BY PendingRecord
<1>8. promise' = [q \in Promises |-> promise'[q]]
  BY DEF PerformThen
<1>9. \A q \in Promises : promise'[q] \in PromiseRecords
  BY <1>5, <1>6, <1>7 DEF PromiseInv
<1>10. promise' \in [Promises -> PromiseRecords]
  BY <1>8, <1>9
<1>11. registered[p] \in Seq(Reactions)
  BY <1>1 DEF PromiseInv
<1>12. /\ registered' \in [Promises -> Seq(Reactions)]
       /\ registered'[p] = Append(registered[p], rd.id)
       /\ \A q \in Promises \ {p} : registered'[q] = registered[q]
  BY <1>1, <1>11, AppendProperties DEF PromiseInv, PerformThen
<1>13. registered'[p] # <<>>
  BY <1>11, <1>12, AppendProperties
<1>14. Born' = Born \cup B
  BY <1>1, <1>2, <1>3, <1>5, <1>6 DEF Born
<1>15. Moved(B, {})
  BY <1>1, <1>2, <1>3, <1>5, <1>6, <1>14 DEF Moved
<1>16. ResultsBorn'
  BY <1>1, <1>2, <1>3, <1>5, <1>6, <1>14, PromisesAssumption DEF PromiseInv, ResultsBorn, Values
<1>17. HandledInv'
  <2> SUFFICES ASSUME NEW q \in Promises
               PROVE  /\ promise'[q].is_handled <=> registered'[q] # <<>>
                      /\ promise'[q].state = "none" => ~promise'[q].is_handled
                      /\ promise'[q].state # "pending" => promise'[q].reactions = <<>>
    BY DEF HandledInv
  <2>1. CASE q = p
    BY <2>1, <1>1, <1>6, <1>12, <1>13 DEF PromiseInv, HandledInv
  <2>2. CASE q \in B
    <3>1. registered[q] = <<>>
      BY <2>2, <1>2 DEF PromiseInv, HandledInv
    <3> QED BY <2>2, <3>1, <1>1, <1>3, <1>5, <1>12
  <2>3. CASE q \notin B \cup {p}
    BY <2>3, <1>5, <1>12 DEF PromiseInv, HandledInv
  <2> QED BY <2>1, <2>2, <2>3
<1>18. tracked = {q \in Promises : promise[q].state = "rejected" /\ registered[q] = <<>>}
  BY DEF PromiseInv, TrackerExact
<1>19. tracked' = tracked \ {p}
  BY DEF PerformThen
<1>20. \A q : q \in tracked' <=> q \in Promises /\ promise'[q].state = "rejected" /\ registered'[q] = <<>>
  BY <1>1, <1>2, <1>3, <1>5, <1>6, <1>12, <1>13, <1>18, <1>19
<1>21. TrackerExact'
  BY <1>20 DEF TrackerExact
<1>22. IntactPromisesAdopted'
  BY <1>1, <1>2, <1>3, <1>5, <1>6 DEF PromiseInv, IntactPromisesAdopted
<1> QED BY <1>10, <1>12, <1>15, <1>16, <1>17, <1>18, <1>19, <1>21, <1>22 DEF PromiseInv

-----------------------------------------------------------------------------
(* The third part is about who can settle a promise. *)

SettlersInv ==
  /\ pairs \in [Pairs -> {"none", "fresh", "resolved"}]
  /\ job_list \in Seq(Jobs) /\ frames \in Seq(Frames)
  /\ PairsNumbered /\ JobsCanRun(job_list) /\ GettersBorn(frames) /\ SettlerInv

(* js and fs are a job list and a stack that say the same as the present ones  *)
(* about the promises of Q.                                                    *)
SameJobs(js, Q) ==
  /\ js \in Seq(Jobs) /\ JobsCanRun(js)
  /\ \A q \in Q : /\ ThenableFor(js, q) = {} <=> ThenableFor(job_list, q) = {}
                  /\ Lone(ThenableFor(js, q))

SameFrames(fs, Q) ==
  /\ fs \in Seq(Frames) /\ GettersBorn(fs)
  /\ \A q \in Q : /\ GettersFor(fs, q) = {} <=> GettersFor(frames, q) = {}
                  /\ Lone(GettersFor(fs, q))

(* What the invariant says of one promise, and of a pair of resolving functions. *)
LEMMA SettlersOf ==
  ASSUME SettlersInv, NEW p \in Promises
  PROVE  /\ Lone(FreshPairs(p)) /\ Lone(ThenableFor(job_list, p)) /\ Lone(GettersFor(frames, p))
         /\ FreshPairs(p) = {} \/ ThenableFor(job_list, p) = {}
         /\ FreshPairs(p) = {} \/ GettersFor(frames, p) = {}
         /\ ThenableFor(job_list, p) = {} \/ GettersFor(frames, p) = {}
         /\ promise[p].state = "pending" <=>
              (FreshPairs(p) # {} \/ ThenableFor(job_list, p) # {} \/ GettersFor(frames, p) # {})
BY DEF SettlersInv, SettlerInv

(* A pair that was not called yet belongs to a pending promise, and nothing else settles it. *)
LEMMA FreshPairOf ==
  ASSUME SettlersInv, NEW r \in Pairs, pairs[r] = "fresh"
  PROVE  /\ r[1] \in Promises /\ promise[r[1]].state = "pending" /\ FreshPairs(r[1]) = {r}
         /\ ThenableFor(job_list, r[1]) = {} /\ GettersFor(frames, r[1]) = {}
<1>1. r[1] \in Promises
  BY DEF Pairs
<1>2. r \in FreshPairs(r[1])
  BY DEF FreshPairs
<1> QED BY <1>1, <1>2, SettlersOf DEF Lone

(* The new settlers of every promise are as the invariant wants them. *)
LEMMA SettlersKept ==
  ASSUME SettlersInv, NEW js, NEW fs, NEW p, NEW Q, Q = Promises \ {p},
         job_list' = js, frames' = fs, SameJobs(js, Q), SameFrames(fs, Q), Born \subseteq Born',
         pairs' \in [Pairs -> {"none", "fresh", "resolved"}], PairsNumbered', JobsCanRun(js)',
         \A q \in Q : /\ FreshPairs(q)' = FreshPairs(q)
                      /\ (promise[q].state = "pending")' <=> promise[q].state = "pending",
         p \in Promises =>
           /\ Lone(FreshPairs(p)') /\ Lone(ThenableFor(js, p)) /\ Lone(GettersFor(fs, p))
           /\ FreshPairs(p)' = {} \/ ThenableFor(js, p) = {}
           /\ FreshPairs(p)' = {} \/ GettersFor(fs, p) = {}
           /\ ThenableFor(js, p) = {} \/ GettersFor(fs, p) = {}
           /\ (promise[p].state = "pending")' <=>
                (FreshPairs(p)' # {} \/ ThenableFor(js, p) # {} \/ GettersFor(fs, p) # {})
  PROVE  SettlersInv'
<1>1. JobsCanRun(job_list)'
  BY DEF JobsCanRun
<1>2. \A q : ThenableFor(job_list, q)' = ThenableFor(js, q) /\ GettersFor(frames, q)' = GettersFor(fs, q)
  BY DEF ThenableFor, GettersFor
<1>3. SettlerInv'
  <2> SUFFICES ASSUME NEW q \in Promises
      PROVE  /\ Lone(FreshPairs(q)') /\ Lone(ThenableFor(js, q)) /\ Lone(GettersFor(fs, q))
             /\ FreshPairs(q)' = {} \/ ThenableFor(js, q) = {}
             /\ FreshPairs(q)' = {} \/ GettersFor(fs, q) = {}
             /\ ThenableFor(js, q) = {} \/ GettersFor(fs, q) = {}
             /\ (promise[q].state = "pending")' <=>
                  (FreshPairs(q)' # {} \/ ThenableFor(js, q) # {} \/ GettersFor(fs, q) # {})
    BY <1>2 DEF SettlerInv, Lone
  <2>1. CASE q = p
    BY <2>1
  <2>2. CASE q # p
    BY <2>2, SettlersOf DEF SameJobs, SameFrames
  <2> QED BY <2>1, <2>2
<1>4. GettersBorn(frames)'
  BY DEF SameFrames, GettersBorn
<1> QED BY <1>1, <1>3, <1>4 DEF SettlersInv, SameJobs, SameFrames

(* A thenable job is for a promise. *)
LEMMA LastPairOf ==
  ASSUME NEW js \in Seq(Jobs), NEW i \in 1..Len(js), js[i].kind = "thenable"
  PROVE  <<js[i].promise, MaxPairs>> \in Pairs
<1>1. js[i] \in Jobs
  BY ElementOfSeq
<1>2. js[i].promise \in Promises
  BY <1>1 DEF Jobs, ReactionJobs, ThenableJobs
<1> QED BY <1>2, PromisesAssumption DEF Pairs

(* A pair of resolving functions is made. *)
LEMMA PairMade ==
  ASSUME SettlersInv, NEW p \in Promises, NEW k \in 1..MaxPairs, NEW r, r = <<p, k>>,
         pairs[r] = "none", \A j \in 1..MaxPairs : j < k => pairs[<<p, j>>] # "none",
         p \in Born', Born \subseteq Born', pairs' = [pairs EXCEPT ![r] = "fresh"],
         NEW js \in Seq(Jobs), JobsCanRun(js), ThenableFor(js, p) = {}
  PROVE  /\ pairs' \in [Pairs -> {"none", "fresh", "resolved"}] /\ PairsNumbered' /\ JobsCanRun(js)'
         /\ FreshPairs(p)' = FreshPairs(p) \cup {r}
         /\ \A q \in Promises \ {p} : FreshPairs(q)' = FreshPairs(q)
<1>1. r \in Pairs
  BY DEF Pairs
<1>2. /\ pairs' \in [Pairs -> {"none", "fresh", "resolved"}] /\ pairs'[r] = "fresh"
      /\ \A s \in Pairs : s # r => pairs'[s] = pairs[s]
  BY <1>1 DEF SettlersInv
<1>3. \A q \in Promises, j \in 1..MaxPairs : <<q, j>> \in Pairs /\ (<<q, j>> = r <=> q = p /\ j = k)
  BY DEF Pairs
<1>4. MaxPairs \in Nat \ {0} /\ MaxPairs \in 1..MaxPairs
  BY PromisesAssumption
<1>5. PairsNumbered'
  <2> SUFFICES ASSUME NEW q \in Promises, NEW i \in 1..MaxPairs, pairs'[<<q, i>>] # "none"
               PROVE  q \in Born' /\ \A j \in 1..i : pairs'[<<q, j>>] # "none"
    BY DEF PairsNumbered
  <2>1. \A j \in 1..i : j \in 1..MaxPairs
    BY <1>4
  <2>2. \A j \in 1..MaxPairs : pairs[<<q, j>>] # "none" => pairs'[<<q, j>>] # "none"
    BY <1>2, <1>3
  <2>3. CASE q = p /\ i = k
    <3>1. \A j \in 1..i : j < k \/ j = k
      BY <2>3, <1>4
    <3> QED BY <2>1, <2>2, <2>3, <3>1, <1>2, <1>3
  <2>4. CASE ~(q = p /\ i = k)
    <3>1. pairs[<<q, i>>] # "none"
      BY <2>4, <1>2, <1>3
    <3>2. q \in Born /\ \A j \in 1..i : pairs[<<q, j>>] # "none"
      BY <3>1 DEF SettlersInv, PairsNumbered
    <3> QED BY <2>1, <2>2, <3>2
  <2> QED BY <2>3, <2>4
<1>6. JobsCanRun(js)'
  <2> SUFFICES ASSUME NEW i \in 1..Len(js)
               PROVE  /\ js[i].arg \in Promises => js[i].arg \in Born'
                      /\ js[i].kind = "thenable" => pairs'[<<js[i].promise, MaxPairs>>] = "none"
    BY DEF JobsCanRun
  <2>1. js[i].arg \in Promises => js[i].arg \in Born'
    BY DEF JobsCanRun
  <2>2. ASSUME js[i].kind = "thenable" PROVE pairs'[<<js[i].promise, MaxPairs>>] = "none"
    <3>1. js[i].promise # p /\ pairs[<<js[i].promise, MaxPairs>>] = "none"
      BY <2>2 DEF JobsCanRun, ThenableFor
    <3>2. <<js[i].promise, MaxPairs>> \in Pairs
      BY <2>2, LastPairOf
    <3>3. <<js[i].promise, MaxPairs>> # r
      BY <3>1
    <3> QED BY <3>1, <3>2, <3>3, <1>2
  <2> QED BY <2>1, <2>2
<1>7. FreshPairs(p)' = FreshPairs(p) \cup {r}
  BY <1>1, <1>2 DEF FreshPairs
<1>8. \A q \in Promises \ {p} : FreshPairs(q)' = FreshPairs(q)
  BY <1>1, <1>2 DEF FreshPairs
<1> QED BY <1>2, <1>5, <1>6, <1>7, <1>8

(* A pair of resolving functions is used up. *)
LEMMA PairResolved ==
  ASSUME SettlersInv, NEW r \in Pairs, pairs[r] = "fresh", Born' = Born,
         pairs' = [pairs EXCEPT ![r] = "resolved"],
         NEW js \in Seq(Jobs), JobsCanRun(js)
  PROVE  /\ pairs' \in [Pairs -> {"none", "fresh", "resolved"}] /\ PairsNumbered' /\ JobsCanRun(js)'
         /\ FreshPairs(r[1])' = {}
         /\ \A q \in Promises \ {r[1]} : FreshPairs(q)' = FreshPairs(q)
<1>1. /\ pairs' \in [Pairs -> {"none", "fresh", "resolved"}] /\ pairs'[r] = "resolved"
      /\ \A s \in Pairs : s # r => pairs'[s] = pairs[s]
  BY DEF SettlersInv
<1>2. \A s \in Pairs : pairs'[s] = "none" <=> pairs[s] = "none"
  BY <1>1
<1>3. PairsNumbered'
  <2>1. \A p \in Promises, k \in 1..MaxPairs : \A j \in 1..k : <<p, k>> \in Pairs /\ <<p, j>> \in Pairs
    BY PromisesAssumption DEF Pairs
  <2> QED BY <1>2, <2>1 DEF SettlersInv, PairsNumbered
<1>4. JobsCanRun(js)'
  <2>1. \A i \in 1..Len(js) : js[i].kind = "thenable" => <<js[i].promise, MaxPairs>> \in Pairs
    BY LastPairOf
  <2> QED BY <1>2, <2>1 DEF JobsCanRun
<1>5. FreshPairs(r[1])' = {}
  BY <1>1, FreshPairOf DEF FreshPairs
<1>6. \A q \in Promises \ {r[1]} : FreshPairs(q)' = FreshPairs(q)
  BY <1>1 DEF FreshPairs
<1> QED BY <1>1, <1>3, <1>4, <1>5, <1>6

-----------------------------------------------------------------------------
(* The fourth part is about the ids of reactions. *)

(* No reaction is registered. *)
LEMMA NoIdTaken ==
  ASSUME IdsInOrder, UNCHANGED registered, NEW js, job_list' = js,
         Cardinality(Used) + Cardinality(AdoptionsIn(js)) <= MaxReactions
  PROVE  IdsInOrder'
<1>1. Used' = Used
  BY DEF Used
<1>2. Adoptions' = AdoptionsIn(js)
  BY DEF Adoptions, AdoptionsIn
<1> QED BY <1>1, <1>2 DEF IdsInOrder

(* A reaction is registered at a promise. *)
LEMMA RegisteredNext ==
  ASSUME registered \in [Promises -> Seq(Reactions)], NEW p \in Promises, NEW n \in Reactions,
         registered' = [registered EXCEPT ![p] = Append(@, n)]
  PROVE  /\ registered[p] \in Seq(Reactions) /\ registered'[p] = Append(registered[p], n)
         /\ \A q \in Promises \ {p} : registered'[q] = registered[q]
         /\ ToSet(registered'[p]) = ToSet(registered[p]) \cup {n} /\ Used' = Used \cup {n}
<1>1. /\ registered'[p] = Append(registered[p], n) /\ registered[p] \in Seq(Reactions)
      /\ \A q \in Promises \ {p} : registered'[q] = registered[q]
  OBVIOUS
<1>2. ToSet(registered'[p]) = ToSet(registered[p]) \cup {n}
  <2> DEFINE s == registered[p]
             t == registered'[p]
  <2>1. /\ t \in Seq(Reactions) /\ Len(t) = Len(s) + 1 /\ Len(s) \in Nat
        /\ \A i \in 1..Len(s) : t[i] = s[i]
        /\ t[Len(s) + 1] = n
    BY <1>1, AppendProperties, LenProperties
  <2>2. DOMAIN s = 1..Len(s) /\ DOMAIN t = 1..Len(t)
    BY <1>1, <2>1, LenProperties
  <2> HIDE DEF s, t
  <2>3. DOMAIN t = DOMAIN s \cup {Len(s) + 1}
    BY <2>1, <2>2
  <2>4. \A x : x \in ToSet(t) <=> \E i \in DOMAIN t : x = t[i]
    BY DEF ToSet
  <2>5. \A x : x \in ToSet(s) <=> \E i \in DOMAIN s : x = s[i]
    BY DEF ToSet
  <2>6. \A x : x \in ToSet(t) <=> x \in ToSet(s) \/ x = n
    BY <2>1, <2>2, <2>3, <2>4, <2>5
  <2>7. ToSet(t) = ToSet(s) \cup {n}
    BY <2>6
  <2> QED BY <2>7 DEF s, t
<1>3. Used' = Used \cup {n}
  <2>1. \A q \in Promises \ {p} : ToSet(registered'[q]) = ToSet(registered[q])
    BY <1>1
  <2>2. \A x : x \in Used' <=> \E q \in Promises : x \in ToSet(registered'[q])
    BY DEF Used
  <2>3. \A x : x \in Used <=> \E q \in Promises : x \in ToSet(registered[q])
    BY DEF Used
  <2> QED BY <1>2, <2>1, <2>2, <2>3
<1> QED BY <1>1, <1>2, <1>3

(* The next id is given to a reaction of p. *)
LEMMA IdTaken ==
  ASSUME registered \in [Promises -> Seq(Reactions)], IdsInOrder,
         NEW p \in Promises, NextReaction \in Reactions,
         registered' = [registered EXCEPT ![p] = Append(@, NextReaction)],
         NEW js, job_list' = js, Cardinality(AdoptionsIn(js)) \in Nat,
         Cardinality(Used) + 1 + Cardinality(AdoptionsIn(js)) <= MaxReactions
  PROVE  /\ IdsInOrder' /\ Used' = Used \cup {NextReaction}
         /\ ToSet(registered'[p]) = ToSet(registered[p]) \cup {NextReaction}
         /\ \A q \in Promises \ {p} : registered'[q] = registered[q]
<1> DEFINE n == NextReaction
<1>1. /\ IsFiniteSet(Used) /\ Cardinality(Used) \in Nat /\ Used = 1..Cardinality(Used)
      /\ n \notin Used /\ n = Cardinality(Used) + 1
  BY NextReactionFresh DEF IdsInOrder, NextReaction
<1>2. /\ registered'[p] = Append(registered[p], n) /\ registered[p] \in Seq(Reactions)
      /\ \A q \in Promises \ {p} : registered'[q] = registered[q]
  OBVIOUS
<1> HIDE DEF n
<1>3. ToSet(registered'[p]) = ToSet(registered[p]) \cup {n} /\ Used' = Used \cup {n}
  BY RegisteredNext DEF n
<1>4. Used' = Used \cup {n}
  BY <1>3
<1>5. Cardinality(Used') = Cardinality(Used) + 1
  BY <1>1, <1>4, FS_AddElement
<1>6. \A x \in Used' : \A y \in 1..x : y \in Used'
  BY <1>1, <1>4
<1>7. Adoptions' = AdoptionsIn(js)
  BY DEF Adoptions, AdoptionsIn
<1>8. IdsInOrder'
  BY <1>5, <1>6, <1>7 DEF IdsInOrder
<1> QED BY <1>2, <1>3, <1>4, <1>8 DEF n

-----------------------------------------------------------------------------
(* The job lists and the stacks that the actions leave behind. *)

(* The three parts of the invariant. *)
LEMMA PartsOfInvariant ==
  SettlingInv <=> PromiseInv /\ SettlersInv /\ IdsInOrder
BY DEF SettlingInv, Typed, PromiseInv, SettlersInv

(* ... and they make up the invariant again after a step. *)
LEMMA PartsAfterwards ==
  ASSUME PromiseInv', SettlersInv', IdsInOrder'
  PROVE  SettlingInv'
BY DEF SettlingInv, Typed, PromiseInv, SettlersInv

(* No job is taken. *)
LEMMA SameJobsAll ==
  ASSUME SettlersInv
  PROVE  SameJobs(job_list, Promises)
BY SettlersOf DEF SettlersInv, SameJobs

(* The first job is taken: its promise is the only one that loses a job. *)
LEMMA SameJobsTaken ==
  ASSUME SettlersInv, job_list # <<>>, NEW e, e = Head(job_list), NEW js, js = Tail(job_list)
  PROVE  /\ e \in Jobs /\ js \in Seq(Jobs)
         /\ e.arg \in Promises => e.arg \in Born
         /\ e.kind # "thenable" =>
              SameJobs(js, Promises) /\ Cardinality(AdoptionsIn(js)) = Cardinality(Adoptions)
         /\ e.kind = "thenable" =>
              /\ e \in ThenableJobs /\ SameJobs(js, Promises \ {e.promise})
              /\ ThenableFor(js, e.promise) = {} /\ ThenableFor(job_list, e.promise) # {}
              /\ pairs[<<e.promise, MaxPairs>>] = "none"
              /\ Cardinality(AdoptionsIn(js)) =
                   Cardinality(Adoptions) - (IF e.arg \in Promises THEN 1 ELSE 0)
<1>1. job_list \in Seq(Jobs) /\ JobsCanRun(job_list)
  BY DEF SettlersInv
<1>2. /\ js \in Seq(Jobs) /\ Len(js) = Len(job_list) - 1 /\ Len(job_list) \in Nat \ {0}
      /\ e \in Jobs /\ job_list[1] = e
      /\ \A i \in 1..Len(js) : i + 1 \in 1..Len(job_list) /\ js[i] = job_list[i + 1]
  BY <1>1, JobTaken
<1>3. JobsCanRun(js)
  BY <1>1, <1>2 DEF JobsCanRun
<1>4. 1 \in 1..Len(job_list)
  BY <1>2
<1>5. /\ e.arg \in Promises => e.arg \in Born
      /\ e.kind = "thenable" => pairs[<<e.promise, MaxPairs>>] = "none"
  BY <1>1, <1>2, <1>4 DEF JobsCanRun
<1>6. Cardinality(AdoptionsIn(js)) = Cardinality(Adoptions)
        - (IF e.kind = "thenable" /\ e.arg \in Promises THEN 1 ELSE 0)
  BY <1>1, AdoptionTaken DEF Adoptions
<1>7. Cardinality(Adoptions) \in Nat
  BY <1>1, AdoptionsFinite DEF Adoptions
<1>8. ASSUME NEW p \in Promises
      PROVE  /\ Lone(ThenableFor(js, p))
             /\ ~(e.kind = "thenable" /\ e.promise = p) =>
                  (ThenableFor(js, p) = {} <=> ThenableFor(job_list, p) = {})
             /\ (e.kind = "thenable" /\ e.promise = p) =>
                  ThenableFor(js, p) = {} /\ ThenableFor(job_list, p) # {}
  BY <1>1, SettlersOf, ThenablesTaken
<1>9. CASE e.kind # "thenable"
  <2>1. SameJobs(js, Promises)
    BY <1>2, <1>3, <1>8, <1>9 DEF SameJobs
  <2>2. Cardinality(AdoptionsIn(js)) = Cardinality(Adoptions)
    BY <1>6, <1>7, <1>9
  <2> QED BY <1>2, <1>5, <1>9, <2>1, <2>2
<1>10. CASE e.kind = "thenable"
  <2>1. e \in ThenableJobs /\ e.promise \in Promises
    BY <1>2, <1>10 DEF Jobs, ReactionJobs, ThenableJobs
  <2>2. SameJobs(js, Promises \ {e.promise})
    BY <1>2, <1>3, <1>8 DEF SameJobs
  <2>3. ThenableFor(js, e.promise) = {} /\ ThenableFor(job_list, e.promise) # {}
    BY <1>8, <1>10, <2>1
  <2> QED BY <1>2, <1>5, <1>6, <1>10, <2>1, <2>2, <2>3
<1> QED BY <1>9, <1>10

(* Reaction jobs are queued. *)
LEMMA SameJobsBehind ==
  ASSUME NEW Q, NEW js, SameJobs(js, Q), NEW R \in Seq(ReactionJobs),
         \A i \in 1..Len(R) : R[i].arg \in Promises => R[i].arg \in Born,
         NEW jl, jl = js \o R
  PROVE  /\ SameJobs(jl, Q) /\ AdoptionsIn(jl) = AdoptionsIn(js)
         /\ \A p : ThenableFor(jl, p) = ThenableFor(js, p)
<1>1. js \in Seq(Jobs) /\ JobsCanRun(js)
  BY DEF SameJobs
<1>2. /\ jl \in Seq(Jobs)
      /\ \A i \in 1..Len(js) : jl[i] = js[i]
  BY <1>1, ReactionsBehind
<1>6. \A i \in 1..Len(jl) : i \in 1..Len(js) \/ (i - Len(js) \in 1..Len(R) /\ jl[i] = R[i - Len(js)])
  BY <1>1, ReactionsBehind
<1>5. \A i \in 1..Len(R) : R[i] \in ReactionJobs
  BY ElementOfSeq
<1>4. \A p : ThenableFor(jl, p) = ThenableFor(js, p) /\ AdoptionsIn(jl) = AdoptionsIn(js)
  BY <1>1, ThenablesBehind
<1>3. JobsCanRun(jl)
  <2> SUFFICES ASSUME NEW i \in 1..Len(jl)
               PROVE  /\ jl[i].arg \in Promises => jl[i].arg \in Born
                      /\ jl[i].kind = "thenable" => pairs[<<jl[i].promise, MaxPairs>>] = "none"
    BY DEF JobsCanRun
  <2>1. CASE i \in 1..Len(js)
    BY <1>1, <1>2, <2>1 DEF JobsCanRun
  <2>2. CASE i - Len(js) \in 1..Len(R) /\ jl[i] = R[i - Len(js)]
    BY <1>5, <2>2 DEF ReactionJobs
  <2> QED BY <1>6, <2>1, <2>2
<1> QED BY <1>2, <1>3, <1>4 DEF SameJobs

(* One reaction job is queued. *)
LEMMA SameJobsAppended ==
  ASSUME NEW Q, NEW js, SameJobs(js, Q), NEW e \in ReactionJobs, e.arg \in Promises => e.arg \in Born,
         NEW jl, jl = Append(js, e)
  PROVE  SameJobs(jl, Q) /\ AdoptionsIn(jl) = AdoptionsIn(js)
<1>1. js \in Seq(Jobs) /\ JobsCanRun(js) /\ e \in Jobs /\ e.kind = "reaction"
  BY DEF SameJobs, Jobs, ReactionJobs
<1>2. /\ jl \in Seq(Jobs) /\ jl[Len(js) + 1] = e
      /\ \A i \in 1..Len(js) : jl[i] = js[i]
      /\ \A i \in 1..Len(jl) : i \in 1..Len(js) \/ i = Len(js) + 1
  BY <1>1, JobAppended
<1>3. \A p : ThenableFor(jl, p) = ThenableFor(js, p)
  BY <1>1, ThenablesAppended
<1>4. AdoptionsIn(jl) = AdoptionsIn(js)
  BY <1>1, AdoptionsAppended
<1>5. JobsCanRun(jl)
  BY <1>1, <1>2 DEF JobsCanRun
<1> QED BY <1>2, <1>3, <1>4, <1>5 DEF SameJobs

(* No C function calls user code or is returned to. *)
LEMMA SameFramesAll ==
  ASSUME SettlersInv
  PROVE  SameFrames(frames, Promises)
BY SettlersOf DEF SettlersInv, SameFrames

(* User code comes back: only a lookup of then that comes back settles something. *)
LEMMA SameFramesPopped ==
  ASSUME SettlersInv, frames # <<>>, NEW x, x = Head(frames), NEW fs, fs = Tail(frames)
  PROVE  /\ x \in Frames /\ fs \in Seq(Frames)
         /\ x.kind # "getter" => SameFrames(fs, Promises)
         /\ x.kind = "getter" =>
              /\ x.promise \in Promises /\ x.arg \in Patched \cup Thenables
              /\ x.arg \in Promises => x.arg \in Born
              /\ SameFrames(fs, Promises \ {x.promise})
              /\ GettersFor(fs, x.promise) = {} /\ GettersFor(frames, x.promise) # {}
<1>1. frames \in Seq(Frames)
  BY DEF SettlersInv
<1>2. fs \in Seq(Frames) /\ x \in Frames
  BY <1>1, FramePopped
<1>3. ASSUME NEW p \in Promises
      PROVE  /\ Lone(GettersFor(fs, p))
             /\ ~(x.kind = "getter" /\ x.promise = p) =>
                  (GettersFor(fs, p) = {} <=> GettersFor(frames, p) = {})
             /\ (x.kind = "getter" /\ x.promise = p) =>
                  GettersFor(fs, p) = {} /\ GettersFor(frames, p) # {}
  BY <1>1, SettlersOf, GettersPopped
<1>4. x.kind = "getter" => x.promise \in Promises /\ x.arg \in Patched \cup Thenables
  BY <1>2 DEF Frames
<1>5. /\ GettersBorn(fs)
      /\ x.kind = "getter" /\ x.arg \in Promises => x.arg \in Born
  <2>1. GettersBorn(frames)
    BY DEF SettlersInv
  <2>2. /\ frames[1] = x /\ 1 \in 1..Len(frames)
        /\ \A i \in 1..Len(fs) : i + 1 \in 1..Len(frames) /\ fs[i] = frames[i + 1]
    BY <1>1, FramePopped
  <2> QED BY <2>1, <2>2 DEF GettersBorn
<1>6. x.kind # "getter" => SameFrames(fs, Promises)
  BY <1>2, <1>3, <1>5 DEF SameFrames
<1>7. x.kind = "getter" => SameFrames(fs, Promises \ {x.promise})
  BY <1>2, <1>3, <1>5 DEF SameFrames
<1> QED BY <1>2, <1>3, <1>4, <1>5, <1>6, <1>7

(* A C function calls user code. *)
LEMMA SameFramesPushed ==
  ASSUME NEW fs, SameFrames(fs, Promises), NEW x \in Frames, NEW fr, fr = <<x>> \o fs,
         x.kind = "getter" /\ x.arg \in Promises => x.arg \in Born
  PROVE  /\ fr \in Seq(Frames)
         /\ x.kind # "getter" => SameFrames(fr, Promises)
         /\ x.kind = "getter" => SameFrames(fr, Promises \ {x.promise})
         /\ (x.kind = "getter" /\ GettersFor(fs, x.promise) = {}) =>
              Lone(GettersFor(fr, x.promise)) /\ GettersFor(fr, x.promise) # {}
<1>1. fs \in Seq(Frames)
  BY DEF SameFrames
<1>2. fr \in Seq(Frames)
  BY <1>1, FramePushed
<1>3. ASSUME NEW p \in Promises, x.kind = "getter" /\ x.promise = p => GettersFor(fs, p) = {}
      PROVE  /\ Lone(GettersFor(fr, p))
             /\ x.kind = "getter" /\ x.promise = p => GettersFor(fr, p) # {}
             /\ ~(x.kind = "getter" /\ x.promise = p) =>
                  (GettersFor(fr, p) = {} <=> GettersFor(fs, p) = {})
  <2>1. Lone(GettersFor(fs, p))
    BY DEF SameFrames
  <2>2. Lone(GettersFor(fr, p))
    BY <1>1, <1>3, <2>1, GettersPushed
  <2>3. /\ x.kind = "getter" /\ x.promise = p => GettersFor(fr, p) # {}
        /\ ~(x.kind = "getter" /\ x.promise = p) =>
             (GettersFor(fr, p) = {} <=> GettersFor(fs, p) = {})
    BY <1>1, <1>3, <2>1, GettersPushed
  <2> QED BY <2>2, <2>3
<1>4. x.kind = "getter" => x.promise \in Promises
  BY DEF Frames
<1>5. GettersBorn(fr)
  <2>1. GettersBorn(fs)
    BY DEF SameFrames
  <2>2. \A i \in 1..Len(fr) : fr[i] = x \/ (i - 1 \in 1..Len(fs) /\ fr[i] = fs[i - 1])
    BY <1>1, FramePushed
  <2> QED BY <2>1, <2>2 DEF GettersBorn
<1> QED BY <1>2, <1>3, <1>4, <1>5 DEF SameFrames

(* A thenable job is queued for p. *)
LEMMA SameJobsAdopting ==
  ASSUME NEW js, SameJobs(js, Promises), NEW p \in Promises, NEW v \in Promises \cup {None},
         v \in Promises => v \in Born, pairs[<<p, MaxPairs>>] = "none", ThenableFor(js, p) = {},
         NEW jl, jl = Append(js, ThenableJob(p, v))
  PROVE  /\ SameJobs(jl, Promises \ {p})
         /\ Lone(ThenableFor(jl, p)) /\ ThenableFor(jl, p) # {}
         /\ v \in Promises => Cardinality(AdoptionsIn(jl)) = Cardinality(AdoptionsIn(js)) + 1
         /\ v \notin Promises => AdoptionsIn(jl) = AdoptionsIn(js)
<1> DEFINE e == ThenableJob(p, v)
<1>1. /\ e \in Jobs /\ e.kind = "thenable" /\ e.promise = p /\ e.arg = v
  BY DEF ThenableJob, Jobs, ThenableJobs
<1>2. js \in Seq(Jobs) /\ JobsCanRun(js)
  BY DEF SameJobs
<1> HIDE DEF e
<1>3. jl = Append(js, e)
  BY DEF e
<1>4. /\ jl \in Seq(Jobs) /\ jl[Len(js) + 1] = e
      /\ \A i \in 1..Len(js) : jl[i] = js[i]
      /\ 1..Len(jl) = 1..Len(js) \cup {Len(js) + 1}
  BY <1>1, <1>2, <1>3, JobAppended
<1>5. JobsCanRun(jl)
  BY <1>1, <1>2, <1>4 DEF JobsCanRun
<1>6. \A q \in Promises \ {p} : ThenableFor(jl, q) = ThenableFor(js, q)
  BY <1>1, <1>4 DEF ThenableFor
<1>7. ThenableFor(jl, p) = {Len(js) + 1}
  <2>1. ThenableFor(jl, p) = ThenableFor(js, p) \cup {Len(js) + 1}
    BY <1>1, <1>4 DEF ThenableFor
  <2> QED BY <2>1
<1>8. SameJobs(jl, Promises \ {p})
  BY <1>4, <1>5, <1>6 DEF SameJobs
<1>9. /\ v \in Promises => Cardinality(AdoptionsIn(jl)) = Cardinality(AdoptionsIn(js)) + 1
      /\ v \notin Promises => AdoptionsIn(jl) = AdoptionsIn(js)
  BY <1>1, <1>2, <1>3, AdoptionsAppended
<1> QED BY <1>7, <1>8, <1>9 DEF Lone

-----------------------------------------------------------------------------
(* What the actions are made of keeps the invariant. *)

(* fulfill_or_reject_promise, called by the one that could settle p. *)
LEMMA FulfillKeeps ==
  ASSUME SettlingInv, NEW p \in Promises, promise[p].state = "pending",
         NEW value \in Values \cup {None, TypeError}, NEW is_reject \in BOOLEAN,
         value \in Promises => value \in Born /\ (is_reject \/ value \in Patched),
         NEW js, NEW fs, FulfillOrReject(p, value, is_reject, js, fs), UNCHANGED registered,
         NEW Q, Q = Promises \ {p},
         SameJobs(js, Q), ThenableFor(js, p) = {}, Cardinality(AdoptionsIn(js)) = Cardinality(Adoptions),
         SameFrames(fs, Q), GettersFor(fs, p) = {},
         \/ pairs' = pairs /\ FreshPairs(p) = {}
         \/ \E r \in Pairs : r[1] = p /\ pairs[r] = "fresh" /\ pairs' = [pairs EXCEPT ![r] = "resolved"]
  PROVE  SettlingInv'
<1>1. PromiseInv /\ SettlersInv /\ IdsInOrder
  BY PartsOfInvariant
<1> DEFINE R == [i \in 1..Len(promise[p].reactions) |->
                   ReactionJob(promise[p].reactions[i], is_reject, value)]
<1>0. PICK jl : jl = js \o R
  OBVIOUS
<1>2. /\ frames' = fs /\ job_list' = jl
      /\ promise' = [promise EXCEPT ![p].reactions = <<>>, ![p].result = value,
                       ![p].state = IF is_reject THEN "rejected" ELSE "fulfilled"]
      /\ tracked' = IF is_reject /\ ~promise[p].is_handled THEN tracked \cup {p} ELSE tracked
  BY <1>0 DEF FulfillOrReject
<1>3. PromiseInv' /\ Moved({}, {p})
  BY <1>1, <1>2, PromiseSettled
<1>4. /\ R \in Seq(ReactionJobs) /\ Len(R) = Len(promise[p].reactions)
      /\ \A i \in 1..Len(R) : R[i].arg = value
  <2>1. promise[p].reactions \in Seq(ReactionRecords)
    BY <1>1 DEF PromiseInv, PromiseRecords
  <2>2. Len(promise[p].reactions) \in Nat
    BY <2>1, LenProperties
  <2>3. \A i \in 1..Len(promise[p].reactions) : promise[p].reactions[i] \in ReactionRecords
    BY <2>1, ElementOfSeq
  <2>4. \A i \in 1..Len(promise[p].reactions) :
          /\ ReactionJob(promise[p].reactions[i], is_reject, value) \in ReactionJobs
          /\ ReactionJob(promise[p].reactions[i], is_reject, value).arg = value
    BY <2>3 DEF ReactionJob, ReactionJobs
  <2> QED BY <2>2, <2>4
<1> HIDE DEF R
<1>5. \A i \in 1..Len(R) : R[i].arg \in Promises => R[i].arg \in Born
  BY <1>4
<1>6. SameJobs(jl, Q) /\ AdoptionsIn(jl) = AdoptionsIn(js)
  BY <1>0, <1>4, <1>5, SameJobsBehind
<1>7. ThenableFor(jl, p) = {}
  <2>1. js \in Seq(Jobs)
    BY DEF SameJobs
  <2>2. \A q : ThenableFor(jl, q) = ThenableFor(js, q)
    BY <1>0, <1>4, <2>1, ThenablesBehind
  <2> QED BY <2>2
<1>8. Born' = Born
  BY <1>3 DEF Moved
<1>9. jl \in Seq(Jobs) /\ JobsCanRun(jl)
  BY <1>6 DEF SameJobs
<1>10. /\ pairs' \in [Pairs -> {"none", "fresh", "resolved"}] /\ PairsNumbered' /\ JobsCanRun(jl)'
       /\ FreshPairs(p)' = {}
       /\ \A q \in Q : FreshPairs(q)' = FreshPairs(q)
  <2>1. CASE pairs' = pairs /\ FreshPairs(p) = {}
    <3>1. PairsNumbered' /\ JobsCanRun(jl)' /\ pairs' \in [Pairs -> {"none", "fresh", "resolved"}]
      BY <2>1, <1>1, <1>8, <1>9 DEF SettlersInv, PairsNumbered, JobsCanRun
    <3>2. \A q : FreshPairs(q)' = FreshPairs(q)
      BY <2>1 DEF FreshPairs
    <3> QED BY <2>1, <3>1, <3>2
  <2>2. CASE \E r \in Pairs : r[1] = p /\ pairs[r] = "fresh" /\ pairs' = [pairs EXCEPT ![r] = "resolved"]
    BY <2>2, <1>1, <1>8, <1>9, PairResolved
  <2> QED BY <2>1, <2>2
<1>11. SettlersInv'
  <2>1. \A q \in Q : /\ FreshPairs(q)' = FreshPairs(q)
                     /\ (promise[q].state = "pending")' <=> promise[q].state = "pending"
    BY <1>3, <1>10 DEF Moved
  <2>2. ~(promise[p].state = "pending")'
    BY <1>3 DEF Moved
  <2>3. /\ Lone(FreshPairs(p)') /\ Lone(ThenableFor(jl, p)) /\ Lone(GettersFor(fs, p))
        /\ FreshPairs(p)' = {} \/ ThenableFor(jl, p) = {}
        /\ FreshPairs(p)' = {} \/ GettersFor(fs, p) = {}
        /\ ThenableFor(jl, p) = {} \/ GettersFor(fs, p) = {}
        /\ (promise[p].state = "pending")' <=>
             (FreshPairs(p)' # {} \/ ThenableFor(jl, p) # {} \/ GettersFor(fs, p) # {})
    BY <1>7, <1>10, <2>2 DEF Lone
  <2> QED BY <1>1, <1>2, <1>6, <1>8, <1>10, <2>1, <2>3, SettlersKept
<1>12. IdsInOrder'
  BY <1>1, <1>2, <1>6, NoIdTaken DEF IdsInOrder
<1> QED BY <1>3, <1>11, <1>12, PartsAfterwards

(* Neither promises nor resolving functions change. *)
LEMMA QuietKeeps ==
  ASSUME SettlingInv, UNCHANGED <<promise, pairs, tracked, registered>>,
         NEW js, job_list' = js, SameJobs(js, Promises),
         Cardinality(AdoptionsIn(js)) = Cardinality(Adoptions),
         NEW fs, frames' = fs, SameFrames(fs, Promises)
  PROVE  SettlingInv'
<1>1. PromiseInv /\ SettlersInv /\ IdsInOrder
  BY PartsOfInvariant
<1>2. Born' = Born
  BY DEF Born
<1>3. PromiseInv'
  BY <1>1, <1>2 DEF PromiseInv, ResultsBorn, HandledInv, TrackerExact, IntactPromisesAdopted
<1>4. PairsNumbered' /\ JobsCanRun(js)' /\ pairs' \in [Pairs -> {"none", "fresh", "resolved"}]
  BY <1>1, <1>2 DEF SettlersInv, PairsNumbered, JobsCanRun, SameJobs
<1>5. \A q \in Promises : /\ FreshPairs(q)' = FreshPairs(q)
                          /\ (promise[q].state = "pending")' <=> promise[q].state = "pending"
  BY DEF FreshPairs
<1>6. SettlersInv'
  <2>1. Promises = Promises \ {None} /\ None \notin Promises
    BY PromisesAssumption DEF Values
  <2> QED BY <1>1, <1>2, <1>4, <1>5, <2>1, SettlersKept
<1>7. IdsInOrder'
  BY <1>1, NoIdTaken DEF IdsInOrder
<1> QED BY <1>3, <1>6, <1>7, PartsAfterwards

(* js_promise_resolve_function_call: whoever calls it, with whatever value. *)
LEMMA ResolveKeeps ==
  ASSUME SettlingInv, NEW r \in Pairs, NEW is_reject \in BOOLEAN,
         NEW value \in Values \cup {None, TypeError}, value \in Promises => value \in Born,
         NEW js, SameJobs(js, Promises), Cardinality(AdoptionsIn(js)) = Cardinality(Adoptions),
         NEW fs, SameFrames(fs, Promises),
         Resolve(r, is_reject, value, js, fs), UNCHANGED registered
  PROVE  SettlingInv'
<1>1. PromiseInv /\ SettlersInv /\ IdsInOrder
  BY PartsOfInvariant
<1>2. CASE pairs[r] = "resolved"
  <2>1. job_list' = js /\ frames' = fs /\ UNCHANGED <<promise, pairs, tracked>>
    BY <1>2 DEF Resolve
  <2> QED BY <2>1, QuietKeeps
<1>3. CASE pairs[r] = "fresh"
  <2> DEFINE p == r[1]
             Q == Promises \ {p}
  <2>1. /\ p \in Promises /\ promise[p].state = "pending" /\ FreshPairs(p) = {r}
        /\ ThenableFor(job_list, p) = {} /\ GettersFor(frames, p) = {}
    BY <1>1, <1>3, FreshPairOf
  <2>2. ThenableFor(js, p) = {} /\ GettersFor(fs, p) = {}
    BY <2>1 DEF SameJobs, SameFrames
  <2>3. SameJobs(js, Q) /\ SameFrames(fs, Q)
    BY DEF SameJobs, SameFrames
  <2>4. pairs' = [pairs EXCEPT ![r] = "resolved"]
    BY <1>3 DEF Resolve
  <2>5. \E s \in Pairs : s[1] = p /\ pairs[s] = "fresh" /\ pairs' = [pairs EXCEPT ![s] = "resolved"]
    BY <1>3, <2>4
  <2>6. CASE FulfillOrReject(p, value, is_reject, js, fs) /\ (is_reject \/ value \notin Promises \cup Thenables)
    <3>1. value \in Promises => value \in Born /\ (is_reject \/ value \in Patched)
      BY <2>6
    <3> HIDE DEF p, Q
    <3> QED BY <2>1, <2>2, <2>3, <2>5, <2>6, <3>1, FulfillKeeps DEF Q
  <2>7. CASE FulfillOrReject(p, TypeError, TRUE, js, fs)
    <3>1. TypeError \notin Promises
      BY PromisesAssumption DEF Values
    <3> HIDE DEF p, Q
    <3> QED BY <2>1, <2>2, <2>3, <2>5, <2>7, <3>1, FulfillKeeps DEF Q
  <2>8. CASE /\ value \in Promises \ {p}
             /\ MoreReactions /\ MorePairs(p)
             /\ job_list' = Append(js, ThenableJob(p, value))
             /\ frames' = fs
             /\ UNCHANGED <<promise, tracked>>
    <3>0. PICK jl : jl = Append(js, ThenableJob(p, value))
      OBVIOUS
    <3>1. job_list' = jl /\ frames' = fs
      BY <2>8, <3>0
    <3>2. pairs[<<p, MaxPairs>>] = "none"
      BY <2>8 DEF MorePairs
    <3> HIDE DEF p
    <3>3. /\ SameJobs(jl, Q)
          /\ Lone(ThenableFor(jl, p)) /\ ThenableFor(jl, p) # {}
          /\ Cardinality(AdoptionsIn(jl)) = Cardinality(AdoptionsIn(js)) + 1
      BY <2>1, <2>2, <2>8, <3>0, <3>2, SameJobsAdopting
    <3>4. Born' = Born
      BY <2>8 DEF Born
    <3>5. PromiseInv'
      BY <1>1, <2>8, <3>4 DEF PromiseInv, ResultsBorn, HandledInv, TrackerExact, IntactPromisesAdopted
    <3>6. jl \in Seq(Jobs) /\ JobsCanRun(jl)
      BY <3>3 DEF SameJobs
    <3>7. /\ pairs' \in [Pairs -> {"none", "fresh", "resolved"}] /\ PairsNumbered' /\ JobsCanRun(jl)'
          /\ FreshPairs(p)' = {}
          /\ \A q \in Q : FreshPairs(q)' = FreshPairs(q)
      BY <1>1, <1>3, <2>4, <3>4, <3>6, PairResolved DEF p
    <3>8. \A q \in Q : /\ FreshPairs(q)' = FreshPairs(q)
                       /\ (promise[q].state = "pending")' <=> promise[q].state = "pending"
      BY <2>8, <3>7
    <3>9. /\ Lone(FreshPairs(p)') /\ Lone(ThenableFor(jl, p)) /\ Lone(GettersFor(fs, p))
          /\ FreshPairs(p)' = {} \/ ThenableFor(jl, p) = {}
          /\ FreshPairs(p)' = {} \/ GettersFor(fs, p) = {}
          /\ ThenableFor(jl, p) = {} \/ GettersFor(fs, p) = {}
          /\ (promise[p].state = "pending")' <=>
               (FreshPairs(p)' # {} \/ ThenableFor(jl, p) # {} \/ GettersFor(fs, p) # {})
      BY <2>1, <2>2, <2>8, <3>3, <3>7 DEF Lone
    <3>10. SettlersInv'
      BY <1>1, <2>3, <3>1, <3>3, <3>4, <3>7, <3>8, <3>9, SettlersKept
    <3>11. Cardinality(Used) + Cardinality(AdoptionsIn(jl)) <= MaxReactions
      <4>1. Cardinality(Used) \in Nat
        BY <1>1, NextReactionFresh DEF PromiseInv, IdsInOrder
      <4>2. Cardinality(Adoptions) \in Nat
        BY <1>1, AdoptionsFinite DEF SettlersInv, Adoptions
      <4> QED BY <4>1, <4>2, <2>8, <3>3, PromisesAssumption DEF MoreReactions
    <3>12. IdsInOrder'
      BY <1>1, <3>1, <3>11, NoIdTaken
    <3> QED BY <3>5, <3>10, <3>12, PartsAfterwards
  <2>9. CASE /\ value \in Thenables \cup Patched
             /\ frames' = <<[kind |-> "getter", promise |-> p, arg |-> value]>> \o fs
             /\ job_list' = js
             /\ UNCHANGED <<promise, tracked>>
    <3> DEFINE x == [kind |-> "getter", promise |-> p, arg |-> value]
    <3>0. PICK fr : fr = <<x>> \o fs
      OBVIOUS
    <3>1. job_list' = js /\ frames' = fr
      BY <2>9, <3>0
    <3> HIDE DEF p
    <3>2. x \in Frames /\ x.kind = "getter" /\ x.promise = p /\ x.arg = value
      BY <2>1, <2>9 DEF Frames
    <3> HIDE DEF x
    <3>3. /\ SameFrames(fr, Q)
          /\ Lone(GettersFor(fr, p)) /\ GettersFor(fr, p) # {}
      BY <2>2, <3>0, <3>2, SameFramesPushed
    <3>4. Born' = Born
      BY <2>9 DEF Born
    <3>5. PromiseInv'
      BY <1>1, <2>9, <3>4 DEF PromiseInv, ResultsBorn, HandledInv, TrackerExact, IntactPromisesAdopted
    <3>6. js \in Seq(Jobs) /\ JobsCanRun(js)
      BY DEF SameJobs
    <3>7. /\ pairs' \in [Pairs -> {"none", "fresh", "resolved"}] /\ PairsNumbered' /\ JobsCanRun(js)'
          /\ FreshPairs(p)' = {}
          /\ \A q \in Q : FreshPairs(q)' = FreshPairs(q)
      BY <1>1, <1>3, <2>4, <3>4, <3>6, PairResolved DEF p
    <3>8. \A q \in Q : /\ FreshPairs(q)' = FreshPairs(q)
                       /\ (promise[q].state = "pending")' <=> promise[q].state = "pending"
      BY <2>9, <3>7
    <3>9. /\ Lone(FreshPairs(p)') /\ Lone(ThenableFor(js, p)) /\ Lone(GettersFor(fr, p))
          /\ FreshPairs(p)' = {} \/ ThenableFor(js, p) = {}
          /\ FreshPairs(p)' = {} \/ GettersFor(fr, p) = {}
          /\ ThenableFor(js, p) = {} \/ GettersFor(fr, p) = {}
          /\ (promise[p].state = "pending")' <=>
               (FreshPairs(p)' # {} \/ ThenableFor(js, p) # {} \/ GettersFor(fr, p) # {})
      BY <2>1, <2>2, <2>9, <3>3, <3>7 DEF Lone
    <3>10. SettlersInv'
      BY <1>1, <2>3, <3>1, <3>3, <3>4, <3>7, <3>8, <3>9, SettlersKept
    <3>11. IdsInOrder'
      BY <1>1, <3>1, NoIdTaken DEF IdsInOrder
    <3> QED BY <3>5, <3>10, <3>11, PartsAfterwards
  <2> QED BY <1>3, <2>6, <2>7, <2>8, <2>9 DEF Resolve
<1> QED BY <1>2, <1>3 DEF Resolve

(* A promise that was not made has no resolving functions and nothing settles it. *)
LEMMA UnbornHasNone ==
  ASSUME SettlersInv, NEW q \in Fresh
  PROVE  /\ q \in Promises /\ q \notin Born /\ First(q) \in Pairs /\ pairs[First(q)] = "none"
         /\ 1 \in 1..MaxPairs /\ First(q) = <<q, 1>>
         /\ \A j \in 1..MaxPairs : j < 1 => pairs[<<q, j>>] # "none"
         /\ FreshPairs(q) = {} /\ ThenableFor(job_list, q) = {} /\ GettersFor(frames, q) = {}
<1>1. q \in Promises /\ q \notin Born /\ promise[q].state = "none"
  BY DEF Fresh, Born
<1>2. 1 \in 1..MaxPairs /\ MaxPairs \in Nat
  BY PromisesAssumption
<1>3. First(q) = <<q, 1>> /\ First(q) \in Pairs
  BY <1>1, <1>2 DEF First, Pairs
<1>4. pairs[<<q, 1>>] = "none"
  BY <1>1, <1>2 DEF SettlersInv, PairsNumbered
<1>5. FreshPairs(q) = {} /\ ThenableFor(job_list, q) = {} /\ GettersFor(frames, q) = {}
  BY <1>1, SettlersOf
<1> QED BY <1>1, <1>2, <1>3, <1>4, <1>5

(* A promise and its first pair of resolving functions are made. *)
LEMMA MakeKeeps ==
  ASSUME SettlingInv, NEW q \in Fresh, promise' = [promise EXCEPT ![q] = Pending],
         pairs' = [pairs EXCEPT ![First(q)] = "fresh"], UNCHANGED <<tracked, registered, job_list>>,
         NEW fs, frames' = fs, SameFrames(fs, Promises)
  PROVE  SettlingInv'
<1>1. PromiseInv /\ SettlersInv /\ IdsInOrder
  BY PartsOfInvariant
<1>2. PromiseInv' /\ Moved({q}, {})
  BY <1>1, PromiseMade
<1>3. /\ q \in Promises /\ pairs[First(q)] = "none" /\ First(q) = <<q, 1>> /\ 1 \in 1..MaxPairs
      /\ FreshPairs(q) = {} /\ ThenableFor(job_list, q) = {} /\ GettersFor(frames, q) = {}
      /\ \A j \in 1..MaxPairs : j < 1 => pairs[<<q, j>>] # "none"
  BY <1>1, UnbornHasNone
<1>0. PICK js : js = job_list
  OBVIOUS
<1>4. SameJobs(js, Promises) /\ SameJobs(js, Promises \ {q}) /\ js \in Seq(Jobs) /\ JobsCanRun(js)
  BY <1>0, <1>1, SameJobsAll DEF SameJobs
<1>5. q \in Born' /\ Born \subseteq Born'
  BY <1>2 DEF Moved
<1>6. /\ pairs' \in [Pairs -> {"none", "fresh", "resolved"}] /\ PairsNumbered' /\ JobsCanRun(js)'
      /\ FreshPairs(q)' = FreshPairs(q) \cup {<<q, 1>>}
      /\ \A s \in Promises \ {q} : FreshPairs(s)' = FreshPairs(s)
  BY <1>0, <1>1, <1>3, <1>4, <1>5, PairMade
<1>7. \A s \in Promises \ {q} : /\ FreshPairs(s)' = FreshPairs(s)
                                /\ (promise[s].state = "pending")' <=> promise[s].state = "pending"
  BY <1>2, <1>6 DEF Moved
<1>8. ThenableFor(js, q) = {} /\ GettersFor(fs, q) = {} /\ SameFrames(fs, Promises \ {q})
  BY <1>0, <1>3 DEF SameFrames
<1>9. (promise[q].state = "pending")'
  BY <1>2, <1>3 DEF Moved
<1>10. /\ Lone(FreshPairs(q)') /\ Lone(ThenableFor(js, q)) /\ Lone(GettersFor(fs, q))
       /\ FreshPairs(q)' = {} \/ ThenableFor(js, q) = {}
       /\ FreshPairs(q)' = {} \/ GettersFor(fs, q) = {}
       /\ ThenableFor(js, q) = {} \/ GettersFor(fs, q) = {}
       /\ (promise[q].state = "pending")' <=>
            (FreshPairs(q)' # {} \/ ThenableFor(js, q) # {} \/ GettersFor(fs, q) # {})
  BY <1>3, <1>6, <1>8, <1>9 DEF Lone
<1>11. SettlersInv'
  BY <1>0, <1>1, <1>4, <1>5, <1>6, <1>7, <1>8, <1>10, SettlersKept
<1>12. IdsInOrder'
  BY <1>0, <1>1, NoIdTaken DEF IdsInOrder, Adoptions
<1> QED BY <1>2, <1>11, <1>12, PartsAfterwards

(* perform_promise_then on a settled promise queues a reaction. *)
LEMMA ThenQueues ==
  ASSUME PromiseInv, NEW p \in Born, NEW rd \in ReactionRecords, NEW B, NEW Q, NEW js, SameJobs(js, Q),
         PerformThen(p, rd, B, js), NEW jl, job_list' = jl
  PROVE  /\ SameJobs(jl, Q) /\ AdoptionsIn(jl) = AdoptionsIn(js)
         /\ \A q : ThenableFor(jl, q) = ThenableFor(js, q)
<1>1. CASE promise[p].state = "pending"
  <2>1. jl = js
    BY <1>1 DEF PerformThen
  <2> QED BY <2>1
<1>2. CASE promise[p].state # "pending"
  <2>1. promise[p] \in PromiseRecords /\ p \in Promises
    BY DEF PromiseInv, Born
  <2>0. ReactionJob(rd, promise[p].state = "rejected", promise[p].result) \in ReactionJobs
    BY <2>1 DEF ReactionJob, ReactionJobs, PromiseRecords
  <2>2. PICK e \in ReactionJobs : e = ReactionJob(rd, promise[p].state = "rejected", promise[p].result)
    BY <2>0
  <2>3. jl = Append(js, e)
    BY <1>2, <2>2 DEF PerformThen
  <2>5. e.arg \in Promises => e.arg \in Born
    BY <2>1, <2>2 DEF PromiseInv, ResultsBorn, ReactionJob
  <2>6. SameJobs(jl, Q) /\ AdoptionsIn(jl) = AdoptionsIn(js)
    BY <2>3, <2>5, SameJobsAppended
  <2>7. \A q : ThenableFor(jl, q) = ThenableFor(js, q)
    <3>1. js \in Seq(Jobs)
      BY DEF SameJobs
    <3> QED BY <2>3, <3>1, ThenablesAppended
  <2> QED BY <2>6, <2>7
<1> QED BY <1>1, <1>2

(* perform_promise_then, together with the pair of resolving functions that is  *)
(* made for the promise c: a new one, or one that adopts p.                     *)
LEMMA ThenKeeps ==
  ASSUME SettlingInv, NEW p \in Born, NEW rd \in ReactionRecords,
         rd.id = NextReaction, NextReaction \in Reactions,
         NEW c, NEW B \in SUBSET (Fresh \cap {c}), NEW js, PerformThen(p, rd, B, js),
         NEW Q, Q = Promises \ {c}, SameJobs(js, Q),
         Cardinality(Used) + 1 + Cardinality(AdoptionsIn(js)) <= MaxReactions,
         NEW fs, frames' = fs, SameFrames(fs, Promises),
         \/ c \notin Promises /\ pairs' = pairs
         \/ /\ c \in Promises /\ (promise[c].state = "pending" \/ c \in B)
            /\ ThenableFor(js, c) = {} /\ FreshPairs(c) = {} /\ GettersFor(frames, c) = {}
            /\ \E k \in 1..MaxPairs :
                 /\ pairs[<<c, k>>] = "none"
                 /\ \A j \in 1..MaxPairs : j < k => pairs[<<c, j>>] # "none"
                 /\ pairs' = [pairs EXCEPT ![<<c, k>>] = "fresh"]
  PROVE  SettlingInv'
<1>1. PromiseInv /\ SettlersInv /\ IdsInOrder
  BY PartsOfInvariant
<1>2. PromiseInv' /\ Moved(B, {})
  BY <1>1, ReactionRegistered
<1>3. PICK jl : job_list' = jl
  OBVIOUS
<1>4. SameJobs(jl, Q) /\ AdoptionsIn(jl) = AdoptionsIn(js)
  BY <1>1, <1>3, ThenQueues
<1>5. \A q : ThenableFor(jl, q) = ThenableFor(js, q)
  BY <1>1, <1>3, ThenQueues
<1>6. jl \in Seq(Jobs) /\ JobsCanRun(jl)
  BY <1>4 DEF SameJobs
<1>7. Born' = Born \cup B /\ Born \subseteq Born'
  BY <1>2 DEF Moved
<1>8. SameFrames(fs, Q)
  BY DEF SameFrames
<1>9. SettlersInv'
  <2>1. CASE c \notin Promises /\ pairs' = pairs
    <3>1. pairs' \in [Pairs -> {"none", "fresh", "resolved"}] /\ PairsNumbered' /\ JobsCanRun(jl)'
      BY <2>1, <1>1, <1>6, <1>7 DEF SettlersInv, PairsNumbered, JobsCanRun
    <3>2. B = {}
      BY <2>1 DEF Fresh
    <3>3. \A q \in Q : /\ FreshPairs(q)' = FreshPairs(q)
                       /\ (promise[q].state = "pending")' <=> promise[q].state = "pending"
      BY <2>1, <3>2, <1>2 DEF FreshPairs, Moved
    <3> QED BY <2>1, <1>1, <1>3, <1>4, <1>7, <1>8, <3>1, <3>3, SettlersKept
  <2>2. CASE /\ c \in Promises /\ (promise[c].state = "pending" \/ c \in B)
             /\ ThenableFor(js, c) = {} /\ FreshPairs(c) = {} /\ GettersFor(frames, c) = {}
             /\ \E k \in 1..MaxPairs :
                  /\ pairs[<<c, k>>] = "none"
                  /\ \A j \in 1..MaxPairs : j < k => pairs[<<c, j>>] # "none"
                  /\ pairs' = [pairs EXCEPT ![<<c, k>>] = "fresh"]
    <3>1. PICK k \in 1..MaxPairs :
                  /\ pairs[<<c, k>>] = "none"
                  /\ \A j \in 1..MaxPairs : j < k => pairs[<<c, j>>] # "none"
                  /\ pairs' = [pairs EXCEPT ![<<c, k>>] = "fresh"]
      BY <2>2
    <3>2. c \in Born'
      BY <2>2, <1>7 DEF Born
    <3>3. ThenableFor(jl, c) = {} /\ GettersFor(fs, c) = {}
      BY <2>2, <1>5 DEF SameFrames
    <3>4. /\ pairs' \in [Pairs -> {"none", "fresh", "resolved"}] /\ PairsNumbered' /\ JobsCanRun(jl)'
          /\ FreshPairs(c)' = FreshPairs(c) \cup {<<c, k>>}
          /\ \A q \in Promises \ {c} : FreshPairs(q)' = FreshPairs(q)
      BY <2>2, <1>1, <1>6, <1>7, <3>1, <3>2, <3>3, PairMade
    <3>5. \A q \in Q : /\ FreshPairs(q)' = FreshPairs(q)
                       /\ (promise[q].state = "pending")' <=> promise[q].state = "pending"
      BY <1>2, <3>4 DEF Moved
    <3>6. (promise[c].state = "pending")'
      BY <2>2, <1>2 DEF Moved
    <3>7. /\ Lone(FreshPairs(c)') /\ Lone(ThenableFor(jl, c)) /\ Lone(GettersFor(fs, c))
          /\ FreshPairs(c)' = {} \/ ThenableFor(jl, c) = {}
          /\ FreshPairs(c)' = {} \/ GettersFor(fs, c) = {}
          /\ ThenableFor(jl, c) = {} \/ GettersFor(fs, c) = {}
          /\ (promise[c].state = "pending")' <=>
               (FreshPairs(c)' # {} \/ ThenableFor(jl, c) # {} \/ GettersFor(fs, c) # {})
      BY <2>2, <3>3, <3>4, <3>6 DEF Lone
    <3> QED BY <1>1, <1>3, <1>4, <1>7, <1>8, <3>4, <3>5, <3>7, SettlersKept
  <2> QED BY <2>1, <2>2
<1>10. IdsInOrder'
  <2>1. registered' = [registered EXCEPT ![p] = Append(@, NextReaction)] /\ p \in Promises
    BY DEF PerformThen, Born
  <2>2. Cardinality(AdoptionsIn(jl)) \in Nat
    BY <1>6, AdoptionsFinite
  <2> QED BY <1>1, <1>3, <1>4, <2>1, <2>2, IdTaken DEF PromiseInv
<1> QED BY <1>2, <1>9, <1>10, PartsAfterwards

(* js_promise_resolve_thenable_job for the promise p: the resolving functions   *)
(* are made for c, which is pending.                                            *)
LEMMA AdoptKeeps ==
  ASSUME SettlingInv, NEW p \in Born, NEW rd \in ReactionRecords,
         rd.id = NextReaction, NextReaction \in Reactions,
         NEW c \in Promises, NEW js, PerformThen(p, rd, {}, js),
         NEW Q, Q = Promises \ {c}, SameJobs(js, Q),
         Cardinality(Used) + 1 + Cardinality(AdoptionsIn(js)) <= MaxReactions,
         NEW fs, frames' = fs, SameFrames(fs, Promises), promise[c].state = "pending",
         ThenableFor(js, c) = {}, FreshPairs(c) = {}, GettersFor(frames, c) = {},
         NEW k \in 1..MaxPairs, pairs[<<c, k>>] = "none",
         \A j \in 1..MaxPairs : j < k => pairs[<<c, j>>] # "none",
         pairs' = [pairs EXCEPT ![<<c, k>>] = "fresh"]
  PROVE  SettlingInv'
<1>1. PICK B \in SUBSET (Fresh \cap {c}) : B = {}
  OBVIOUS
<1>2. PerformThen(p, rd, B, js)
  BY <1>1
<1>3. /\ c \in Promises /\ (promise[c].state = "pending" \/ c \in B)
      /\ ThenableFor(js, c) = {} /\ FreshPairs(c) = {} /\ GettersFor(frames, c) = {}
      /\ \E i \in 1..MaxPairs :
           /\ pairs[<<c, i>>] = "none"
           /\ \A j \in 1..MaxPairs : j < i => pairs[<<c, j>>] # "none"
           /\ pairs' = [pairs EXCEPT ![<<c, i>>] = "fresh"]
  OBVIOUS
<1> QED BY <1>2, <1>3, ThenKeeps

(* There is an id left for a reaction: by MoreReactions, or because an adoption *)
(* that has one coming is queued.                                              *)
LEMMA IdLeft ==
  ASSUME PromiseInv, IdsInOrder, Cardinality(Adoptions) \in Nat,
         MoreReactions \/ Cardinality(Adoptions) # 0
  PROVE  /\ NextReaction \in Reactions /\ NextReaction \in 0..MaxReactions
         /\ Cardinality(Used) \in Nat /\ MaxReactions \in Nat
<1>1. Cardinality(Used) \in Nat /\ MaxReactions \in Nat
  BY NextReactionFresh, PromisesAssumption DEF PromiseInv, IdsInOrder
<1> QED BY <1>1 DEF NextReaction, Reactions, MoreReactions, IdsInOrder
=============================================================================
