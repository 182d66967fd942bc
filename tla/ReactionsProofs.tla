-------------------------- MODULE ReactionsProofs --------------------------
(***************************************************************************)
(* Proof that the reactions of a promise run once each, only after it was    *)
(* settled, and in the order in which they were registered.                  *)
(*                                                                          *)
(* OrderOf(jl, rn) says this of a job list and of what has run, so that a     *)
(* job is followed in two moves: it is taken from the list and counted, and   *)
(* then what it does is done to what is left.                                *)
(***************************************************************************)
EXTENDS PromisesProofs

(* Only reactions have ids, and they are registered. *)
LEMMA RegisteredIds ==
  ASSUME Typed
  PROVE  \A p \in Promises : ToSet(registered[p]) \subseteq Reactions /\ ToSet(registered[p]) \subseteq Used
<1> SUFFICES ASSUME NEW p \in Promises PROVE ToSet(registered[p]) \subseteq Reactions /\ ToSet(registered[p]) \subseteq Used
  OBVIOUS
<1>1. registered[p] \in Seq(Reactions)
  BY DEF Typed
<1>2. ToSet(registered[p]) \subseteq Reactions
  BY <1>1, ElementOfSeq DEF ToSet
<1>3. ToSet(registered[p]) \subseteq Used
  BY DEF Used
<1> QED BY <1>2, <1>3

(* Where the jobs of a list are once its first is taken. *)
LEMMA JobsAfterFirst ==
  ASSUME NEW jl \in Seq(Jobs), jl # <<>>, NEW js, js = Tail(jl), NEW e, e = Head(jl)
  PROVE  /\ 1 \in 1..Len(jl) /\ \A y : JobOf(jl, 1, y) <=> e.kind = "reaction" /\ e.rd.id = y
         /\ \A i \in 1..Len(js) : i + 1 \in 1..Len(jl) /\ \A y : JobOf(js, i, y) <=> JobOf(jl, i + 1, y)
         /\ \A i \in 1..Len(jl) : i = 1 \/ (i - 1 \in 1..Len(js) /\ \A y : JobOf(js, i - 1, y) <=> JobOf(jl, i, y))
<1>1. /\ Len(jl) \in Nat \ {0} /\ jl[1] = e
      /\ \A i \in 1..Len(js) : i + 1 \in 1..Len(jl) /\ js[i] = jl[i + 1]
      /\ \A i \in 1..Len(jl) : i = 1 \/ (i - 1 \in 1..Len(js) /\ js[i - 1] = jl[i])
  BY JobTaken
<1> QED BY <1>1 DEF JobOf

(* A job is taken that is not a reaction with an id: nothing is counted. *)
LEMMA OtherTaken ==
  ASSUME SettlingInv, OrderInv, job_list # <<>>, NEW js, js = Tail(job_list), NEW e, e = Head(job_list),
         \A y \in Reactions : ~(e.kind = "reaction" /\ e.rd.id = y)
  PROVE  OrderOf(js, ran)
<1>1. job_list \in Seq(Jobs)
  BY DEF SettlingInv, Typed
<1>2. /\ 1 \in 1..Len(job_list) /\ \A y : JobOf(job_list, 1, y) <=> e.kind = "reaction" /\ e.rd.id = y
      /\ \A i \in 1..Len(js) : i + 1 \in 1..Len(job_list) /\ \A y : JobOf(js, i, y) <=> JobOf(job_list, i + 1, y)
      /\ \A i \in 1..Len(job_list) :
           i = 1 \/ (i - 1 \in 1..Len(js) /\ \A y : JobOf(js, i - 1, y) <=> JobOf(job_list, i, y))
  BY <1>1, JobsAfterFirst
<1>3. RegisteredInOrder /\ WaitingInOrder(ran) /\ RanInOrder(ran)
  BY DEF OrderInv, OrderOf
<1>4. QueuedInOrder(job_list, ran) /\ QueuedRegistered(job_list) /\ NoneLost(job_list, ran)
  BY DEF OrderInv, OrderOf
<1>5. QueuedInOrder(js, ran)
  <2>1. \A i, j \in 1..Len(js) : i < j => i + 1 < j + 1
    OBVIOUS
  <2> QED BY <1>2, <1>4, <2>1 DEF QueuedInOrder
<1>6. QueuedRegistered(js)
  BY <1>2, <1>4 DEF QueuedRegistered
<1>7. NoneLost(js, ran)
  BY <1>2, <1>4 DEF NoneLost
<1> QED BY <1>3, <1>5, <1>6, <1>7 DEF OrderOf

(* promise_reaction_job runs the reaction x. *)
LEMMA ReactionTaken ==
  ASSUME SettlingInv, AsyncInv, OrderInv, job_list # <<>>, NEW js, js = Tail(job_list),
         NEW e, e = Head(job_list), e.kind = "reaction", NEW x \in Reactions, x = e.rd.id,
         NEW rn, rn = [ran EXCEPT ![x] = @ + 1]
  PROVE  OrderOf(js, rn)
<1>1. job_list \in Seq(Jobs) /\ Typed /\ HandledInv /\ ran \in [Reactions -> Nat]
  BY DEF SettlingInv, Typed, AsyncInv
<1>2. /\ 1 \in 1..Len(job_list) /\ \A y : JobOf(job_list, 1, y) <=> y = x
      /\ \A i \in 1..Len(js) : i + 1 \in 1..Len(job_list) /\ \A y : JobOf(js, i, y) <=> JobOf(job_list, i + 1, y)
      /\ \A i \in 1..Len(job_list) :
           i = 1 \/ (i - 1 \in 1..Len(js) /\ \A y : JobOf(js, i - 1, y) <=> JobOf(job_list, i, y))
  BY <1>1, JobsAfterFirst
<1>3. RegisteredInOrder /\ WaitingInOrder(ran) /\ RanInOrder(ran)
  BY DEF OrderInv, OrderOf
<1>4. QueuedInOrder(job_list, ran) /\ QueuedRegistered(job_list) /\ NoneLost(job_list, ran)
  BY DEF OrderInv, OrderOf
<1>5. x \in Used
  BY <1>2, <1>4 DEF QueuedRegistered
<1>6. PICK p \in Promises : x \in ToSet(registered[p])
  BY <1>5 DEF Used
<1>7. /\ p \in Settled /\ ran[x] = 0
      /\ \A j \in 1..Len(job_list), y \in Reactions :
           (1 < j /\ JobOf(job_list, j, y) /\ y \in ToSet(registered[p])) => x < y
  BY <1>2, <1>4, <1>6 DEF QueuedInOrder
<1>8. rn[x] = 1 /\ (\A y \in Reactions \ {x} : rn[y] = ran[y])
  BY <1>1, <1>7
<1>9. \A q \in Promises : ToSet(registered[q]) \subseteq Reactions /\ (q # p => x \notin ToSet(registered[q]))
  BY <1>1, <1>3, <1>6, RegisteredIds DEF RegisteredInOrder
<1>10. promise[p].reactions = <<>>
  BY <1>1, <1>7 DEF Settled, HandledInv
<1>11. WaitingInOrder(rn)
  <2> SUFFICES ASSUME NEW q \in Promises, NEW i \in 1..Len(promise[q].reactions)
               PROVE  rn[promise[q].reactions[i].id] = 0
    BY <1>3 DEF WaitingInOrder
  <2>1. q # p
    BY <1>10
  <2>2. promise[q].reactions[i].id \in ToSet(registered[q]) /\ ran[promise[q].reactions[i].id] = 0
    BY <1>3 DEF WaitingInOrder
  <2> QED BY <1>8, <1>9, <2>1, <2>2
<1>12. QueuedInOrder(js, rn)
  <2> SUFFICES ASSUME NEW i \in 1..Len(js), NEW q \in Promises, NEW y \in Reactions,
                      JobOf(js, i, y), y \in ToSet(registered[q])
               PROVE  /\ q \in Settled /\ rn[y] = 0
                      /\ \A j \in 1..Len(js), z \in Reactions :
                           (i < j /\ JobOf(js, j, z) /\ z \in ToSet(registered[q])) => y < z
    BY DEF QueuedInOrder
  <2>1. i + 1 \in 1..Len(job_list) /\ JobOf(job_list, i + 1, y) /\ 1 < i + 1
    BY <1>2
  <2>2. /\ q \in Settled /\ ran[y] = 0
        /\ \A j \in 1..Len(job_list), z \in Reactions :
             (i + 1 < j /\ JobOf(job_list, j, z) /\ z \in ToSet(registered[q])) => y < z
    BY <1>4, <2>1 DEF QueuedInOrder
  <2>3. y # x
    <3>1. q = p => x < y
      BY <1>7, <2>1
    <3>2. x \in Nat
      BY PromisesAssumption DEF Reactions
    <3> QED BY <1>9, <3>1, <3>2
  <2>4. ASSUME NEW j \in 1..Len(js), NEW z \in Reactions, i < j, JobOf(js, j, z), z \in ToSet(registered[q])
        PROVE  y < z
    <3>1. j + 1 \in 1..Len(job_list) /\ JobOf(job_list, j + 1, z) /\ i + 1 < j + 1
      BY <1>2, <2>4
    <3> QED BY <2>2, <2>4, <3>1
  <2> QED BY <1>8, <2>2, <2>3, <2>4
<1>13. QueuedRegistered(js)
  BY <1>2, <1>4 DEF QueuedRegistered
<1>14. NoneLost(js, rn)
  <2> SUFFICES ASSUME NEW q \in Promises, NEW y \in Reactions, y \in ToSet(registered[q]), rn[y] = 0
               PROVE  \/ \E i \in 1..Len(promise[q].reactions) : promise[q].reactions[i].id = y
                      \/ \E i \in 1..Len(js) : JobOf(js, i, y)
    BY DEF NoneLost
  <2>1. y # x /\ ran[y] = 0
    BY <1>8
  <2>2. \/ \E i \in 1..Len(promise[q].reactions) : promise[q].reactions[i].id = y
        \/ \E i \in 1..Len(job_list) : JobOf(job_list, i, y)
    BY <1>4, <2>1 DEF NoneLost
  <2> QED BY <1>2, <2>1, <2>2
<1>15. RanInOrder(rn)
  <2>1. \A y \in Reactions : rn[y] \in {0, 1} /\ (rn[y] = 1 => y \in Used)
    BY <1>3, <1>5, <1>8 DEF RanInOrder
  <2>2. ASSUME NEW y \in Reactions, y \in ToSet(registered[p]), y < x PROVE ran[y] = 1
    <3>1. x \in Nat /\ y \in Nat
      BY PromisesAssumption DEF Reactions
    <3>2. ASSUME ran[y] = 0 PROVE FALSE
      <4>1. \E i \in 1..Len(job_list) : JobOf(job_list, i, y)
        BY <1>4, <1>10, <2>2, <3>2 DEF NoneLost
      <4>2. PICK i \in 1..Len(job_list) : JobOf(job_list, i, y)
        BY <4>1
      <4>3. i # 1
        BY <1>2, <2>2, <3>1, <4>2
      <4>4. 1 < i
        BY <1>2, <4>3
      <4>5. x < y
        BY <1>7, <2>2, <4>2, <4>4
      <4> QED BY <2>2, <3>1, <4>5
    <3> QED BY <1>3, <3>2 DEF RanInOrder
  <2>3. ASSUME NEW q \in Promises, NEW z \in Reactions, z \in ToSet(registered[q]), rn[z] = 1
        PROVE  q \in Settled /\ \A y \in Reactions : y \in ToSet(registered[q]) /\ y < z => rn[y] = 1
    <3>1. CASE z = x
      <4>1. q = p
        BY <1>9, <2>3, <3>1
      <4>2. \A y \in Reactions : y \in ToSet(registered[p]) /\ y < x => rn[y] = 1
        BY <1>8, <2>2
      <4> QED BY <1>7, <3>1, <4>1, <4>2
    <3>2. CASE z # x
      <4>1. ran[z] = 1
        BY <1>8, <2>3, <3>2
      <4>2. q \in Settled /\ \A y \in Reactions : y \in ToSet(registered[q]) /\ y < z => ran[y] = 1
        BY <1>3, <2>3, <4>1 DEF RanInOrder
      <4> QED BY <1>8, <4>2
    <3> QED BY <3>1, <3>2
  <2> QED BY <2>1, <2>3 DEF RanInOrder
<1> QED BY <1>3, <1>11, <1>12, <1>13, <1>14, <1>15 DEF OrderOf

(* A job is queued that is not a reaction with an id. *)
LEMMA OtherAppended ==
  ASSUME NEW js \in Seq(Jobs), NEW rn, OrderOf(js, rn), NEW e \in Jobs,
         \A y \in Reactions : ~(e.kind = "reaction" /\ e.rd.id = y), NEW jl, jl = Append(js, e)
  PROVE  OrderOf(jl, rn)
<1>1. /\ Len(js) \in Nat /\ jl[Len(js) + 1] = e
      /\ \A i \in 1..Len(js) : i \in 1..Len(jl) /\ jl[i] = js[i]
      /\ \A i \in 1..Len(jl) : i \in 1..Len(js) \/ i = Len(js) + 1
  BY JobAppended
<1>2. /\ \A i \in 1..Len(js) : i \in 1..Len(jl) /\ \A y : JobOf(jl, i, y) <=> JobOf(js, i, y)
      /\ \A i \in 1..Len(jl), y \in Reactions : JobOf(jl, i, y) => i \in 1..Len(js) /\ JobOf(js, i, y)
  BY <1>1 DEF JobOf
<1>3. RegisteredInOrder /\ WaitingInOrder(rn) /\ RanInOrder(rn)
  BY DEF OrderOf
<1>4. QueuedInOrder(js, rn) /\ QueuedRegistered(js) /\ NoneLost(js, rn)
  BY DEF OrderOf
<1>5. QueuedInOrder(jl, rn)
  BY <1>2, <1>4 DEF QueuedInOrder
<1>6. QueuedRegistered(jl)
  BY <1>2, <1>4 DEF QueuedRegistered
<1>7. NoneLost(jl, rn)
  BY <1>2, <1>4 DEF NoneLost
<1> QED BY <1>3, <1>5, <1>6, <1>7 DEF OrderOf

(* No reaction is registered, and none is queued that was waiting. *)
LEMMA QuietOrder ==
  ASSUME NEW jl, NEW rn, OrderOf(jl, rn), job_list' = jl, ran' = rn, registered' = registered,
         \A p \in Promises : promise'[p].reactions = promise[p].reactions,
         \A p \in Settled : p \in Settled'
  PROVE  OrderInv'
<1>1. Used' = Used
  BY DEF Used
<1>2. RegisteredInOrder'
  BY DEF OrderOf, RegisteredInOrder
<1>3. WaitingInOrder(rn)'
  BY DEF OrderOf, WaitingInOrder
<1>4. QueuedInOrder(jl, rn)'
  BY DEF OrderOf, QueuedInOrder
<1>5. QueuedRegistered(jl)'
  BY <1>1 DEF OrderOf, QueuedRegistered
<1>6. NoneLost(jl, rn)'
  BY DEF OrderOf, NoneLost
<1>7. RanInOrder(rn)'
  BY <1>1 DEF OrderOf, RanInOrder
<1>8. OrderOf(jl, rn)'
  BY <1>2, <1>3, <1>4, <1>5, <1>6, <1>7 DEF OrderOf
<1> QED BY <1>8 DEF OrderInv

(* The jobs for the reactions of a promise, behind a job list. *)
LEMMA JobsBehind ==
  ASSUME NEW js \in Seq(Jobs), NEW R \in Seq(ReactionJobs), NEW jl, jl = js \o R
  PROVE  /\ Len(js) \in Nat
         /\ \A i \in 1..Len(js) : i \in 1..Len(jl) /\ \A y : JobOf(jl, i, y) <=> JobOf(js, i, y)
         /\ \A i \in 1..Len(jl) : i \in 1..Len(js) \/ \E k \in 1..Len(R) : i = Len(js) + k
<1>1. /\ Len(jl) = Len(js) + Len(R) /\ Len(js) \in Nat /\ Len(R) \in Nat
      /\ \A i \in 1..Len(js) : jl[i] = js[i]
  BY ReactionsBehind
<1>2. \A i \in 1..Len(js) : i \in 1..Len(jl) /\ jl[i] = js[i]
  BY <1>1
<1>3. \A i \in 1..Len(jl) : i \in 1..Len(js) \/ \E k \in 1..Len(R) : i = Len(js) + k
  <2> SUFFICES ASSUME NEW i \in 1..Len(jl), i \notin 1..Len(js) PROVE \E k \in 1..Len(R) : i = Len(js) + k
    OBVIOUS
  <2>1. i - Len(js) \in 1..Len(R) /\ i = Len(js) + (i - Len(js))
    BY <1>1
  <2> QED BY <2>1
<1>4. \A i \in 1..Len(js) : \A y : JobOf(jl, i, y) <=> JobOf(js, i, y)
  BY <1>2 DEF JobOf
<1> QED BY <1>1, <1>2, <1>3, <1>4

(* fulfill_or_reject_promise queues the reactions that wait, in their order. *)
LEMMA FulfillOrder ==
  ASSUME SettlingInv, NEW p \in Promises, NEW v \in Values \cup {None, TypeError}, NEW b \in BOOLEAN,
         NEW js \in Seq(Jobs), NEW rn, OrderOf(js, rn), NEW fs, FulfillOrReject(p, v, b, js, fs),
         registered' = registered, ran' = rn
  PROVE  OrderInv'
<1>1. Typed /\ promise \in [Promises -> PromiseRecords]
  BY DEF SettlingInv, Typed
<1>2. CASE promise[p].state # "pending"
  <2>1. promise' = promise /\ job_list' = js
    BY <1>2 DEF FulfillOrReject
  <2>2. \A q \in Settled : q \in Settled'
    BY <2>1 DEF Settled
  <2> QED BY <2>1, <2>2, QuietOrder
<1>3. CASE promise[p].state = "pending"
  <2>1. PICK s : s = promise[p].reactions
    OBVIOUS
  <2>2. s \in Seq(ReactionRecords)
    BY <1>1, <2>1 DEF PromiseRecords
  <2>3. PICK R, jl : R = [i \in 1..Len(s) |-> ReactionJob(s[i], b, v)] /\ jl = js \o R
    OBVIOUS
  <2>4. /\ promise' = [promise EXCEPT ![p].reactions = <<>>, ![p].result = v,
                         ![p].state = IF b THEN "rejected" ELSE "fulfilled"]
        /\ job_list' = js \o [i \in 1..Len(promise[p].reactions) |->
                               ReactionJob(promise[p].reactions[i], b, v)]
    BY <1>3 DEF FulfillOrReject
  <2>5. job_list' = jl
    BY <2>1, <2>3, <2>4
  <2>6. \A q \in Promises \ {p} : promise'[q] = promise[q]
    BY <1>1, <2>4
  <2>7. promise'[p].reactions = <<>> /\ promise'[p].state \in {"fulfilled", "rejected"}
    BY <1>1, <2>4 DEF PromiseRecords
  <2>8. p \notin Settled /\ p \in Settled' /\ \A q \in Settled : q \in Settled'
    BY <1>3, <2>6, <2>7 DEF Settled
  <2>9. /\ Len(js) \in Nat /\ Len(s) \in Nat
        /\ \A i \in 1..Len(js) : i \in 1..Len(jl) /\ \A y : JobOf(jl, i, y) <=> JobOf(js, i, y)
        /\ \A k \in 1..Len(s) : Len(js) + k \in 1..Len(jl) /\ \A y : JobOf(jl, Len(js) + k, y) <=> s[k].id = y
        /\ \A i \in 1..Len(jl) : i \in 1..Len(js) \/ \E k \in 1..Len(s) : i = Len(js) + k
    <3>1. Len(s) \in Nat /\ \A i \in 1..Len(s) : s[i] \in ReactionRecords
      BY <2>2, LenProperties, ElementOfSeq
    <3>2. \A i \in 1..Len(s) : ReactionJob(s[i], b, v) \in ReactionJobs /\ ReactionJob(s[i], b, v).rd = s[i]
      BY <3>1 DEF ReactionJob, ReactionJobs
    <3>3. R \in Seq(ReactionJobs) /\ Len(R) = Len(s)
      BY <2>3, <3>1, <3>2
    <3>4. \A k \in 1..Len(s) : R[k].rd = s[k]
      BY <2>3, <3>1, <3>2
    <3>5. jl = js \o R
      BY <2>3
    <3>6. /\ Len(js) \in Nat
          /\ \A i \in 1..Len(js) : i \in 1..Len(jl) /\ \A y : JobOf(jl, i, y) <=> JobOf(js, i, y)
          /\ \A k \in 1..Len(R) : /\ Len(js) + k \in 1..Len(jl)
                                  /\ \A y : JobOf(jl, Len(js) + k, y) <=> R[k].rd.id = y
          /\ \A i \in 1..Len(jl) : i \in 1..Len(js) \/ \E k \in 1..Len(R) : i = Len(js) + k
      <4>1. R \in Seq(ReactionJobs)
        BY <3>3
      <4>2. /\ Len(js) \in Nat
            /\ \A i \in 1..Len(js) : i \in 1..Len(jl) /\ \A y : JobOf(jl, i, y) <=> JobOf(js, i, y)
        BY <3>5, <4>1, JobsBehind
      <4>3. \A k \in 1..Len(R) : /\ Len(js) + k \in 1..Len(jl)
                                 /\ \A y : JobOf(jl, Len(js) + k, y) <=> R[k].rd.id = y
        <5>1. /\ Len(jl) = Len(js) + Len(R) /\ Len(js) \in Nat /\ Len(R) \in Nat
              /\ \A i \in 1..Len(R) : jl[Len(js) + i] = R[i] /\ R[i] \in ReactionJobs
          BY <3>5, <4>1, ReactionsBehind
        <5>2. \A k \in 1..Len(R) : jl[Len(js) + k] = R[k] /\ R[k].kind = "reaction" /\ Len(js) + k \in 1..Len(jl)
          BY <5>1 DEF ReactionJobs
        <5> QED BY <5>2 DEF JobOf
      <4>4. \A i \in 1..Len(jl) : i \in 1..Len(js) \/ \E k \in 1..Len(R) : i = Len(js) + k
        BY <3>5, <4>1, JobsBehind
      <4> QED BY <4>2, <4>3, <4>4
    <3> QED BY <3>1, <3>3, <3>4, <3>6
  <2>10. RegisteredInOrder /\ WaitingInOrder(rn) /\ RanInOrder(rn)
    BY DEF OrderOf
  <2>11. QueuedInOrder(js, rn) /\ QueuedRegistered(js) /\ NoneLost(js, rn)
    BY DEF OrderOf
  <2>12. \A k \in 1..Len(s) :
           /\ s[k].id \in ToSet(registered[p]) /\ rn[s[k].id] = 0
           /\ \A l \in 1..Len(s) : k < l => s[k].id < s[l].id
    BY <2>1, <2>10 DEF WaitingInOrder
  <2>13. Used' = Used
    BY DEF Used
  <2>14. RegisteredInOrder'
    BY <2>10 DEF RegisteredInOrder
  <2>15. WaitingInOrder(rn)'
    <3>1. promise'[p].reactions = <<>> /\ \A q \in Promises \ {p} : promise'[q].reactions = promise[q].reactions
      BY <2>6, <2>7
    <3> QED BY <2>10, <3>1 DEF WaitingInOrder
  <2>16. QueuedInOrder(jl, rn)'
    <3> SUFFICES ASSUME NEW i \in 1..Len(jl), NEW q \in Promises, NEW x \in Reactions,
                        JobOf(jl, i, x), x \in ToSet(registered[q])
                 PROVE  /\ q \in Settled' /\ rn[x] = 0
                        /\ \A j \in 1..Len(jl), y \in Reactions :
                             (i < j /\ JobOf(jl, j, y) /\ y \in ToSet(registered[q])) => x < y
      BY DEF QueuedInOrder
    <3>1. CASE i \in 1..Len(js)
      <4>1. JobOf(js, i, x)
        BY <2>9, <3>1
      <4>2. /\ q \in Settled /\ rn[x] = 0
            /\ \A j \in 1..Len(js), y \in Reactions :
                 (i < j /\ JobOf(js, j, y) /\ y \in ToSet(registered[q])) => x < y
        BY <2>11, <3>1, <4>1 DEF QueuedInOrder
      <4>3. ASSUME NEW j \in 1..Len(jl), NEW y \in Reactions, i < j, JobOf(jl, j, y), y \in ToSet(registered[q])
            PROVE  x < y
        <5>1. CASE j \in 1..Len(js)
          BY <2>9, <4>2, <4>3, <5>1
        <5>2. CASE j \notin 1..Len(js)
          <6>1. PICK k \in 1..Len(s) : j = Len(js) + k
            BY <2>9, <5>2
          <6>2. s[k].id = y
            BY <2>9, <4>3, <6>1
          <6>3. y \in ToSet(registered[p])
            BY <2>12, <6>2
          <6>4. q = p
            BY <2>10, <4>3, <6>3 DEF RegisteredInOrder
          <6> QED BY <2>8, <4>2, <6>4
        <5> QED BY <5>1, <5>2
      <4> QED BY <2>8, <4>2, <4>3
    <3>2. CASE i \notin 1..Len(js)
      <4>1. PICK k \in 1..Len(s) : i = Len(js) + k
        BY <2>9, <3>2
      <4>2. s[k].id = x
        BY <2>9, <4>1
      <4>3. x \in ToSet(registered[p]) /\ rn[x] = 0
        BY <2>12, <4>2
      <4>4. q = p
        BY <2>10, <4>3 DEF RegisteredInOrder
      <4>5. ASSUME NEW j \in 1..Len(jl), NEW y \in Reactions, i < j, JobOf(jl, j, y) PROVE x < y
        <5>1. j \notin 1..Len(js)
          BY <2>9, <4>1, <4>5
        <5>2. PICK l \in 1..Len(s) : j = Len(js) + l
          BY <2>9, <5>1
        <5>3. s[l].id = y /\ k < l
          BY <2>9, <4>1, <4>5, <5>2
        <5> QED BY <2>12, <4>2, <5>3
      <4> QED BY <2>8, <4>3, <4>4, <4>5
    <3> QED BY <3>1, <3>2
  <2>17. QueuedRegistered(jl)'
    <3> SUFFICES ASSUME NEW i \in 1..Len(jl), NEW x \in Reactions, JobOf(jl, i, x) PROVE x \in Used
      BY <2>13 DEF QueuedRegistered
    <3>1. CASE i \in 1..Len(js)
      BY <2>9, <2>11, <3>1 DEF QueuedRegistered
    <3>2. CASE i \notin 1..Len(js)
      <4>1. PICK k \in 1..Len(s) : i = Len(js) + k
        BY <2>9, <3>2
      <4>2. x \in ToSet(registered[p])
        BY <2>9, <2>12, <4>1
      <4> QED BY <1>1, <4>2, RegisteredIds
    <3> QED BY <3>1, <3>2
  <2>18. NoneLost(jl, rn)'
    <3> SUFFICES ASSUME NEW q \in Promises, NEW x \in Reactions, x \in ToSet(registered[q]), rn[x] = 0
                 PROVE  \/ \E i \in 1..Len(promise'[q].reactions) : promise'[q].reactions[i].id = x
                        \/ \E i \in 1..Len(jl) : JobOf(jl, i, x)
      BY DEF NoneLost
    <3>1. \/ \E i \in 1..Len(promise[q].reactions) : promise[q].reactions[i].id = x
          \/ \E i \in 1..Len(js) : JobOf(js, i, x)
      BY <2>11 DEF NoneLost
    <3>2. CASE \E i \in 1..Len(js) : JobOf(js, i, x)
      BY <2>9, <3>2
    <3>3. CASE q = p /\ \E i \in 1..Len(promise[q].reactions) : promise[q].reactions[i].id = x
      <4>1. PICK k \in 1..Len(s) : s[k].id = x
        BY <2>1, <3>3
      <4>2. Len(js) + k \in 1..Len(jl) /\ JobOf(jl, Len(js) + k, x)
        BY <2>9, <4>1
      <4> QED BY <4>2
    <3>4. CASE q # p /\ \E i \in 1..Len(promise[q].reactions) : promise[q].reactions[i].id = x
      BY <2>6, <3>4
    <3> QED BY <3>1, <3>2, <3>3, <3>4
  <2>19. RanInOrder(rn)'
    BY <2>8, <2>10, <2>13 DEF RanInOrder
  <2>20. OrderOf(jl, rn)'
    BY <2>14, <2>15, <2>16, <2>17, <2>18, <2>19 DEF OrderOf
  <2> QED BY <2>5, <2>20 DEF OrderInv
<1> QED BY <1>2, <1>3

(* js_promise_resolve_function_call queues the reactions that wait, or a job that *)
(* has no id.                                                                  *)
LEMMA ResolveOrder ==
  ASSUME SettlingInv, NEW r \in Pairs, NEW v \in Values \cup {None, TypeError}, NEW b \in BOOLEAN,
         NEW js \in Seq(Jobs), NEW rn, OrderOf(js, rn), NEW fs, Resolve(r, b, v, js, fs),
         registered' = registered, ran' = rn
  PROVE  OrderInv'
<1>1. r[1] \in Promises
  BY DEF Pairs
<1>2. CASE FulfillOrReject(r[1], v, b, js, fs)
  BY <1>1, <1>2, FulfillOrder
<1>3. CASE FulfillOrReject(r[1], TypeError, TRUE, js, fs)
  BY <1>1, <1>3, FulfillOrder
<1>4. CASE job_list' = js /\ promise' = promise
  BY <1>4, QuietOrder DEF Settled
<1>5. CASE v \in Promises /\ job_list' = Append(js, ThenableJob(r[1], v)) /\ promise' = promise
  <2>1. PICK e : e = ThenableJob(r[1], v)
    OBVIOUS
  <2>2. e \in Jobs /\ \A y \in Reactions : ~(e.kind = "reaction" /\ e.rd.id = y)
    BY <1>1, <1>5, <2>1 DEF ThenableJob, Jobs, ThenableJobs
  <2>3. PICK jl : jl = Append(js, e)
    OBVIOUS
  <2>4. OrderOf(jl, rn)
    BY <2>2, <2>3, OtherAppended
  <2>5. job_list' = jl /\ promise' = promise
    BY <1>5, <2>1, <2>3
  <2> QED BY <2>4, <2>5, QuietOrder DEF Settled
<1> QED BY <1>2, <1>3, <1>4, <1>5 DEF Resolve

(* perform_promise_then gives a reaction the next id, and queues it or lets it wait *)
(* behind the others.                                                          *)
LEMMA ThenOrder ==
  ASSUME SettlingInv, NEW p \in Born, NEW rd \in ReactionRecords, NEW n \in Reactions, n = NextReaction,
         rd.id = n, NEW B \in SUBSET Fresh, NEW js \in Seq(Jobs), NEW rn, OrderOf(js, rn),
         PerformThen(p, rd, B, js), ran' = rn
  PROVE  OrderInv'
<1>1. /\ Typed /\ PromiseInv /\ registered \in [Promises -> Seq(Reactions)]
      /\ \A x \in Used : \A y \in 1..x : y \in Used
  BY PartsOfInvariant DEF SettlingInv, Typed, IdsInOrder
<1>2. n \notin Used /\ \A x \in Used : x < n
  BY <1>1, NextReactionFresh
<1>3. p \in Promises
  BY DEF Born
<1>4. /\ registered[p] \in Seq(Reactions) /\ registered'[p] = Append(registered[p], n)
      /\ \A q \in Promises \ {p} : registered'[q] = registered[q]
      /\ ToSet(registered'[p]) = ToSet(registered[p]) \cup {n} /\ Used' = Used \cup {n}
  <2>1. registered' = [registered EXCEPT ![p] = Append(@, n)]
    BY DEF PerformThen
  <2> QED BY <1>1, <1>3, <2>1, RegisteredNext
<1>5. \A q \in Promises : ToSet(registered[q]) \subseteq Reactions /\ ToSet(registered[q]) \subseteq Used
  BY <1>1, RegisteredIds
<1>6. \A q \in Settled : q \in Settled'
  <2>1. PromiseInv' /\ Moved(B, {})
    BY <1>1, ReactionRegistered
  <2> SUFFICES ASSUME NEW q \in Settled PROVE q \in Settled'
    OBVIOUS
  <2>2. q \in Promises /\ q \in Born /\ q \notin B /\ promise[q].state # "pending"
    BY DEF Settled, Born, Fresh
  <2>3. promise'[q].state # "none" /\ promise'[q].state # "pending"
    BY <2>1, <2>2 DEF Moved, Born
  <2>4. promise'[q].state \in {"none", "pending", "fulfilled", "rejected"}
    BY <2>1, <2>2 DEF PromiseInv, PromiseRecords
  <2> QED BY <2>2, <2>3, <2>4 DEF Settled
<1>7. RegisteredInOrder /\ WaitingInOrder(rn) /\ RanInOrder(rn)
  BY DEF OrderOf
<1>8. QueuedInOrder(js, rn) /\ QueuedRegistered(js) /\ NoneLost(js, rn)
  BY DEF OrderOf
<1>9. rn[n] = 0
  BY <1>2, <1>7 DEF RanInOrder
<1>10. \A q \in Promises : \A x \in Used : x \in ToSet(registered'[q]) <=> x \in ToSet(registered[q])
  BY <1>2, <1>3, <1>4
<1>11. \A q \in Promises : n \in ToSet(registered'[q]) <=> q = p
  BY <1>2, <1>3, <1>4, <1>5
<1>12. \A q \in Promises : \A x \in ToSet(registered'[q]) : x = n \/ x \in ToSet(registered[q])
  <2> SUFFICES ASSUME NEW q \in Promises, NEW x \in ToSet(registered'[q]), x # n
               PROVE  x \in ToSet(registered[q])
    OBVIOUS
  <2>1. CASE q = p
    BY <1>4, <2>1
  <2>2. CASE q # p
    <3>1. registered'[q] = registered[q]
      BY <1>4, <2>2
    <3> QED BY <3>1
  <2> QED BY <2>1, <2>2
<1>13. RegisteredInOrder'
  <2>1. Increasing(registered'[p])
    <3>1. PICK s, t : s = registered[p] /\ t = registered'[p]
      OBVIOUS
    <3>2. /\ Len(t) = Len(s) + 1 /\ Len(s) \in Nat /\ t[Len(s) + 1] = n
          /\ \A i \in 1..Len(s) : t[i] = s[i]
      BY <1>4, <3>1, AppendProperties, LenProperties
    <3>3. \A i \in 1..Len(s) : s[i] \in ToSet(registered[p])
      BY <1>4, <3>1, LenProperties DEF ToSet
    <3>4. \A i \in 1..Len(s) : s[i] < n
      BY <1>2, <1>3, <1>5, <3>3
    <3>5. \A i, j \in 1..Len(s) : i < j => s[i] < s[j]
      BY <1>3, <1>7, <3>1 DEF RegisteredInOrder, Increasing
    <3>6. \A i, j \in 1..Len(t) : i < j => t[i] < t[j]
      <4> SUFFICES ASSUME NEW i \in 1..Len(t), NEW j \in 1..Len(t), i < j PROVE t[i] < t[j]
        OBVIOUS
      <4>1. i \in 1..Len(s) /\ (j \in 1..Len(s) \/ j = Len(s) + 1)
        BY <3>2
      <4> QED BY <3>2, <3>4, <3>5, <4>1
    <3> QED BY <3>1, <3>6 DEF Increasing
  <2>2. \A q \in Promises : Increasing(registered'[q])
    BY <1>4, <1>7, <2>1 DEF RegisteredInOrder
  <2>3. \A a, b \in Promises, x \in Reactions :
          x \in ToSet(registered'[a]) /\ x \in ToSet(registered'[b]) => a = b
    BY <1>7, <1>11, <1>12 DEF RegisteredInOrder
  <2> QED BY <2>2, <2>3 DEF RegisteredInOrder
<1>14. RanInOrder(rn)'
  <2>1. \A x \in Reactions : rn[x] \in {0, 1} /\ (rn[x] = 1 => x \in Used /\ x \in Used')
    BY <1>4, <1>7 DEF RanInOrder
  <2>2. ASSUME NEW q \in Promises, NEW x \in Reactions, x \in ToSet(registered'[q]), rn[x] = 1
        PROVE  q \in Settled' /\ \A y \in Reactions : y \in ToSet(registered'[q]) /\ y < x => rn[y] = 1
    <3>1. x \in Used
      BY <2>1, <2>2
    <3>2. x \in ToSet(registered[q])
      BY <1>10, <2>2, <3>1
    <3>3. q \in Settled /\ \A y \in Reactions : y \in ToSet(registered[q]) /\ y < x => rn[y] = 1
      BY <1>7, <2>2, <3>2 DEF RanInOrder
    <3>4. x < n /\ x \in Nat /\ n \in Nat
      BY <1>2, <3>1, PromisesAssumption DEF Reactions
    <3>5. ~(n < x)
      BY <3>4
    <3> QED BY <1>6, <1>12, <3>3, <3>5
  <2> QED BY <2>1, <2>2 DEF RanInOrder
<1>15. PICK e : e = ReactionJob(rd, promise[p].state = "rejected", promise[p].result)
  OBVIOUS
<1>16. PICK s : s = promise[p].reactions
  OBVIOUS
<1>17. /\ s \in Seq(ReactionRecords) /\ e \in Jobs
       /\ \A q \in Promises \ {p} : promise'[q].reactions = promise[q].reactions
       /\ promise[p].state = "pending" => promise'[p].reactions = Append(s, rd) /\ job_list' = js
       /\ promise[p].state # "pending" => promise'[p].reactions = s /\ job_list' = Append(js, e)
  <2>1. /\ promise[p].reactions \in Seq(ReactionRecords)
        /\ \A q \in Promises \ {p} : promise'[q].reactions = promise[q].reactions
        /\ promise[p].state = "pending" =>
             promise'[p].reactions = Append(promise[p].reactions, rd) /\ job_list' = js
        /\ promise[p].state # "pending" =>
             /\ promise'[p].reactions = promise[p].reactions
             /\ job_list' = Append(js, ReactionJob(rd, promise[p].state = "rejected", promise[p].result))
        /\ ReactionJob(rd, promise[p].state = "rejected", promise[p].result) \in Jobs
    BY ThenReactions
  <2> QED BY <1>15, <1>16, <2>1
<1>18. ASSUME NEW q \in Promises, NEW i \in 1..Len(promise[q].reactions)
       PROVE  /\ promise[q].reactions[i].id \in ToSet(registered[q]) /\ rn[promise[q].reactions[i].id] = 0
              /\ promise[q].reactions[i].id \in ToSet(registered'[q])
              /\ promise[q].reactions[i].id < n
              /\ \A j \in 1..Len(promise[q].reactions) :
                   i < j => promise[q].reactions[i].id < promise[q].reactions[j].id
  <2>1. /\ promise[q].reactions[i].id \in ToSet(registered[q]) /\ rn[promise[q].reactions[i].id] = 0
        /\ \A j \in 1..Len(promise[q].reactions) :
             i < j => promise[q].reactions[i].id < promise[q].reactions[j].id
    BY <1>7 DEF WaitingInOrder
  <2> QED BY <1>2, <1>5, <1>10, <2>1
<1>19. ASSUME NEW i \in 1..Len(js), NEW x \in Reactions, JobOf(js, i, x), NEW q \in Promises,
              x \in ToSet(registered'[q])
       PROVE  /\ q \in Settled' /\ rn[x] = 0 /\ x \in Used /\ x < n
              /\ \A j \in 1..Len(js), y \in Reactions :
                   (i < j /\ JobOf(js, j, y) /\ y \in ToSet(registered'[q])) => x < y
  <2>1. x \in Used /\ x < n /\ x \in ToSet(registered[q])
    BY <1>2, <1>8, <1>10, <1>19 DEF QueuedRegistered
  <2>2. /\ q \in Settled /\ rn[x] = 0
        /\ \A j \in 1..Len(js), y \in Reactions :
             (i < j /\ JobOf(js, j, y) /\ y \in ToSet(registered[q])) => x < y
    BY <1>8, <1>19, <2>1 DEF QueuedInOrder
  <2>3. \A j \in 1..Len(js), y \in Reactions : JobOf(js, j, y) => y \in Used
    BY <1>8 DEF QueuedRegistered
  <2> QED BY <1>6, <1>10, <2>1, <2>2, <2>3
<1>20. ASSUME NEW q \in Promises, NEW x \in Reactions, x \in ToSet(registered'[q]), x # n, rn[x] = 0
       PROVE  \/ \E i \in 1..Len(promise[q].reactions) : promise[q].reactions[i].id = x
              \/ \E i \in 1..Len(js) : JobOf(js, i, x)
  BY <1>8, <1>12, <1>20 DEF NoneLost
<1>21. CASE promise[p].state = "pending"
  <2>1. PICK t : t = Append(s, rd)
    OBVIOUS
  <2>2. promise'[p].reactions = t /\ job_list' = js
    BY <1>17, <1>21, <2>1
  <2>3. /\ Len(t) = Len(s) + 1 /\ Len(s) \in Nat /\ t[Len(s) + 1] = rd
        /\ \A i \in 1..Len(s) : t[i] = s[i]
    BY <1>17, <2>1, AppendProperties, LenProperties
  <2>4. WaitingInOrder(rn)'
    <3> SUFFICES ASSUME NEW q \in Promises, NEW i \in 1..Len(promise'[q].reactions)
                 PROVE  /\ promise'[q].reactions[i].id \in ToSet(registered'[q])
                        /\ rn[promise'[q].reactions[i].id] = 0
                        /\ \A j \in 1..Len(promise'[q].reactions) :
                             i < j => promise'[q].reactions[i].id < promise'[q].reactions[j].id
      BY DEF WaitingInOrder
    <3>1. CASE q # p
      <4>1. promise'[q].reactions = promise[q].reactions
        BY <1>17, <3>1
      <4> QED BY <1>18, <4>1
    <3>2. CASE q = p /\ i \in 1..Len(s)
      <4>1. /\ s[i].id \in ToSet(registered'[p]) /\ rn[s[i].id] = 0 /\ s[i].id < n
            /\ \A j \in 1..Len(s) : i < j => s[i].id < s[j].id
        BY <1>3, <1>16, <1>18, <3>2
      <4>2. t[i] = s[i] /\ \A j \in 1..Len(t) : (j \in 1..Len(s) /\ t[j] = s[j]) \/ t[j] = rd
        BY <2>3, <3>2
      <4>3. \A j \in 1..Len(t) : i < j => t[i].id < t[j].id
        BY <4>1, <4>2
      <4> QED BY <2>2, <3>2, <4>1, <4>2, <4>3
    <3>3. CASE q = p /\ i \notin 1..Len(s)
      <4>1. i = Len(s) + 1 /\ t[i] = rd /\ \A j \in 1..Len(t) : ~(i < j)
        BY <2>2, <2>3, <3>3
      <4> QED BY <1>3, <1>9, <1>11, <2>2, <3>3, <4>1
    <3> QED BY <3>1, <3>2, <3>3
  <2>5. QueuedInOrder(js, rn)'
    BY <1>19 DEF QueuedInOrder
  <2>6. QueuedRegistered(js)'
    BY <1>4, <1>8 DEF QueuedRegistered
  <2>7. NoneLost(js, rn)'
    <3> SUFFICES ASSUME NEW q \in Promises, NEW x \in Reactions, x \in ToSet(registered'[q]), rn[x] = 0
                 PROVE  \/ \E i \in 1..Len(promise'[q].reactions) : promise'[q].reactions[i].id = x
                        \/ \E i \in 1..Len(js) : JobOf(js, i, x)
      BY DEF NoneLost
    <3>1. CASE x = n
      <4>1. q = p
        BY <1>11, <3>1
      <4>2. Len(s) + 1 \in 1..Len(t) /\ t[Len(s) + 1].id = x
        BY <2>3, <3>1
      <4> QED BY <2>2, <4>1, <4>2
    <3>2. CASE x # n /\ \E i \in 1..Len(js) : JobOf(js, i, x)
      BY <3>2
    <3>3. CASE x # n /\ \E i \in 1..Len(promise[q].reactions) : promise[q].reactions[i].id = x
      <4>1. CASE q # p
        BY <1>17, <3>3, <4>1
      <4>2. CASE q = p
        <5>1. PICK i \in 1..Len(s) : s[i].id = x
          BY <1>16, <3>3, <4>2
        <5>2. i \in 1..Len(t) /\ t[i].id = x
          BY <2>3, <5>1
        <5> QED BY <2>2, <4>2, <5>2
      <4> QED BY <4>1, <4>2
    <3> QED BY <1>20, <3>1, <3>2, <3>3
  <2>8. OrderOf(js, rn)'
    BY <1>13, <1>14, <2>4, <2>5, <2>6, <2>7 DEF OrderOf
  <2> QED BY <2>2, <2>8 DEF OrderInv
<1>22. CASE promise[p].state # "pending"
  <2>1. PICK jl : jl = Append(js, e)
    OBVIOUS
  <2>2. \A q \in Promises : promise'[q].reactions = promise[q].reactions
    BY <1>3, <1>16, <1>17, <1>22
  <2>3. job_list' = jl
    BY <1>17, <1>22, <2>1
  <2>4. /\ Len(js) \in Nat /\ jl[Len(js) + 1] = e /\ Len(jl) = Len(js) + 1
        /\ \A i \in 1..Len(js) : jl[i] = js[i]
    BY <1>17, <2>1, JobAppended
  <2>5. /\ \A i \in 1..Len(jl) : i \in 1..Len(js) \/ i = Len(js) + 1
        /\ \A i \in 1..Len(js) : i \in 1..Len(jl) /\ i < Len(js) + 1 /\ \A y : JobOf(jl, i, y) <=> JobOf(js, i, y)
        /\ Len(js) + 1 \in 1..Len(jl) /\ \A y : JobOf(jl, Len(js) + 1, y) <=> y = n
    BY <1>15, <2>4 DEF JobOf, ReactionJob
  <2>6. p \in Settled'
    <3>1. promise[p].state \in {"none", "pending", "fulfilled", "rejected"} /\ promise[p].state # "none"
      BY <1>1, <1>3 DEF Typed, PromiseRecords, Born
    <3> QED BY <1>3, <1>6, <1>22, <3>1 DEF Settled
  <2>7. WaitingInOrder(rn)'
    BY <1>18, <2>2 DEF WaitingInOrder
  <2>8. QueuedInOrder(jl, rn)'
    <3> SUFFICES ASSUME NEW i \in 1..Len(jl), NEW q \in Promises, NEW x \in Reactions,
                        JobOf(jl, i, x), x \in ToSet(registered'[q])
                 PROVE  /\ q \in Settled' /\ rn[x] = 0
                        /\ \A j \in 1..Len(jl), y \in Reactions :
                             (i < j /\ JobOf(jl, j, y) /\ y \in ToSet(registered'[q])) => x < y
      BY DEF QueuedInOrder
    <3>1. CASE i \in 1..Len(js)
      <4>1. JobOf(js, i, x)
        BY <2>5, <3>1
      <4>2. /\ q \in Settled' /\ rn[x] = 0 /\ x < n
            /\ \A j \in 1..Len(js), y \in Reactions :
                 (i < j /\ JobOf(js, j, y) /\ y \in ToSet(registered'[q])) => x < y
        BY <1>19, <3>1, <4>1
      <4> QED BY <2>5, <4>2
    <3>2. CASE i = Len(js) + 1
      <4>1. x = n
        BY <2>5, <3>2
      <4>2. q = p
        BY <1>11, <4>1
      <4>3. \A j \in 1..Len(jl) : ~(i < j)
        BY <2>4, <3>2
      <4> QED BY <1>9, <2>6, <4>1, <4>2, <4>3
    <3> QED BY <2>5, <3>1, <3>2
  <2>9. QueuedRegistered(jl)'
    BY <1>4, <1>8, <2>5 DEF QueuedRegistered
  <2>10. NoneLost(jl, rn)'
    <3> SUFFICES ASSUME NEW q \in Promises, NEW x \in Reactions, x \in ToSet(registered'[q]), rn[x] = 0
                 PROVE  \/ \E i \in 1..Len(promise'[q].reactions) : promise'[q].reactions[i].id = x
                        \/ \E i \in 1..Len(jl) : JobOf(jl, i, x)
      BY DEF NoneLost
    <3>1. CASE x = n
      BY <2>5, <3>1
    <3>2. CASE x # n
      BY <1>20, <2>2, <2>5, <3>2
    <3> QED BY <3>1, <3>2
  <2>11. OrderOf(jl, rn)'
    BY <1>13, <1>14, <2>7, <2>8, <2>9, <2>10 DEF OrderOf
  <2> QED BY <2>3, <2>11 DEF OrderInv
<1> QED BY <1>21, <1>22

-----------------------------------------------------------------------------
(* OrderInv is inductive, given what PromisesProofs proves. *)

(* A promise is made. *)
LEMMA MakeOrder ==
  ASSUME SettlingInv, OrderInv, NEW q \in Fresh, promise' = [promise EXCEPT ![q] = Pending],
         UNCHANGED <<job_list, registered, ran>>
  PROVE  OrderInv'
<1>1. /\ promise \in [Promises -> PromiseRecords] /\ HandledInv
      /\ q \in Promises /\ promise[q].state = "none"
  BY DEF SettlingInv, Typed, Fresh, Born
<1>2. Pending.reactions = <<>> /\ promise[q].reactions = <<>>
  BY <1>1 DEF HandledInv, Pending, Unborn
<1>3. promise'[q] = Pending /\ \A p \in Promises \ {q} : promise'[p] = promise[p]
  BY <1>1
<1>4. \A p \in Promises : promise'[p].reactions = promise[p].reactions
  <2> SUFFICES ASSUME NEW p \in Promises PROVE promise'[p].reactions = promise[p].reactions
    OBVIOUS
  <2>1. CASE p = q
    BY <1>2, <1>3, <2>1
  <2>2. CASE p # q
    BY <1>3, <2>2
  <2> QED BY <2>1, <2>2
<1>5. \A p \in Settled : p \in Settled'
  <2> SUFFICES ASSUME NEW p \in Settled PROVE p \in Settled'
    OBVIOUS
  <2>1. p \in Promises \ {q}
    BY <1>1 DEF Settled
  <2>2. promise'[p] = promise[p]
    BY <1>3, <2>1
  <2> QED BY <2>2 DEF Settled
<1>6. PICK jl, rn : jl = job_list /\ rn = ran
  OBVIOUS
<1>7. OrderOf(jl, rn) /\ job_list' = jl /\ ran' = rn /\ registered' = registered
  BY <1>6 DEF OrderInv
<1> QED BY <1>4, <1>5, <1>7, QuietOrder

(* A script makes promises, resolves them, asks for their outcome. *)
LEMMA ScriptOrder ==
  ASSUME SettlingInv, OrderInv, Script
  PROVE  OrderInv'
<1>1. /\ Typed /\ job_list \in Seq(Jobs)
      /\ PromiseInv /\ SettlersInv /\ IdsInOrder
  BY PartsOfInvariant DEF SettlingInv, Typed
<1>2. PICK js : js = job_list
  OBVIOUS
<1>3. PICK rn : rn = ran
  OBVIOUS
<1>4. js \in Seq(Jobs) /\ OrderOf(js, rn)
  BY <1>1, <1>2, <1>3 DEF OrderInv
<1>5. Cardinality(Adoptions) \in Nat
  BY <1>1, AdoptionsFinite DEF SettlersInv, Adoptions
<1>6. ASSUME NEW p \in Promises, NewPromise(p) PROVE OrderInv'
  BY <1>6, MakeOrder DEF NewPromise
<1>7. ASSUME NEW r \in Pairs, NEW b \in BOOLEAN, NEW v \in Values, CallResolve(r, b, v) PROVE OrderInv'
  <2>1. Resolve(r, b, v, js, frames) /\ registered' = registered /\ ran' = rn
    BY <1>2, <1>3, <1>7 DEF CallResolve
  <2> QED BY <1>4, <2>1, ResolveOrder
<1>8. ASSUME NEW p \in Promises, NEW q \in Promises, NEW on \in SUBSET BOOLEAN, Then(p, q, on)
      PROVE  OrderInv'
  <2>1. /\ p \in Born /\ q \in Fresh /\ MoreReactions /\ ran' = rn
        /\ PerformThen(p, UserReaction(on, First(q)), {q}, js)
    BY <1>2, <1>3, <1>8 DEF Then
  <2>2. First(q) \in Pairs
    BY <2>1, PromisesAssumption DEF First, Pairs
  <2>3. NextReaction \in Reactions /\ NextReaction \in 0..MaxReactions
    BY <1>1, <1>5, <2>1, IdLeft
  <2>4. PICK rd : rd = UserReaction(on, First(q))
    OBVIOUS
  <2>5. rd \in ReactionRecords /\ rd.id = NextReaction
    BY <2>2, <2>3, <2>4 DEF UserReaction, ReactionRecords
  <2>6. PICK B \in SUBSET Fresh : B = {q}
    BY <2>1
  <2>7. PICK n \in Reactions : n = NextReaction
    BY <2>3
  <2>8. p \in Born /\ PerformThen(p, rd, B, js) /\ rd \in ReactionRecords /\ rd.id = n /\ ran' = rn
    BY <2>1, <2>4, <2>5, <2>6, <2>7
  <2> QED BY <1>4, <2>7, <2>8, ThenOrder
<1>9. ASSUME NEW f \in Asyncs, NEW q \in Promises, CallAsync(f, q) PROVE OrderInv'
  BY <1>9, MakeOrder DEF CallAsync
<1> QED BY <1>6, <1>7, <1>8, <1>9 DEF Script

(* User code comes back to C code. *)
LEMMA ReturnOrder ==
  ASSUME PromisesInv, OrderInv, Return
  PROVE  OrderInv'
<1>1. /\ SettlingInv /\ AsyncInv /\ AwaitInv /\ Typed /\ job_list \in Seq(Jobs) /\ frames \in Seq(Frames)
      /\ PromiseInv /\ SettlersInv /\ IdsInOrder
  BY PartsOfInvariant DEF PromisesInv, SettlingInv, Typed
<1>2. PICK js : js = job_list
  OBVIOUS
<1>3. PICK rn : rn = ran
  OBVIOUS
<1>4. js \in Seq(Jobs) /\ OrderOf(js, rn)
  BY <1>1, <1>2, <1>3 DEF OrderInv
<1>5. PICK x : x = Head(frames)
  OBVIOUS
<1>6. PICK fs : fs = Tail(frames)
  OBVIOUS
<1>7. frames # <<>> => x \in Frames
  BY <1>1, <1>5, FramePopped
<1>8. Cardinality(Adoptions) \in Nat
  BY <1>1, AdoptionsFinite DEF SettlersInv, Adoptions
<1>9. ASSUME NEW e \in Jobs, \A y \in Reactions : ~(e.kind = "reaction" /\ e.rd.id = y),
             job_list' = Append(js, e), promise' = promise, registered' = registered, ran' = rn
      PROVE  OrderInv'
  <2>1. PICK jl : jl = Append(js, e)
    OBVIOUS
  <2>2. OrderOf(jl, rn)
    BY <1>4, <1>9, <2>1, OtherAppended
  <2>3. job_list' = jl
    BY <1>9, <2>1
  <2> QED BY <1>9, <2>2, <2>3, QuietOrder DEF Settled
<1>10. ASSUME NEW b \in BOOLEAN, NEW v \in Values, HandlerReturns(b, v) PROVE OrderInv'
  <2>1. /\ frames # <<>> /\ x.kind = "handler" /\ Resolve(x.arg, b, v, js, fs)
        /\ registered' = registered /\ ran' = rn
    BY <1>2, <1>3, <1>5, <1>6, <1>10 DEF HandlerReturns, Top
  <2>2. x.arg \in Pairs
    BY <1>7, <2>1 DEF Frames
  <2> QED BY <1>1, <1>4, <2>1, <2>2, ResolveOrder
<1>11. ASSUME NEW b \in BOOLEAN, NEW v \in Values, ThenReturns(b, v) PROVE OrderInv'
  <2>1. /\ frames # <<>> /\ x.kind = "then" /\ registered' = registered /\ ran' = rn
        /\ \/ Resolve(x.arg, TRUE, v, js, fs)
           \/ job_list' = js /\ promise' = promise
    BY <1>2, <1>3, <1>5, <1>6, <1>11 DEF ThenReturns, Top
  <2>2. x.arg \in Pairs
    BY <1>7, <2>1 DEF Frames
  <2>3. CASE Resolve(x.arg, TRUE, v, js, fs)
    BY <1>1, <1>4, <2>1, <2>2, <2>3, ResolveOrder
  <2>4. CASE job_list' = js /\ promise' = promise
    BY <1>4, <2>1, <2>4, QuietOrder DEF Settled
  <2> QED BY <2>1, <2>3, <2>4
<1>12. ASSUME NEW b \in BOOLEAN, NEW v \in Values, AsyncReturns(b, v) PROVE OrderInv'
  <2>1. /\ frames # <<>> /\ x.kind = "async" /\ Resolve(First(capability[x.arg]), b, v, js, fs)
        /\ registered' = registered /\ ran' = rn
    BY <1>2, <1>3, <1>5, <1>6, <1>12 DEF AsyncReturns, Top
  <2>2. x.arg \in Asyncs /\ async[x.arg] = "running"
    BY <1>1, <1>5, <2>1, RunningFrame
  <2>3. capability[x.arg] \in Promises
    BY <1>1, <2>2 DEF AsyncInv
  <2>4. First(capability[x.arg]) \in Pairs
    BY <2>3, PromisesAssumption DEF First, Pairs
  <2> QED BY <1>1, <1>4, <2>1, <2>4, ResolveOrder
<1>13. ASSUME NEW o \in {"function", "other"} \cup Plain, GetterReturns(o) PROVE OrderInv'
  <2>1. /\ frames # <<>> /\ x.kind = "getter" /\ registered' = registered /\ ran' = rn
        /\ \/ job_list' = Append(js, ThenableJob(x.promise, None)) /\ promise' = promise
           \/ FulfillOrReject(x.promise, x.arg, FALSE, js, fs)
           \/ o \in Plain /\ FulfillOrReject(x.promise, o, TRUE, js, fs)
    BY <1>2, <1>3, <1>5, <1>6, <1>13 DEF GetterReturns, Top
  <2>2. x.promise \in Promises /\ x.arg \in Patched \cup Thenables
    BY <1>7, <2>1 DEF Frames
  <2>3. CASE job_list' = Append(js, ThenableJob(x.promise, None)) /\ promise' = promise
    <3>1. PICK e : e = ThenableJob(x.promise, None)
      OBVIOUS
    <3>2. e \in Jobs /\ \A y \in Reactions : ~(e.kind = "reaction" /\ e.rd.id = y)
      BY <2>2, <3>1 DEF ThenableJob, Jobs, ThenableJobs
    <3> QED BY <1>9, <2>1, <2>3, <3>1, <3>2
  <2>4. CASE FulfillOrReject(x.promise, x.arg, FALSE, js, fs)
    <3>1. x.arg \in Values \cup {None, TypeError}
      BY <2>2, PromisesAssumption DEF Values
    <3> QED BY <1>1, <1>4, <2>1, <2>2, <2>4, <3>1, FulfillOrder
  <2>5. CASE o \in Plain /\ FulfillOrReject(x.promise, o, TRUE, js, fs)
    <3>1. o \in Values \cup {None, TypeError} /\ FulfillOrReject(x.promise, o, TRUE, js, fs)
      BY <2>5 DEF Values
    <3> QED BY <1>1, <1>4, <2>1, <2>2, <3>1, FulfillOrder
  <2> QED BY <2>1, <2>3, <2>4, <2>5
<1>14. ASSUME NEW v \in Values, AsyncAwaits(v) PROVE OrderInv'
  <2>1. /\ frames # <<>> /\ x.kind = "async" /\ (v \in Born => MoreReactions) /\ ran' = rn
        /\ \/ v \in Born /\ PerformThen(v, AwaitReaction(x.arg), {}, js)
           \/ /\ v \in Plain
              /\ job_list' = Append(js, ReactionJob([AwaitReaction(x.arg) EXCEPT !.id = 0], FALSE, v))
              /\ promise' = promise /\ registered' = registered
    BY <1>2, <1>3, <1>5, <1>14 DEF AsyncAwaits, Top
  <2>2. x.arg \in Asyncs
    BY <1>7, <2>1 DEF Frames
  <2>3. CASE v \in Born /\ PerformThen(v, AwaitReaction(x.arg), {}, js)
    <3>1. NextReaction \in Reactions /\ NextReaction \in 0..MaxReactions
      BY <1>1, <1>8, <2>1, <2>3, IdLeft
    <3>2. PICK rd : rd = AwaitReaction(x.arg)
      OBVIOUS
    <3>3. rd \in ReactionRecords /\ rd.id = NextReaction
      BY <2>2, <3>1, <3>2 DEF AwaitReaction, ReactionRecords
    <3>4. PICK B \in SUBSET Fresh : B = {}
      OBVIOUS
    <3>5. PICK n \in Reactions : n = NextReaction
      BY <3>1
    <3>6. v \in Born /\ PerformThen(v, rd, B, js) /\ rd \in ReactionRecords /\ rd.id = n /\ ran' = rn
      BY <2>1, <2>3, <3>2, <3>3, <3>4, <3>5
    <3> QED BY <1>1, <1>4, <3>5, <3>6, ThenOrder
  <2>4. CASE /\ v \in Plain
             /\ job_list' = Append(js, ReactionJob([AwaitReaction(x.arg) EXCEPT !.id = 0], FALSE, v))
             /\ promise' = promise /\ registered' = registered
    <3>1. PICK rd : rd = [AwaitReaction(x.arg) EXCEPT !.id = 0]
      OBVIOUS
    <3>2. rd = [id |-> 0, handler |-> "await", on |-> {}, target |-> x.arg]
      BY <3>1 DEF AwaitReaction
    <3>3. rd \in ReactionRecords /\ rd.id = 0
      BY <2>2, <3>2, PromisesAssumption DEF ReactionRecords
    <3>4. PICK e : e = ReactionJob(rd, FALSE, v)
      OBVIOUS
    <3>5. e \in Jobs /\ e.rd = rd
      BY <3>3, <3>4 DEF ReactionJob, ReactionJobs, Jobs
    <3>6. \A y \in Reactions : ~(e.kind = "reaction" /\ e.rd.id = y)
      BY <3>3, <3>5 DEF Reactions
    <3>7. job_list' = Append(js, e)
      BY <2>4, <3>1, <3>4
    <3> QED BY <1>9, <2>1, <2>4, <3>5, <3>6, <3>7
  <2> QED BY <2>1, <2>3, <2>4
<1> QED BY <1>10, <1>11, <1>12, <1>13, <1>14 DEF Return

(* promise_reaction_job takes its job from the list and counts the reaction. *)
LEMMA JobCounted ==
  ASSUME SettlingInv, AsyncInv, OrderInv, job_list # <<>>, NEW js, js = Tail(job_list),
         NEW e, e = Head(job_list), e.kind = "reaction", NEW rn, rn = Ran(e.rd)
  PROVE  OrderOf(js, rn)
<1>1. CASE e.rd.id \in Reactions
  <2>1. rn = [ran EXCEPT ![e.rd.id] = @ + 1]
    BY <1>1 DEF Ran
  <2> QED BY <1>1, <2>1, ReactionTaken
<1>2. CASE e.rd.id \notin Reactions
  <2>1. rn = ran
    BY <1>2 DEF Ran
  <2>2. \A y \in Reactions : ~(e.kind = "reaction" /\ e.rd.id = y)
    BY <1>2
  <2>3. OrderOf(js, ran)
    BY <2>2, OtherTaken
  <2> QED BY <2>1, <2>3
<1> QED BY <1>1, <1>2

(* JS_ExecutePendingJob. *)
LEMMA JobOrder ==
  ASSUME PromisesInv, OrderInv, Job
  PROVE  OrderInv'
<1>1. /\ SettlingInv /\ AsyncInv /\ AwaitInv /\ Typed /\ job_list \in Seq(Jobs)
      /\ PromiseInv /\ SettlersInv /\ IdsInOrder
  BY PartsOfInvariant DEF PromisesInv, SettlingInv, Typed
<1>2. PICK js : js = Tail(job_list)
  OBVIOUS
<1>3. PICK e : e = Head(job_list)
  OBVIOUS
<1>4. job_list # <<>>
  BY DEF Job, RunHandler, RunPassOn, RunAwait, RunAdopt, RunThen, JobReady
<1>5. js \in Seq(Jobs) /\ e \in Jobs
  <2>1. e \in Jobs
    BY <1>1, <1>3, <1>4, JobTaken
  <2>2. js \in Seq(Jobs)
    BY <1>1, <1>2, <1>4
  <2> QED BY <2>1, <2>2
<1>6. ASSUME e.kind = "reaction", NEW rn, rn = Ran(e.rd) PROVE OrderOf(js, rn)
  BY <1>1, <1>2, <1>3, <1>4, <1>6, JobCounted
<1>7. ASSUME e.kind = "thenable", NEW rn, rn = ran PROVE OrderOf(js, rn)
  <2>1. \A y \in Reactions : ~(e.kind = "reaction" /\ e.rd.id = y)
    BY <1>7
  <2>2. OrderOf(js, ran)
    BY <1>1, <1>2, <1>3, <1>4, <2>1, OtherTaken
  <2> QED BY <1>7, <2>2
<1>8. CASE RunHandler \/ RunAwait
  <2>1. PICK rn : rn = Ran(e.rd)
    OBVIOUS
  <2>2. /\ e.kind = "reaction" /\ job_list' = js /\ ran' = rn
        /\ promise' = promise /\ registered' = registered
    BY <1>2, <1>3, <1>8, <2>1 DEF RunHandler, RunAwait, JobReady
  <2>3. OrderOf(js, rn)
    BY <1>6, <2>1, <2>2
  <2> QED BY <2>2, <2>3, QuietOrder DEF Settled
<1>9. CASE RunPassOn
  <2>1. PICK rn : rn = Ran(e.rd)
    OBVIOUS
  <2>2. /\ e.kind = "reaction" /\ e.rd.handler \in {"user", "adopt"} /\ ran' = rn
        /\ Resolve(e.rd.target, e.is_reject, e.arg, js, <<>>) /\ registered' = registered
    BY <1>2, <1>3, <1>9, <2>1 DEF RunPassOn, JobReady
  <2>3. e.rd.target \in Pairs /\ e.is_reject \in BOOLEAN /\ e.arg \in Values \cup {None, TypeError}
    BY <1>5, <2>2 DEF Jobs, ReactionJobs, ThenableJobs, ReactionRecords
  <2>4. OrderOf(js, rn)
    BY <1>6, <2>1, <2>2
  <2> QED BY <1>1, <1>5, <2>2, <2>3, <2>4, ResolveOrder
<1>10. CASE RunAdopt
  <2>1. PICK rd : rd = AdoptReaction(NewPair(e.promise))
    OBVIOUS
  <2>2. PICK rn : rn = ran
    OBVIOUS
  <2>3. e.kind = "thenable" /\ e.arg \in Promises /\ PerformThen(e.arg, rd, {}, js) /\ ran' = rn
    BY <1>2, <1>3, <1>10, <2>1, <2>2 DEF RunAdopt, JobReady
  <2>4. e.promise \in Promises /\ e.arg \in Born /\ NewPair(e.promise) \in Pairs
    <3>1. e \in ThenableJobs /\ pairs[<<e.promise, MaxPairs>>] = "none" /\ (e.arg \in Promises => e.arg \in Born)
      BY <1>1, <1>2, <1>3, <1>4, <2>3, SameJobsTaken
    <3>2. e.promise \in Promises
      BY <3>1 DEF ThenableJobs
    <3>3. NewPair(e.promise) \in Pairs
      BY <1>1, <3>1, <3>2, NewPairFresh DEF SettlingInv
    <3> QED BY <2>3, <3>1, <3>2, <3>3
  <2>5. NextReaction \in Reactions /\ NextReaction \in 0..MaxReactions
    <3>1. 1 \in 1..Len(job_list) /\ job_list[1] = e
      BY <1>1, <1>3, <1>4, JobTaken
    <3>2. Adoptions # {}
      BY <2>3, <3>1 DEF Adoptions, AdoptionsIn
    <3>3. IsFiniteSet(Adoptions) /\ Cardinality(Adoptions) \in Nat
      BY <1>1, AdoptionsFinite DEF Adoptions
    <3>4. Cardinality(Adoptions) # 0
      BY <3>2, <3>3, FS_EmptySet
    <3>5. Cardinality(Used) \in Nat /\ MaxReactions \in Nat
      BY <1>1, NextReactionFresh, PromisesAssumption DEF Typed, IdsInOrder
    <3> QED BY <1>1, <3>3, <3>4, <3>5 DEF IdsInOrder, NextReaction, Reactions
  <2>6. rd \in ReactionRecords /\ rd.id = NextReaction
    BY <2>1, <2>4, <2>5 DEF AdoptReaction, ReactionRecords
  <2>7. PICK B \in SUBSET Fresh : B = {}
    OBVIOUS
  <2>8. PICK n \in Reactions : n = NextReaction
    BY <2>5
  <2>9. OrderOf(js, rn)
    BY <1>7, <2>2, <2>3
  <2>10. e.arg \in Born /\ PerformThen(e.arg, rd, B, js) /\ rd \in ReactionRecords /\ rd.id = n /\ ran' = rn
    BY <2>3, <2>4, <2>6, <2>7, <2>8
  <2> QED BY <1>1, <1>5, <2>8, <2>9, <2>10, ThenOrder
<1>11. CASE RunThen
  <2>1. PICK rn : rn = ran
    OBVIOUS
  <2>2. /\ e.kind = "thenable" /\ job_list' = js /\ ran' = rn
        /\ promise' = promise /\ registered' = registered
    BY <1>2, <1>3, <1>11, <2>1 DEF RunThen, JobReady
  <2>3. OrderOf(js, rn)
    BY <1>7, <2>1, <2>2
  <2> QED BY <2>2, <2>3, QuietOrder DEF Settled
<1> QED BY <1>8, <1>9, <1>10, <1>11 DEF Job

(* Nothing has been registered yet. *)
LEMMA InitOrder ==
  ASSUME Init
  PROVE  OrderInv
<1>1. job_list = <<>> /\ Len(job_list) = 0 /\ \A x \in Reactions : ran[x] = 0
  BY DEF Init
<1>2. \A p \in Promises : registered[p] = <<>> /\ promise[p].reactions = <<>>
  BY DEF Init, Unborn
<1>3. \A p \in Promises : ToSet(registered[p]) = {}
  BY <1>2 DEF ToSet
<1>4. RegisteredInOrder
  BY <1>2, <1>3 DEF RegisteredInOrder, Increasing
<1>5. WaitingInOrder(ran)
  BY <1>2 DEF WaitingInOrder
<1>6. QueuedInOrder(job_list, ran) /\ QueuedRegistered(job_list)
  BY <1>1 DEF QueuedInOrder, QueuedRegistered
<1>7. NoneLost(job_list, ran) /\ RanInOrder(ran)
  BY <1>1, <1>3 DEF NoneLost, RanInOrder
<1> QED BY <1>4, <1>5, <1>6, <1>7 DEF OrderInv, OrderOf

(* Every step keeps the order of the reactions. *)
LEMMA StepOrder ==
  ASSUME PromisesInv, OrderInv, [Next]_vars
  PROVE  OrderInv'
<1>1. SettlingInv
  BY DEF PromisesInv
<1>2. CASE Script
  BY <1>1, <1>2, ScriptOrder
<1>3. CASE Return
  BY <1>3, ReturnOrder
<1>4. CASE Job
  BY <1>4, JobOrder
<1>5. CASE UNCHANGED vars
  <2>1. PICK jl, rn : jl = job_list /\ rn = ran
    OBVIOUS
  <2>2. /\ OrderOf(jl, rn) /\ job_list' = jl /\ ran' = rn
        /\ promise' = promise /\ registered' = registered
    BY <1>5, <2>1 DEF vars, OrderInv
  <2> QED BY <2>2, QuietOrder DEF Settled
<1> QED BY <1>2, <1>3, <1>4, <1>5 DEF Next

(* The order of the reactions that wait, are queued and have run, whatever scripts *)
(* and handlers do: the inductive invariant behind ReactionsInOrder.              *)
THEOREM ReactionsInvariance == Spec => []OrderInv
<1>1. Init => OrderInv
  BY InitOrder
<1>2. PromisesInv /\ OrderInv /\ [Next]_vars => OrderInv'
  BY StepOrder
<1> QED BY <1>1, <1>2, PromisesInvariance, PTL DEF Spec

(* Each reaction of a promise runs at most once, only when the promise is settled, *)
(* and after all the reactions that were registered before it, whether they were   *)
(* waiting when the promise was settled or came later.                            *)
THEOREM ReactionsInOrder == Spec => []ReactionsRunInOrder
<1>1. PromisesInv /\ OrderInv => ReactionsRunInOrder
  <2> SUFFICES ASSUME PromisesInv, OrderInv, NEW p \in Promises, NEW i \in 1..Len(registered[p])
               PROVE  /\ ran[registered[p][i]] <= 1
                      /\ ran[registered[p][i]] = 1 =>
                           p \in Settled /\ \A j \in 1..i : ran[registered[p][j]] = 1
    BY DEF ReactionsRunInOrder
  <2>1. Typed /\ RegisteredInOrder /\ RanInOrder(ran)
    BY DEF PromisesInv, SettlingInv, OrderInv, OrderOf
  <2>2. PICK s : s = registered[p]
    OBVIOUS
  <2>3. /\ s \in Seq(Reactions) /\ Len(s) \in Nat
        /\ \A j \in 1..Len(s) : s[j] \in Reactions /\ s[j] \in ToSet(registered[p])
    BY <2>1, <2>2, LenProperties, ElementOfSeq DEF Typed, ToSet
  <2>4. \A j \in 1..Len(s) : ran[s[j]] \in {0, 1}
    BY <2>1, <2>3 DEF RanInOrder
  <2>5. ASSUME ran[s[i]] = 1, NEW j \in 1..i PROVE p \in Settled /\ ran[s[j]] = 1
    <3>1. i \in 1..Len(s) /\ j \in 1..Len(s)
      BY <2>2, <2>3
    <3>2. p \in Settled /\ \A y \in Reactions : y \in ToSet(registered[p]) /\ y < s[i] => ran[y] = 1
      BY <2>1, <2>3, <2>5, <3>1 DEF RanInOrder
    <3>3. CASE j = i
      BY <2>5, <3>2, <3>3
    <3>4. CASE j # i
      <4>1. j < i
        BY <2>3, <3>1, <3>4
      <4>2. s[j] < s[i]
        BY <2>1, <2>2, <3>1, <4>1 DEF RegisteredInOrder, Increasing
      <4> QED BY <2>3, <3>1, <3>2, <4>2
    <3> QED BY <3>3, <3>4
  <2>6. i \in 1..i /\ ran[s[i]] <= 1
    BY <2>2, <2>3, <2>4
  <2> QED BY <2>2, <2>5, <2>6
<1> QED BY <1>1, PromisesInvariance, ReactionsInvariance, PTL
=============================================================================
