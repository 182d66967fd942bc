--------------------------- MODULE PromisesProofs ---------------------------
(***************************************************************************)
(* Proofs about the settling of promises and the resuming of async functions. *)
(***************************************************************************)
EXTENDS PromiseLemmas

-----------------------------------------------------------------------------
(* SettlingInv is inductive, one action at a time. *)

(* A script makes promises, resolves them, asks for their outcome. *)
LEMMA ScriptSettles ==
  ASSUME SettlingInv, Script
  PROVE  SettlingInv'
<1>1. PromiseInv /\ SettlersInv /\ IdsInOrder
  BY PartsOfInvariant
<1>2. PICK js : js = job_list
  OBVIOUS
<1>3. PICK fs : fs = frames
  OBVIOUS
<1>4. SameJobs(js, Promises) /\ Cardinality(AdoptionsIn(js)) = Cardinality(Adoptions)
  BY <1>1, <1>2, SameJobsAll DEF Adoptions
<1>5. SameFrames(fs, Promises)
  BY <1>1, <1>3, SameFramesAll
<1>6. Cardinality(Adoptions) \in Nat
  BY <1>1, AdoptionsFinite DEF SettlersInv, Adoptions
<1>7. ASSUME NEW p \in Promises, NewPromise(p) PROVE SettlingInv'
  BY <1>3, <1>5, <1>7, MakeKeeps DEF NewPromise
<1>8. ASSUME NEW r \in Pairs, NEW b \in BOOLEAN, NEW v \in Values, CallResolve(r, b, v) PROVE SettlingInv'
  <2>1. Resolve(r, b, v, js, fs) /\ UNCHANGED registered /\ v \in Plain \cup Thenables \cup Born
    BY <1>2, <1>3, <1>8 DEF CallResolve
  <2>2. v \in Promises => v \in Born
    BY <2>1, PromisesAssumption
  <2> QED BY <1>4, <1>5, <2>1, <2>2, ResolveKeeps
<1>9. ASSUME NEW p \in Promises, NEW q \in Promises, NEW on \in SUBSET BOOLEAN, Then(p, q, on)
      PROVE  SettlingInv'
  <2>1. /\ p \in Born /\ q \in Fresh /\ MoreReactions /\ frames' = fs
        /\ PerformThen(p, UserReaction(on, First(q)), {q}, js)
        /\ pairs' = [pairs EXCEPT ![First(q)] = "fresh"]
    BY <1>2, <1>3, <1>9 DEF Then
  <2>2. /\ pairs[First(q)] = "none" /\ First(q) = <<q, 1>> /\ First(q) \in Pairs /\ 1 \in 1..MaxPairs
        /\ FreshPairs(q) = {} /\ ThenableFor(js, q) = {} /\ GettersFor(frames, q) = {}
        /\ \A j \in 1..MaxPairs : j < 1 => pairs[<<q, j>>] # "none"
    BY <1>1, <1>2, <2>1, UnbornHasNone
  <2>3. /\ NextReaction \in Reactions /\ NextReaction \in 0..MaxReactions
        /\ Cardinality(Used) \in Nat /\ MaxReactions \in Nat
    BY <1>1, <1>6, <2>1, IdLeft
  <2>4. PICK rd : rd = UserReaction(on, First(q))
    OBVIOUS
  <2>5. rd \in ReactionRecords /\ rd.id = NextReaction
    BY <2>2, <2>3, <2>4 DEF UserReaction, ReactionRecords
  <2>6. PICK Q : Q = Promises \ {q} /\ SameJobs(js, Q)
    BY <1>4 DEF SameJobs
  <2>7. Cardinality(Used) + 1 + Cardinality(AdoptionsIn(js)) <= MaxReactions
    BY <1>4, <1>6, <2>1, <2>3 DEF MoreReactions
  <2>8. PICK B \in SUBSET (Fresh \cap {q}) : B = {q} /\ q \in B
    BY <2>1
  <2>9. \E k \in 1..MaxPairs :
          /\ pairs[<<q, k>>] = "none"
          /\ \A j \in 1..MaxPairs : j < k => pairs[<<q, j>>] # "none"
          /\ pairs' = [pairs EXCEPT ![<<q, k>>] = "fresh"]
    BY <2>1, <2>2
  <2>10. PerformThen(p, rd, B, js)
    BY <2>1, <2>4, <2>8
  <2>11. /\ q \in Promises /\ (promise[q].state = "pending" \/ q \in B)
         /\ ThenableFor(js, q) = {} /\ FreshPairs(q) = {} /\ GettersFor(frames, q) = {}
         /\ \E k \in 1..MaxPairs :
              /\ pairs[<<q, k>>] = "none"
              /\ \A j \in 1..MaxPairs : j < k => pairs[<<q, j>>] # "none"
              /\ pairs' = [pairs EXCEPT ![<<q, k>>] = "fresh"]
    BY <2>2, <2>8, <2>9
  <2>12. p \in Born /\ frames' = fs /\ NextReaction \in Reactions
    BY <2>1, <2>3
  <2> QED BY <1>5, <2>5, <2>6, <2>7, <2>10, <2>11, <2>12, ThenKeeps
<1>10. ASSUME NEW f \in Asyncs, NEW q \in Promises, CallAsync(f, q) PROVE SettlingInv'
  <2>1. PICK x : x = [kind |-> "async", promise |-> None, arg |-> f]
    OBVIOUS
  <2>2. PICK fr : fr = <<x>> \o fs
    OBVIOUS
  <2>3. frames' = fr
    BY <1>3, <1>10, <2>1, <2>2 DEF CallAsync
  <2>4. x \in Frames /\ x.kind # "getter"
    BY <2>1 DEF Frames
  <2>5. SameFrames(fr, Promises)
    BY <1>5, <2>2, <2>4, SameFramesPushed
  <2> QED BY <1>10, <2>3, <2>5, MakeKeeps DEF CallAsync
<1> QED BY <1>7, <1>8, <1>9, <1>10 DEF Script

(* The async function on top of the stack runs. *)
LEMMA RunningFrame ==
  ASSUME AwaitInv, frames \in Seq(Frames), frames # <<>>, NEW x, x = Head(frames), x.kind = "async"
  PROVE  /\ x \in FramesOf(x.arg) /\ x.arg \in Asyncs /\ async[x.arg] = "running"
         /\ At(frames, FramesOf(x.arg)) # {}
<1>1. x \in Frames /\ frames[1] = x /\ 1 \in 1..Len(frames)
  BY FramePopped
<1>2. x.arg \in Asyncs /\ x \in FramesOf(x.arg)
  BY <1>1 DEF Frames, FramesOf
<1>3. 1 \in At(frames, FramesOf(x.arg))
  BY <1>1, <1>2 DEF At
<1> QED BY <1>2, <1>3 DEF AwaitInv, AwaitAlone

(* User code comes back to C code. *)
LEMMA ReturnSettles ==
  ASSUME SettlingInv, AsyncInv, AwaitInv, Return
  PROVE  SettlingInv'
<1>1. PromiseInv /\ SettlersInv /\ IdsInOrder
  BY PartsOfInvariant
<1>2. PICK js : js = job_list
  OBVIOUS
<1>3. PICK fs : fs = Tail(frames)
  OBVIOUS
<1>4. SameJobs(js, Promises) /\ Cardinality(AdoptionsIn(js)) = Cardinality(Adoptions)
  BY <1>1, <1>2, SameJobsAll DEF Adoptions
<1>5. Cardinality(Adoptions) \in Nat
  BY <1>1, AdoptionsFinite DEF SettlersInv, Adoptions
<1>6. PICK x : x = Head(frames)
  OBVIOUS
<1>7. ASSUME frames # <<>>, x.kind # "getter" PROVE x \in Frames /\ SameFrames(fs, Promises)
  BY <1>1, <1>3, <1>6, <1>7, SameFramesPopped
<1>8. ASSUME NEW v \in Plain \cup Thenables \cup Born
      PROVE  v \in Values \cup {None, TypeError} /\ (v \in Promises => v \in Born)
  BY PromisesAssumption DEF Values, Born
<1>9. ASSUME NEW b \in BOOLEAN, NEW v \in Values, HandlerReturns(b, v) PROVE SettlingInv'
  <2>1. /\ frames # <<>> /\ x.kind = "handler" /\ v \in Plain \cup Thenables \cup Born
        /\ Resolve(x.arg, b, v, js, fs) /\ UNCHANGED registered
    BY <1>2, <1>3, <1>6, <1>9 DEF HandlerReturns, Top
  <2>2. x \in Frames /\ SameFrames(fs, Promises)
    BY <1>7, <2>1
  <2>3. PICK r \in Pairs : r = x.arg
    BY <2>1, <2>2 DEF Frames
  <2>4. Resolve(r, b, v, js, fs) /\ UNCHANGED registered
    BY <2>1, <2>3
  <2> QED BY <1>4, <1>8, <2>1, <2>2, <2>4, ResolveKeeps
<1>10. ASSUME NEW b \in BOOLEAN, NEW v \in Values, ThenReturns(b, v) PROVE SettlingInv'
  <2>1. /\ frames # <<>> /\ x.kind = "then" /\ v \in Plain \cup Born /\ UNCHANGED registered
        /\ \/ Resolve(x.arg, TRUE, v, js, fs)
           \/ frames' = fs /\ job_list' = js /\ UNCHANGED <<promise, pairs, tracked, registered>>
    BY <1>2, <1>3, <1>6, <1>10 DEF ThenReturns, Top
  <2>2. x \in Frames /\ SameFrames(fs, Promises)
    BY <1>7, <2>1
  <2>3. PICK r \in Pairs : r = x.arg
    BY <2>1, <2>2 DEF Frames
  <2>4. CASE Resolve(x.arg, TRUE, v, js, fs)
    <3>1. Resolve(r, TRUE, v, js, fs) /\ UNCHANGED registered
      BY <2>1, <2>3, <2>4
    <3> QED BY <1>4, <1>8, <2>1, <2>2, <3>1, ResolveKeeps
  <2>5. CASE frames' = fs /\ job_list' = js /\ UNCHANGED <<promise, pairs, tracked, registered>>
    BY <1>4, <2>2, <2>5, QuietKeeps
  <2> QED BY <2>1, <2>4, <2>5
<1>11. ASSUME NEW b \in BOOLEAN, NEW v \in Values, AsyncReturns(b, v) PROVE SettlingInv'
  <2>1. /\ frames # <<>> /\ x.kind = "async" /\ v \in Plain \cup Thenables \cup Born
        /\ Resolve(First(capability[x.arg]), b, v, js, fs) /\ UNCHANGED registered
    BY <1>2, <1>3, <1>6, <1>11 DEF AsyncReturns, Top
  <2>2. x \in Frames /\ SameFrames(fs, Promises)
    BY <1>7, <2>1
  <2>3. capability[x.arg] \in Promises
    <3>1. x.arg \in Asyncs /\ async[x.arg] = "running"
      BY <1>1, <1>6, <2>1, RunningFrame DEF SettlersInv
    <3> QED BY <3>1 DEF AsyncInv
  <2>4. PICK r \in Pairs : r = First(capability[x.arg])
    <3>1. First(capability[x.arg]) \in Pairs
      BY <2>3, PromisesAssumption DEF First, Pairs
    <3> QED BY <3>1
  <2>5. Resolve(r, b, v, js, fs) /\ UNCHANGED registered
    BY <2>1, <2>4
  <2> QED BY <1>4, <1>8, <2>1, <2>2, <2>5, ResolveKeeps
<1>12. ASSUME NEW o \in {"function", "other"} \cup Plain, GetterReturns(o) PROVE SettlingInv'
  <2> DEFINE p == x.promise
             Q == Promises \ {p}
  <2>1. /\ frames # <<>> /\ x.kind = "getter"
        /\ \/ /\ MorePairs(p) /\ job_list' = Append(js, ThenableJob(p, None)) /\ frames' = fs
              /\ UNCHANGED <<promise, tracked>>
           \/ FulfillOrReject(p, x.arg, FALSE, js, fs)
           \/ o \in Plain /\ FulfillOrReject(p, o, TRUE, js, fs)
        /\ UNCHANGED <<pairs, registered>>
    BY <1>2, <1>3, <1>6, <1>12 DEF GetterReturns, Top
  <2>2. /\ p \in Promises /\ x.arg \in Patched \cup Thenables
        /\ x.arg \in Promises => x.arg \in Born
        /\ SameFrames(fs, Q)
        /\ GettersFor(fs, p) = {} /\ GettersFor(frames, p) # {}
    BY <1>1, <1>3, <1>6, <2>1, SameFramesPopped
  <2>3. promise[p].state = "pending" /\ FreshPairs(p) = {} /\ ThenableFor(js, p) = {}
    BY <1>1, <1>2, <2>2, SettlersOf
  <2>4. SameJobs(js, Q)
    BY <1>4 DEF SameJobs
  <2>5. /\ x.arg \in Values /\ None \notin Promises
        /\ x.arg \in Promises => x.arg \in Born /\ (FALSE \/ x.arg \in Patched)
    BY <2>2, PromisesAssumption DEF Values
  <2>6. pairs' = pairs /\ FreshPairs(p) = {}
    BY <2>1, <2>3
  <2>7. CASE FulfillOrReject(p, x.arg, FALSE, js, fs)
    <3>1. PICK v \in Values \cup {None, TypeError} : v = x.arg
      BY <2>5
    <3>2. FulfillOrReject(p, v, FALSE, js, fs) /\ (v \in Promises => v \in Born /\ (FALSE \/ v \in Patched)) /\ UNCHANGED registered
      BY <2>1, <2>5, <2>7, <3>1
    <3> HIDE DEF p
    <3> QED BY <1>4, <2>2, <2>3, <2>4, <2>6, <3>2, FulfillKeeps
  <2>8. CASE o \in Plain /\ FulfillOrReject(p, o, TRUE, js, fs)
    <3>1. /\ o \in Values \cup {None, TypeError} /\ (o \in Promises => o \in Born /\ (TRUE \/ o \in Patched))
          /\ FulfillOrReject(p, o, TRUE, js, fs) /\ UNCHANGED registered
      BY <2>1, <2>8, PromisesAssumption DEF Values
    <3> HIDE DEF p
    <3> QED BY <1>4, <2>2, <2>3, <2>4, <2>6, <3>1, FulfillKeeps
  <2>9. CASE /\ MorePairs(p) /\ job_list' = Append(js, ThenableJob(p, None)) /\ frames' = fs
             /\ UNCHANGED <<promise, tracked>>
    <3>0. PICK jl : jl = Append(js, ThenableJob(p, None))
      OBVIOUS
    <3>1. job_list' = jl /\ frames' = fs /\ UNCHANGED <<promise, tracked, pairs, registered>>
      BY <2>1, <2>9, <3>0
    <3>2. pairs[<<p, MaxPairs>>] = "none"
      BY <2>9 DEF MorePairs
    <3> HIDE DEF p
    <3>3. /\ SameJobs(jl, Q)
          /\ Lone(ThenableFor(jl, p)) /\ ThenableFor(jl, p) # {}
          /\ AdoptionsIn(jl) = AdoptionsIn(js)
      BY <1>4, <2>2, <2>3, <2>5, <3>0, <3>2, SameJobsAdopting
    <3>4. Born' = Born
      BY <3>1 DEF Born
    <3>5. PromiseInv'
      BY <1>1, <3>1, <3>4 DEF PromiseInv, ResultsBorn, HandledInv, TrackerExact, IntactPromisesAdopted
    <3>6. jl \in Seq(Jobs) /\ JobsCanRun(jl)
      BY <3>3 DEF SameJobs
    <3>7. pairs' \in [Pairs -> {"none", "fresh", "resolved"}] /\ PairsNumbered' /\ JobsCanRun(jl)'
      BY <1>1, <3>1, <3>4, <3>6 DEF SettlersInv, PairsNumbered, JobsCanRun
    <3>8. \A q \in Promises : /\ FreshPairs(q)' = FreshPairs(q)
                              /\ (promise[q].state = "pending")' <=> promise[q].state = "pending"
      BY <3>1 DEF FreshPairs
    <3>9. /\ Lone(FreshPairs(p)') /\ Lone(ThenableFor(jl, p)) /\ Lone(GettersFor(fs, p))
          /\ FreshPairs(p)' = {} \/ ThenableFor(jl, p) = {}
          /\ FreshPairs(p)' = {} \/ GettersFor(fs, p) = {}
          /\ ThenableFor(jl, p) = {} \/ GettersFor(fs, p) = {}
          /\ (promise[p].state = "pending")' <=>
               (FreshPairs(p)' # {} \/ ThenableFor(jl, p) # {} \/ GettersFor(fs, p) # {})
      <4>1. FreshPairs(p)' = {} /\ (promise[p].state = "pending")'
        BY <2>2, <2>3, <3>8
      <4> QED BY <2>2, <3>3, <4>1 DEF Lone
    <3>10. SettlersInv'
      <4>1. \A q \in Q : /\ FreshPairs(q)' = FreshPairs(q)
                         /\ (promise[q].state = "pending")' <=> promise[q].state = "pending"
        BY <3>8
      <4>2. SameFrames(fs, Q) /\ SameJobs(jl, Q) /\ job_list' = jl /\ frames' = fs
        BY <2>2, <3>1, <3>3
      <4> QED BY <1>1, <3>4, <3>7, <3>9, <4>1, <4>2, SettlersKept
    <3>11. IdsInOrder'
      BY <1>1, <1>4, <3>1, <3>3, NoIdTaken DEF IdsInOrder
    <3> QED BY <3>5, <3>10, <3>11, PartsAfterwards
  <2> QED BY <2>1, <2>7, <2>8, <2>9
<1>13. ASSUME NEW v \in Values, AsyncAwaits(v) PROVE SettlingInv'
  <2>1. /\ frames # <<>> /\ x.kind = "async" /\ (v \in Born => MoreReactions) /\ UNCHANGED pairs
        /\ frames' = fs
        /\ \/ v \in Born /\ PerformThen(v, AwaitReaction(x.arg), {}, js)
           \/ /\ v \in Plain
              /\ job_list' = Append(js, ReactionJob([AwaitReaction(x.arg) EXCEPT !.id = 0], FALSE, v))
              /\ UNCHANGED <<promise, tracked, registered>>
    BY <1>2, <1>3, <1>6, <1>13 DEF AsyncAwaits, Top
  <2>2. x \in Frames /\ SameFrames(fs, Promises)
    BY <1>7, <2>1
  <2>3. x.arg \in Asyncs
    BY <2>1, <2>2 DEF Frames
  <2>4. CASE v \in Born /\ PerformThen(v, AwaitReaction(x.arg), {}, js)
    <3>1. /\ NextReaction \in Reactions /\ NextReaction \in 0..MaxReactions
          /\ Cardinality(Used) \in Nat /\ MaxReactions \in Nat
      BY <1>1, <1>5, <2>1, <2>4, IdLeft
    <3>2. PICK rd : rd = AwaitReaction(x.arg)
      OBVIOUS
    <3>3. rd \in ReactionRecords /\ rd.id = NextReaction
      BY <2>3, <3>1, <3>2 DEF AwaitReaction, ReactionRecords
    <3>4. PICK Q : Q = Promises \ {None} /\ SameJobs(js, Q)
      BY <1>4 DEF SameJobs
    <3>5. PICK B \in SUBSET (Fresh \cap {None}) : B = {}
      OBVIOUS
    <3>6. v \in Born /\ PerformThen(v, rd, B, js) /\ frames' = fs
      BY <2>1, <2>4, <3>2, <3>5
    <3>7. Cardinality(Used) + 1 + Cardinality(AdoptionsIn(js)) <= MaxReactions
      BY <1>4, <1>5, <2>1, <2>4, <3>1 DEF MoreReactions
    <3>8. None \notin Promises /\ pairs' = pairs /\ NextReaction \in Reactions
      BY <2>1, <3>1, PromisesAssumption DEF Values
    <3> QED BY <2>2, <3>3, <3>4, <3>6, <3>7, <3>8, ThenKeeps
  <2>5. CASE /\ v \in Plain
             /\ job_list' = Append(js, ReactionJob([AwaitReaction(x.arg) EXCEPT !.id = 0], FALSE, v))
             /\ UNCHANGED <<promise, tracked, registered>>
    <3>1. PICK rd : rd = [AwaitReaction(x.arg) EXCEPT !.id = 0]
      OBVIOUS
    <3>2. rd \in ReactionRecords
      <4>1. rd = [id |-> 0, handler |-> "await", on |-> {}, target |-> x.arg]
        BY <3>1 DEF AwaitReaction
      <4> QED BY <2>3, <4>1, PromisesAssumption DEF ReactionRecords
    <3>3. ReactionJob(rd, FALSE, v) \in ReactionJobs /\ ReactionJob(rd, FALSE, v).arg = v
      BY <3>2 DEF ReactionJob, ReactionJobs
    <3>4. PICK e \in ReactionJobs : e = ReactionJob(rd, FALSE, v)
      BY <3>3
    <3>5. PICK jl : jl = Append(js, e)
      OBVIOUS
    <3>6. e.arg \in Promises => e.arg \in Born
      BY <2>5, <3>3, <3>4, PromisesAssumption
    <3>7. SameJobs(jl, Promises) /\ AdoptionsIn(jl) = AdoptionsIn(js)
      BY <1>4, <3>5, <3>6, SameJobsAppended
    <3>8. job_list' = jl /\ frames' = fs /\ UNCHANGED <<promise, pairs, tracked, registered>>
      BY <2>1, <2>5, <3>1, <3>4, <3>5
    <3> QED BY <1>4, <2>2, <3>7, <3>8, QuietKeeps
  <2> QED BY <2>1, <2>4, <2>5
<1> QED BY <1>9, <1>10, <1>11, <1>12, <1>13 DEF Return

(* A job that calls user code, on an empty stack. *)
LEMMA SameFramesCalled ==
  ASSUME SettlersInv, frames = <<>>, NEW x \in Frames, x.kind # "getter", NEW fr, fr = <<x>>
  PROVE  SameFrames(fr, Promises)
<1>1. PICK fs : fs = frames
  OBVIOUS
<1>2. SameFrames(fs, Promises)
  BY <1>1, SameFramesAll
<1>3. fr = <<x>> \o fs
  <2>1. <<x>> \in Seq(Frames)
    OBVIOUS
  <2>2. <<x>> \o <<>> = <<x>>
    BY <2>1, ConcatEmptySeq
  <2> QED BY <1>1, <2>2
<1> QED BY <1>2, <1>3, SameFramesPushed

(* JS_ExecutePendingJob. *)
LEMMA JobSettles ==
  ASSUME SettlingInv, Job
  PROVE  SettlingInv'
<1>1. PromiseInv /\ SettlersInv /\ IdsInOrder
  BY PartsOfInvariant
<1>2. PICK js : js = Tail(job_list)
  OBVIOUS
<1>3. PICK e : e = Head(job_list)
  OBVIOUS
<1>4. Cardinality(Adoptions) \in Nat
  BY <1>1, AdoptionsFinite DEF SettlersInv, Adoptions
<1>5. PICK fs : fs = frames
  OBVIOUS
<1>6. SameFrames(fs, Promises)
  BY <1>1, <1>5, SameFramesAll
<1>7. ASSUME job_list # <<>>, e.kind = "reaction"
      PROVE  /\ SameJobs(js, Promises) /\ Cardinality(AdoptionsIn(js)) = Cardinality(Adoptions)
             /\ e.rd \in ReactionRecords /\ e.is_reject \in BOOLEAN
             /\ e.arg \in Values \cup {None, TypeError} /\ (e.arg \in Promises => e.arg \in Born)
  <2>1. /\ e \in Jobs /\ (e.arg \in Promises => e.arg \in Born)
        /\ SameJobs(js, Promises) /\ Cardinality(AdoptionsIn(js)) = Cardinality(Adoptions)
    BY <1>1, <1>2, <1>3, <1>7, SameJobsTaken
  <2>2. e \in ReactionJobs
    BY <1>7, <2>1 DEF Jobs, ThenableJobs
  <2> QED BY <2>1, <2>2 DEF ReactionJobs
<1>8. ASSUME job_list # <<>>, e.kind = "thenable"
      PROVE  /\ e.promise \in Promises /\ e.arg \in Promises \cup {None}
             /\ (e.arg \in Promises => e.arg \in Born)
             /\ SameJobs(js, Promises \ {e.promise}) /\ ThenableFor(js, e.promise) = {}
             /\ promise[e.promise].state = "pending"
             /\ FreshPairs(e.promise) = {} /\ GettersFor(frames, e.promise) = {}
             /\ pairs[<<e.promise, MaxPairs>>] = "none"
             /\ Cardinality(AdoptionsIn(js)) =
                  Cardinality(Adoptions) - (IF e.arg \in Promises THEN 1 ELSE 0)
  <2>1. /\ e \in ThenableJobs /\ (e.arg \in Promises => e.arg \in Born)
        /\ SameJobs(js, Promises \ {e.promise}) /\ ThenableFor(js, e.promise) = {}
        /\ ThenableFor(job_list, e.promise) # {}
        /\ pairs[<<e.promise, MaxPairs>>] = "none"
    BY <1>1, <1>2, <1>3, <1>8, SameJobsTaken
  <2>2. Cardinality(AdoptionsIn(js)) = Cardinality(Adoptions) - (IF e.arg \in Promises THEN 1 ELSE 0)
    BY <1>1, <1>2, <1>3, <1>8, SameJobsTaken
  <2>3. e.promise \in Promises /\ e.arg \in Promises \cup {None}
    BY <2>1 DEF ThenableJobs
  <2>4. /\ promise[e.promise].state = "pending"
        /\ FreshPairs(e.promise) = {} /\ GettersFor(frames, e.promise) = {}
    BY <1>1, <2>1, <2>3, SettlersOf
  <2> QED BY <2>1, <2>2, <2>3, <2>4
<1>9. ASSUME job_list # <<>>, e.kind = "thenable", NEW r, r = NewPair(e.promise)
      PROVE  \E k \in 1..MaxPairs :
               /\ r = <<e.promise, k>> /\ r \in Pairs
               /\ pairs[<<e.promise, k>>] = "none"
               /\ \A j \in 1..MaxPairs : j < k => pairs[<<e.promise, j>>] # "none"
  <2>1. e.promise \in Promises /\ pairs[<<e.promise, MaxPairs>>] = "none" /\ PairsNumbered
    BY <1>1, <1>8, <1>9 DEF SettlersInv
  <2>2. /\ r \in Pairs /\ pairs[r] = "none"
        /\ \A k \in 1..MaxPairs : k < r[2] => pairs[<<e.promise, k>>] # "none"
        /\ r = <<e.promise, r[2]>> /\ r[2] \in 1..MaxPairs
    BY <1>9, <2>1, NewPairFresh
  <2> QED BY <2>2
<1>10. ASSUME RunHandler PROVE SettlingInv'
  <2>1. /\ frames = <<>> /\ job_list # <<>> /\ e.kind = "reaction" /\ e.rd.handler = "user"
        /\ frames' = <<[kind |-> "handler", promise |-> None, arg |-> e.rd.target]>>
        /\ job_list' = js /\ UNCHANGED <<promise, pairs, tracked, registered>>
    BY <1>2, <1>3, <1>10 DEF RunHandler, JobReady
  <2>2. PICK x : x = [kind |-> "handler", promise |-> None, arg |-> e.rd.target]
    OBVIOUS
  <2>3. x \in Frames /\ x.kind # "getter"
    BY <1>7, <2>1, <2>2 DEF Frames, ReactionRecords
  <2>4. PICK fr : fr = <<x>>
    OBVIOUS
  <2>5. SameFrames(fr, Promises) /\ frames' = fr
    BY <1>1, <2>1, <2>2, <2>3, <2>4, SameFramesCalled
  <2> QED BY <1>7, <2>1, <2>5, QuietKeeps
<1>11. ASSUME RunAwait PROVE SettlingInv'
  <2>1. /\ frames = <<>> /\ job_list # <<>> /\ e.kind = "reaction" /\ e.rd.handler = "await"
        /\ frames' = <<[kind |-> "async", promise |-> None, arg |-> e.rd.target]>>
        /\ job_list' = js /\ UNCHANGED <<promise, pairs, tracked, registered>>
    BY <1>2, <1>3, <1>11 DEF RunAwait, JobReady
  <2>2. PICK x : x = [kind |-> "async", promise |-> None, arg |-> e.rd.target]
    OBVIOUS
  <2>3. x \in Frames /\ x.kind # "getter"
    BY <1>7, <2>1, <2>2 DEF Frames, ReactionRecords
  <2>4. PICK fr : fr = <<x>>
    OBVIOUS
  <2>5. SameFrames(fr, Promises) /\ frames' = fr
    BY <1>1, <2>1, <2>2, <2>3, <2>4, SameFramesCalled
  <2> QED BY <1>7, <2>1, <2>5, QuietKeeps
<1>12. ASSUME RunPassOn PROVE SettlingInv'
  <2>1. /\ frames = <<>> /\ job_list # <<>> /\ e.kind = "reaction" /\ e.rd.handler \in {"user", "adopt"}
        /\ Resolve(e.rd.target, e.is_reject, e.arg, js, fs)
        /\ UNCHANGED registered
    BY <1>2, <1>3, <1>5, <1>12 DEF RunPassOn, JobReady
  <2>2. e.rd.target \in Pairs
    BY <1>7, <2>1 DEF ReactionRecords
  <2>3. PICK r \in Pairs, b \in BOOLEAN, v \in Values \cup {None, TypeError} :
          r = e.rd.target /\ b = e.is_reject /\ v = e.arg
    BY <1>7, <2>1, <2>2
  <2>4. Resolve(r, b, v, js, fs) /\ UNCHANGED registered /\ (v \in Promises => v \in Born)
    BY <1>7, <2>1, <2>3
  <2> QED BY <1>6, <1>7, <2>1, <2>4, ResolveKeeps
<1>13. ASSUME RunAdopt PROVE SettlingInv'
  <2>1. PICK r : r = NewPair(e.promise)
    OBVIOUS
  <2>2. /\ frames = <<>> /\ job_list # <<>> /\ e.kind = "thenable" /\ e.arg \in Promises
        /\ PerformThen(e.arg, AdoptReaction(r), {}, js)
        /\ pairs' = [pairs EXCEPT ![r] = "fresh"] /\ frames' = fs
    BY <1>2, <1>3, <1>5, <1>13, <2>1 DEF RunAdopt, JobReady
  <2>3. PICK k \in 1..MaxPairs :
               /\ r = <<e.promise, k>> /\ r \in Pairs
               /\ pairs[<<e.promise, k>>] = "none"
               /\ \A j \in 1..MaxPairs : j < k => pairs[<<e.promise, j>>] # "none"
    BY <1>9, <2>1, <2>2
  <2>4. /\ Cardinality(AdoptionsIn(js)) = Cardinality(Adoptions) - 1 /\ js \in Seq(Jobs)
        /\ e.arg \in Born
    BY <1>8, <2>2 DEF SameJobs
  <2>5. Cardinality(Adoptions) # 0
    BY <1>4, <2>4, AdoptionsFinite
  <2>6. /\ NextReaction \in Reactions /\ NextReaction \in 0..MaxReactions
        /\ Cardinality(Used) \in Nat /\ MaxReactions \in Nat
    BY <1>1, <1>4, <2>5, IdLeft
  <2>7. Cardinality(Used) + 1 + Cardinality(AdoptionsIn(js)) <= MaxReactions
    BY <1>1, <1>4, <2>4, <2>6 DEF IdsInOrder
  <2>8. PICK rd : rd = AdoptReaction(r)
    OBVIOUS
  <2>9. rd \in ReactionRecords /\ rd.id = NextReaction
    BY <2>3, <2>6, <2>8 DEF AdoptReaction, ReactionRecords
  <2>10. PICK c : c = e.promise
    OBVIOUS
  <2>11. PICK Q : Q = Promises \ {c} /\ SameJobs(js, Q)
    BY <1>8, <2>2, <2>10
  <2>12. PICK p \in Born : p = e.arg
    BY <2>4
  <2>13. PerformThen(p, rd, {}, js) /\ frames' = fs /\ NextReaction \in Reactions
    BY <2>2, <2>6, <2>8, <2>12
  <2>14. /\ c \in Promises /\ promise[c].state = "pending"
         /\ ThenableFor(js, c) = {} /\ FreshPairs(c) = {} /\ GettersFor(frames, c) = {}
         /\ pairs[<<c, k>>] = "none"
         /\ \A j \in 1..MaxPairs : j < k => pairs[<<c, j>>] # "none"
         /\ pairs' = [pairs EXCEPT ![<<c, k>>] = "fresh"]
    BY <1>8, <2>2, <2>3, <2>10
  <2> QED BY <1>6, <2>7, <2>9, <2>11, <2>13, <2>14, AdoptKeeps
<1>14. ASSUME RunThen PROVE SettlingInv'
  <2>1. PICK r : r = NewPair(e.promise)
    OBVIOUS
  <2>2. /\ frames = <<>> /\ job_list # <<>> /\ e.kind = "thenable" /\ e.arg = None
        /\ frames' = <<[kind |-> "then", promise |-> None, arg |-> r]>>
        /\ pairs' = [pairs EXCEPT ![r] = "fresh"] /\ job_list' = js
        /\ UNCHANGED <<promise, tracked, registered>>
    BY <1>2, <1>3, <1>14, <2>1 DEF RunThen, JobReady
  <2>3. PICK c : c = e.promise
    OBVIOUS
  <2>4. /\ c \in Promises /\ promise[c].state = "pending"
        /\ ThenableFor(js, c) = {} /\ FreshPairs(c) = {} /\ GettersFor(frames, c) = {}
    BY <1>8, <2>2, <2>3
  <2>5. PICK k \in 1..MaxPairs :
               /\ r = <<c, k>> /\ r \in Pairs
               /\ pairs[<<c, k>>] = "none"
               /\ \A j \in 1..MaxPairs : j < k => pairs[<<c, j>>] # "none"
    BY <1>9, <2>1, <2>2, <2>3
  <2>6. PICK x : x = [kind |-> "then", promise |-> None, arg |-> r]
    OBVIOUS
  <2>7. x \in Frames /\ x.kind # "getter"
    BY <2>5, <2>6 DEF Frames
  <2>8. PICK fr : fr = <<x>>
    OBVIOUS
  <2>9. SameFrames(fr, Promises) /\ frames' = fr
    BY <1>1, <2>2, <2>6, <2>7, <2>8, SameFramesCalled
  <2>10. PICK Q : Q = Promises \ {c} /\ SameJobs(js, Q)
    BY <1>8, <2>2, <2>3
  <2>11. Born' = Born /\ c \in Born
    BY <2>2, <2>4 DEF Born
  <2>12. PromiseInv'
    BY <1>1, <2>2, <2>11 DEF PromiseInv, ResultsBorn, HandledInv, TrackerExact, IntactPromisesAdopted
  <2>13. js \in Seq(Jobs) /\ JobsCanRun(js)
    BY <2>10 DEF SameJobs
  <2>14. /\ pairs' \in [Pairs -> {"none", "fresh", "resolved"}] /\ PairsNumbered' /\ JobsCanRun(js)'
         /\ FreshPairs(c)' = FreshPairs(c) \cup {r}
         /\ \A q \in Promises \ {c} : FreshPairs(q)' = FreshPairs(q)
    <3>1. pairs' = [pairs EXCEPT ![r] = "fresh"] /\ pairs[r] = "none"
      BY <2>2, <2>5
    <3> QED BY <1>1, <2>4, <2>5, <2>11, <2>13, <3>1, PairMade
  <2>15. \A q \in Q : /\ FreshPairs(q)' = FreshPairs(q)
                      /\ (promise[q].state = "pending")' <=> promise[q].state = "pending"
    BY <2>2, <2>10, <2>14
  <2>16. /\ Lone(FreshPairs(c)') /\ Lone(ThenableFor(js, c)) /\ Lone(GettersFor(fr, c))
         /\ FreshPairs(c)' = {} \/ ThenableFor(js, c) = {}
         /\ FreshPairs(c)' = {} \/ GettersFor(fr, c) = {}
         /\ ThenableFor(js, c) = {} \/ GettersFor(fr, c) = {}
         /\ (promise[c].state = "pending")' <=>
              (FreshPairs(c)' # {} \/ ThenableFor(js, c) # {} \/ GettersFor(fr, c) # {})
    <3>1. GettersFor(fr, c) = {}
      BY <2>4, <2>9 DEF SameFrames
    <3>2. (promise[c].state = "pending")'
      BY <2>2, <2>4
    <3>3. FreshPairs(c)' = {r}
      BY <2>4, <2>14
    <3> QED BY <2>4, <3>1, <3>2, <3>3 DEF Lone
  <2>17. SettlersInv'
    <3>1. job_list' = js /\ frames' = fr /\ SameFrames(fr, Q)
      BY <2>2, <2>9, <2>10 DEF SameFrames
    <3> QED BY <1>1, <2>10, <2>11, <2>14, <2>15, <2>16, <3>1, SettlersKept
  <2>18. IdsInOrder'
    <3>1. e.arg \notin Promises
      BY <2>2, PromisesAssumption DEF Values
    <3>2. Cardinality(AdoptionsIn(js)) = Cardinality(Adoptions)
      BY <1>4, <1>8, <2>2, <3>1
    <3>3. job_list' = js /\ UNCHANGED registered
      BY <2>2
    <3> QED BY <1>1, <3>2, <3>3, NoIdTaken DEF IdsInOrder
  <2> QED BY <2>12, <2>17, <2>18, PartsAfterwards
<1> QED BY <1>10, <1>11, <1>12, <1>13, <1>14 DEF Job

-----------------------------------------------------------------------------
(* What can resume an async function. *)

(* Of what can resume f nothing was added, and there is still one. *)
AwaitsKept(f) ==
  /\ Lone(At(job_list', AwaitJobsOf(f))) /\ Lone(AwaitedBy(f)')
  /\ \A p \in Promises : Lone(At(promise'[p].reactions, AwaitsOf(f)))
  /\ At(job_list', AwaitJobsOf(f)) = {} \/ AwaitedBy(f)' = {}
  /\ At(job_list', AwaitJobsOf(f)) # {} \/ AwaitedBy(f)' # {} =>
       At(job_list, AwaitJobsOf(f)) # {} \/ AwaitedBy(f) # {}

(* The same of a job list and of a stack. *)
AwaitJobsKept(js, f) ==
  /\ js \in Seq(Jobs) /\ Lone(At(js, AwaitJobsOf(f)))
  /\ At(js, AwaitJobsOf(f)) # {} => At(job_list, AwaitJobsOf(f)) # {}

FramesKept(fs, f) ==
  /\ fs \in Seq(Frames) /\ Lone(At(fs, FramesOf(f)))
  /\ At(fs, FramesOf(f)) # {} => At(frames, FramesOf(f)) # {}

(* Several jobs are queued behind a job list ... *)
LEMMA AwaitJobsBehind ==
  ASSUME NEW f, NEW js, AwaitJobsKept(js, f), NEW R \in Seq(Jobs)
  PROVE  /\ At(R, AwaitJobsOf(f)) = {} => At(js \o R, AwaitJobsOf(f)) = At(js, AwaitJobsOf(f))
         /\ At(js, AwaitJobsOf(f)) = {} /\ Lone(At(R, AwaitJobsOf(f))) =>
              Lone(At(js \o R, AwaitJobsOf(f)))
<1>1. js \in Seq(Jobs)
  BY DEF AwaitJobsKept
<1> QED BY <1>1, AtBehind

(* ... one that resumes f is, where there was none, or one that does not ... *)
LEMMA AwaitJobsAppended ==
  ASSUME NEW f, NEW js, AwaitJobsKept(js, f), NEW e \in Jobs
  PROVE  /\ e \notin AwaitJobsOf(f) => AwaitJobsKept(Append(js, e), f)
         /\ e \in AwaitJobsOf(f) /\ At(js, AwaitJobsOf(f)) = {} =>
              Lone(At(Append(js, e), AwaitJobsOf(f)))
<1>1. js \in Seq(Jobs)
  BY DEF AwaitJobsKept
<1>2. Append(js, e) \in Seq(Jobs)
  BY <1>1, AppendProperties
<1>3. /\ e \notin AwaitJobsOf(f) => At(Append(js, e), AwaitJobsOf(f)) = At(js, AwaitJobsOf(f))
      /\ e \in AwaitJobsOf(f) /\ At(js, AwaitJobsOf(f)) = {} =>
           Lone(At(Append(js, e), AwaitJobsOf(f)))
  BY <1>1, AtAppended
<1> QED BY <1>2, <1>3, Zenon DEF AwaitJobsKept

(* ... or the first one is taken. *)
LEMMA AwaitJobsTaken ==
  ASSUME NEW f, AwaitAlone(f), job_list \in Seq(Jobs), job_list # <<>>
  PROVE  /\ AwaitJobsKept(Tail(job_list), f)
         /\ Head(job_list) \in AwaitJobsOf(f) =>
              At(Tail(job_list), AwaitJobsOf(f)) = {} /\ At(job_list, AwaitJobsOf(f)) # {}
<1>1. Lone(At(job_list, AwaitJobsOf(f)))
  BY DEF AwaitAlone
<1>2. /\ Tail(job_list) \in Seq(Jobs) /\ Lone(At(Tail(job_list), AwaitJobsOf(f)))
      /\ At(Tail(job_list), AwaitJobsOf(f)) # {} => At(job_list, AwaitJobsOf(f)) # {}
      /\ Head(job_list) \in AwaitJobsOf(f) =>
           At(Tail(job_list), AwaitJobsOf(f)) = {} /\ At(job_list, AwaitJobsOf(f)) # {}
  BY <1>1, AtTaken
<1> QED BY <1>2, Zenon DEF AwaitJobsKept

(* User code is called that is not the body of f, or comes back. *)
LEMMA FramesPushedKept ==
  ASSUME NEW f, NEW fs, FramesKept(fs, f), NEW x \in Frames
  PROVE  /\ x \notin FramesOf(f) => FramesKept(<<x>> \o fs, f)
         /\ x \in FramesOf(f) /\ At(fs, FramesOf(f)) = {} => Lone(At(<<x>> \o fs, FramesOf(f)))
<1>1. fs \in Seq(Frames) /\ Lone(At(fs, FramesOf(f)))
  BY DEF FramesKept
<1>2. <<x>> \o fs \in Seq(Frames)
  BY <1>1, ConcatProperties
<1>3. ASSUME x \notin FramesOf(f) PROVE FramesKept(<<x>> \o fs, f)
  <2>1. /\ Lone(At(<<x>> \o fs, FramesOf(f)))
        /\ At(<<x>> \o fs, FramesOf(f)) # {} => At(fs, FramesOf(f)) # {}
    BY <1>1, <1>3, AtPushed
  <2> QED BY <1>2, <2>1, Zenon DEF FramesKept
<1>4. ASSUME x \in FramesOf(f), At(fs, FramesOf(f)) = {} PROVE Lone(At(<<x>> \o fs, FramesOf(f)))
  BY <1>1, <1>4, AtPushed
<1> QED BY <1>3, <1>4

(* A C function is returned to. *)
LEMMA FramesPoppedKept ==
  ASSUME NEW f, AwaitAlone(f), frames \in Seq(Frames), frames # <<>>
  PROVE  /\ FramesKept(Tail(frames), f)
         /\ Head(frames) \in FramesOf(f) =>
              At(Tail(frames), FramesOf(f)) = {} /\ At(frames, FramesOf(f)) # {}
<1>1. Lone(At(frames, FramesOf(f)))
  BY DEF AwaitAlone
<1>2. /\ Tail(frames) \in Seq(Frames) /\ Lone(At(Tail(frames), FramesOf(f)))
      /\ At(Tail(frames), FramesOf(f)) # {} => At(frames, FramesOf(f)) # {}
      /\ Head(frames) \in FramesOf(f) =>
           At(Tail(frames), FramesOf(f)) = {} /\ At(frames, FramesOf(f)) # {}
  BY <1>1, AtTaken
<1> QED BY <1>2, Zenon DEF FramesKept

(* No reaction is added or taken. *)
LEMMA AwaitsQuiet ==
  ASSUME NEW f, AwaitAlone(f), NEW js, job_list' = js, AwaitJobsKept(js, f),
         \A p \in Promises : At(promise'[p].reactions, AwaitsOf(f)) = At(promise[p].reactions, AwaitsOf(f))
  PROVE  AwaitsKept(f)
<1>1. AwaitedBy(f)' = AwaitedBy(f)
  BY DEF AwaitedBy
<1> QED BY <1>1 DEF AwaitsKept, AwaitAlone, AwaitJobsKept

(* The reactions of a promise are queued. *)
LEMMA AwaitsFulfilled ==
  ASSUME SettlingInv, NEW f, AwaitAlone(f), NEW p \in Promises,
         NEW v \in Values \cup {None, TypeError}, NEW b \in BOOLEAN,
         NEW js, NEW fs, AwaitJobsKept(js, f), FulfillOrReject(p, v, b, js, fs)
  PROVE  AwaitsKept(f)
<1>1. promise \in [Promises -> PromiseRecords]
  BY DEF SettlingInv, Typed
<1>2. CASE promise[p].state # "pending"
  <2>1. promise' = promise /\ job_list' = js
    BY <1>2 DEF FulfillOrReject
  <2> QED BY <2>1, AwaitsQuiet
<1>3. CASE promise[p].state = "pending"
  <2>1. PICK s : s = promise[p].reactions
    OBVIOUS
  <2>2. s \in Seq(ReactionRecords) /\ Len(s) \in Nat
    BY <1>1, <2>1, LenProperties DEF PromiseRecords
  <2>3. PICK R : R = [i \in 1..Len(s) |-> ReactionJob(s[i], b, v)]
    OBVIOUS
  <2>4. PICK jl : jl = js \o R
    OBVIOUS
  <2>5. /\ job_list' = jl /\ promise'[p].reactions = <<>>
        /\ \A q \in Promises \ {p} : promise'[q] = promise[q]
    <3>1. /\ promise' = [promise EXCEPT ![p].reactions = <<>>, ![p].result = v,
                           ![p].state = IF b THEN "rejected" ELSE "fulfilled"]
          /\ job_list' = js \o [i \in 1..Len(promise[p].reactions) |->
                                 ReactionJob(promise[p].reactions[i], b, v)]
      BY <1>3 DEF FulfillOrReject
    <3>2. job_list' = jl
      BY <2>1, <2>3, <2>4, <3>1
    <3>3. \A q \in Promises \ {p} : promise'[q] = promise[q]
      BY <1>1, <3>1
    <3>4. promise'[p].reactions = <<>>
      BY <1>1, <3>1 DEF PromiseRecords
    <3> QED BY <3>2, <3>3, <3>4
  <2>6. /\ R \in Seq(Jobs) /\ Len(R) = Len(s)
        /\ \A i \in 1..Len(s) : R[i] \in AwaitJobsOf(f) <=> s[i] \in AwaitsOf(f)
    <3>1. \A i \in 1..Len(s) : s[i] \in ReactionRecords
      BY <2>2, ElementOfSeq
    <3>2. \A i \in 1..Len(s) : /\ ReactionJob(s[i], b, v) \in Jobs
                               /\ ReactionJob(s[i], b, v) \in AwaitJobsOf(f) <=> s[i] \in AwaitsOf(f)
      BY <3>1 DEF ReactionJob, Jobs, ReactionJobs, AwaitJobsOf
    <3> QED BY <2>2, <2>3, <3>2
  <2>7. At(R, AwaitJobsOf(f)) = At(s, AwaitsOf(f)) /\ Lone(At(s, AwaitsOf(f)))
    BY <2>1, <2>6 DEF At, AwaitAlone
  <2>8. At(promise'[p].reactions, AwaitsOf(f)) = {}
    BY <2>5 DEF At
  <2>9. \A q \in Promises : Lone(At(promise'[q].reactions, AwaitsOf(f)))
    BY <2>5, <2>8 DEF Lone, AwaitAlone
  <2>10. AwaitedBy(f)' = AwaitedBy(f) \ {p}
    BY <2>5, <2>8 DEF AwaitedBy
  <2>11. p \in AwaitedBy(f) <=> At(s, AwaitsOf(f)) # {}
    BY <2>1 DEF AwaitedBy
  <2>13. CASE At(s, AwaitsOf(f)) = {}
    <3>1. At(jl, AwaitJobsOf(f)) = At(js, AwaitJobsOf(f))
      <4>1. R \in Seq(Jobs) /\ At(R, AwaitJobsOf(f)) = {}
        BY <2>6, <2>7, <2>13
      <4>2. At(js \o R, AwaitJobsOf(f)) = At(js, AwaitJobsOf(f))
        BY <4>1, AwaitJobsBehind
      <4> QED BY <2>4, <4>2
    <3>2. AwaitedBy(f)' = AwaitedBy(f)
      BY <2>10, <2>11, <2>13
    <3> QED BY <2>5, <2>9, <3>1, <3>2 DEF AwaitsKept, AwaitAlone, AwaitJobsKept
  <2>14. CASE At(s, AwaitsOf(f)) # {}
    <3>1. AwaitedBy(f) = {p}
      BY <2>11, <2>14 DEF AwaitAlone, Lone
    <3>2. AwaitedBy(f)' = {}
      BY <2>10, <3>1
    <3>3. At(js, AwaitJobsOf(f)) = {}
      BY <3>1 DEF AwaitAlone, AwaitJobsKept
    <3>4. Lone(At(R, AwaitJobsOf(f)))
      BY <2>7
    <3>5. Lone(At(jl, AwaitJobsOf(f)))
      <4>1. R \in Seq(Jobs)
        BY <2>6
      <4>2. Lone(At(js \o R, AwaitJobsOf(f)))
        BY <3>3, <3>4, <4>1, AwaitJobsBehind
      <4> QED BY <2>4, <4>2
    <3> QED BY <2>5, <2>9, <3>1, <3>2, <3>5 DEF AwaitsKept, Lone
  <2> QED BY <2>13, <2>14
<1> QED BY <1>2, <1>3

(* A resolving function is called. *)
LEMMA AwaitsResolved ==
  ASSUME SettlingInv, NEW f, AwaitAlone(f), NEW r \in Pairs,
         NEW v \in Values \cup {None, TypeError}, NEW b \in BOOLEAN,
         NEW js, NEW fs, AwaitJobsKept(js, f), Resolve(r, b, v, js, fs)
  PROVE  AwaitsKept(f)
<1>1. r[1] \in Promises
  BY DEF Pairs
<1>2. CASE FulfillOrReject(r[1], v, b, js, fs)
  BY <1>1, <1>2, AwaitsFulfilled
<1>3. CASE FulfillOrReject(r[1], TypeError, TRUE, js, fs)
  BY <1>1, <1>3, AwaitsFulfilled
<1>4. CASE job_list' = js /\ UNCHANGED promise
  BY <1>4, AwaitsQuiet
<1>5. CASE v \in Promises /\ job_list' = Append(js, ThenableJob(r[1], v)) /\ UNCHANGED promise
  <2>1. PICK e : e = ThenableJob(r[1], v)
    OBVIOUS
  <2>2. e \in Jobs /\ e \notin AwaitJobsOf(f)
    BY <1>1, <1>5, <2>1 DEF ThenableJob, Jobs, ThenableJobs, AwaitJobsOf
  <2>3. PICK jl : jl = Append(js, e)
    OBVIOUS
  <2>4. AwaitJobsKept(jl, f)
    <3>1. AwaitJobsKept(Append(js, e), f)
      BY <2>2, AwaitJobsAppended
    <3> QED BY <2>3, <3>1
  <2>5. job_list' = jl /\ \A p \in Promises : promise'[p] = promise[p]
    BY <1>5, <2>1, <2>3
  <2> QED BY <2>4, <2>5, AwaitsQuiet
<1> QED BY <1>2, <1>3, <1>4, <1>5 DEF Resolve

(* What perform_promise_then does to the reaction lists and to the job list. *)
LEMMA ThenReactions ==
  ASSUME SettlingInv, NEW p \in Born, NEW rd \in ReactionRecords, NEW B \in SUBSET Fresh,
         NEW js, PerformThen(p, rd, B, js)
  PROVE  /\ p \in Promises /\ promise[p].reactions \in Seq(ReactionRecords)
         /\ \A q \in Promises \ {p} : promise'[q].reactions = promise[q].reactions
         /\ promise[p].state = "pending" =>
              promise'[p].reactions = Append(promise[p].reactions, rd) /\ job_list' = js
         /\ promise[p].state # "pending" =>
              /\ promise'[p].reactions = promise[p].reactions
              /\ job_list' = Append(js, ReactionJob(rd, promise[p].state = "rejected", promise[p].result))
         /\ ReactionJob(rd, promise[p].state = "rejected", promise[p].result) \in Jobs
<1>1. p \in Promises /\ promise[p].state # "none" /\ p \notin B
  BY DEF Born, Fresh
<1>2. promise[p] \in PromiseRecords /\ promise[p].reactions \in Seq(ReactionRecords)
  BY <1>1 DEF SettlingInv, Typed, PromiseRecords
<1>3. promise'[p] = IF promise[p].state = "pending"
                    THEN [promise[p] EXCEPT !.reactions = Append(promise[p].reactions, rd), !.is_handled = TRUE]
                    ELSE [promise[p] EXCEPT !.is_handled = TRUE]
  BY <1>1 DEF PerformThen
<1>4. \A q \in Promises \ {p} : promise'[q].reactions = promise[q].reactions
  <2> SUFFICES ASSUME NEW q \in Promises \ {p} PROVE promise'[q].reactions = promise[q].reactions
    OBVIOUS
  <2>1. CASE q \in B
    <3>1. promise[q].state = "none" /\ promise'[q] = Pending
      BY <2>1 DEF Fresh, Born, PerformThen
    <3>2. promise[q].reactions = <<>>
      BY <3>1 DEF SettlingInv, HandledInv
    <3> QED BY <3>1, <3>2, PendingRecord
  <2>2. CASE q \notin B
    <3>1. promise'[q] = promise[q]
      BY <2>2 DEF PerformThen
    <3> QED BY <3>1
  <2> QED BY <2>1, <2>2
<1>5. CASE promise[p].state = "pending"
  <2>1. promise'[p] = [promise[p] EXCEPT !.reactions = Append(promise[p].reactions, rd), !.is_handled = TRUE]
    BY <1>3, <1>5
  <2>2. promise'[p].reactions = Append(promise[p].reactions, rd)
    BY <1>2, <2>1 DEF PromiseRecords
  <2>3. job_list' = js
    BY <1>5 DEF PerformThen
  <2>4. ReactionJob(rd, promise[p].state = "rejected", promise[p].result) \in Jobs
    BY <1>2 DEF ReactionJob, Jobs, ReactionJobs, PromiseRecords
  <2> QED BY <1>1, <1>2, <1>4, <1>5, <2>2, <2>3, <2>4
<1>6. CASE promise[p].state # "pending"
  <2>1. promise'[p] = [promise[p] EXCEPT !.is_handled = TRUE]
    BY <1>3, <1>6
  <2>2. promise'[p].reactions = promise[p].reactions
    BY <1>2, <2>1 DEF PromiseRecords
  <2>3. job_list' = Append(js, ReactionJob(rd, promise[p].state = "rejected", promise[p].result))
    BY <1>6 DEF PerformThen
  <2>4. ReactionJob(rd, promise[p].state = "rejected", promise[p].result) \in Jobs
    BY <1>2 DEF ReactionJob, Jobs, ReactionJobs, PromiseRecords
  <2> QED BY <1>1, <1>2, <1>4, <1>6, <2>2, <2>3, <2>4
<1> QED BY <1>5, <1>6

(* A reaction is registered that does not resume f. *)
LEMMA AwaitsThen ==
  ASSUME SettlingInv, NEW f, AwaitAlone(f), NEW p \in Born, NEW rd \in ReactionRecords,
         rd \notin AwaitsOf(f), NEW B \in SUBSET Fresh,
         NEW js, AwaitJobsKept(js, f), PerformThen(p, rd, B, js)
  PROVE  AwaitsKept(f)
<1>1. PICK e : e = ReactionJob(rd, promise[p].state = "rejected", promise[p].result)
  OBVIOUS
<1>2. /\ p \in Promises /\ promise[p].reactions \in Seq(ReactionRecords)
      /\ \A q \in Promises \ {p} : promise'[q].reactions = promise[q].reactions
      /\ promise[p].state = "pending" =>
           promise'[p].reactions = Append(promise[p].reactions, rd) /\ job_list' = js
      /\ promise[p].state # "pending" => promise'[p].reactions = promise[p].reactions /\ job_list' = Append(js, e)
      /\ e \in Jobs
  <2>1. /\ p \in Promises /\ promise[p].reactions \in Seq(ReactionRecords)
        /\ \A q \in Promises \ {p} : promise'[q].reactions = promise[q].reactions
        /\ promise[p].state = "pending" =>
             promise'[p].reactions = Append(promise[p].reactions, rd) /\ job_list' = js
        /\ promise[p].state # "pending" =>
             /\ promise'[p].reactions = promise[p].reactions
             /\ job_list' = Append(js, ReactionJob(rd, promise[p].state = "rejected", promise[p].result))
        /\ ReactionJob(rd, promise[p].state = "rejected", promise[p].result) \in Jobs
    BY ThenReactions
  <2> QED BY <1>1, <2>1
<1>3. CASE promise[p].state = "pending"
  <2>1. At(Append(promise[p].reactions, rd), AwaitsOf(f)) = At(promise[p].reactions, AwaitsOf(f))
    <3>1. promise[p].reactions \in Seq(ReactionRecords)
      BY <1>2
    <3> QED BY <3>1, AtAppended
  <2>2. \A q \in Promises : At(promise'[q].reactions, AwaitsOf(f)) = At(promise[q].reactions, AwaitsOf(f))
    BY <1>2, <1>3, <2>1
  <2>3. job_list' = js
    BY <1>2, <1>3
  <2> QED BY <2>2, <2>3, AwaitsQuiet
<1>4. CASE promise[p].state # "pending"
  <2>1. e \notin AwaitJobsOf(f)
    BY <1>1 DEF ReactionJob, AwaitJobsOf
  <2>2. AwaitJobsKept(Append(js, e), f)
    BY <1>2, <2>1, AwaitJobsAppended
  <2>3. PICK jl : jl = Append(js, e)
    OBVIOUS
  <2>4. job_list' = jl /\ AwaitJobsKept(jl, f)
    BY <1>2, <1>4, <2>2, <2>3
  <2>5. \A q \in Promises : At(promise'[q].reactions, AwaitsOf(f)) = At(promise[q].reactions, AwaitsOf(f))
    BY <1>2, <1>4
  <2> QED BY <2>4, <2>5, AwaitsQuiet
<1> QED BY <1>3, <1>4

(* A promise is made. *)
LEMMA AwaitsMade ==
  ASSUME SettlingInv, NEW f, AwaitAlone(f), NEW q \in Fresh,
         promise' = [promise EXCEPT ![q] = Pending], NEW js, job_list' = js, AwaitJobsKept(js, f)
  PROVE  AwaitsKept(f)
<1>1. q \in Promises /\ promise[q].reactions = <<>>
  BY DEF Fresh, Born, SettlingInv, HandledInv
<1>2. promise'[q] = Pending /\ \A p \in Promises \ {q} : promise'[p] = promise[p]
  BY <1>1 DEF SettlingInv, Typed
<1>3. \A p \in Promises : At(promise'[p].reactions, AwaitsOf(f)) = At(promise[p].reactions, AwaitsOf(f))
  BY <1>1, <1>2, PendingRecord
<1> QED BY <1>3, AwaitsQuiet

(* What is on the stack after a resolving function was called. *)
LEMMA FramesResolved ==
  ASSUME NEW f, NEW r \in Pairs, NEW b, NEW v, NEW js, NEW fs, FramesKept(fs, f),
         Resolve(r, b, v, js, fs), NEW fr, frames' = fr
  PROVE  FramesKept(fr, f)
<1>1. r[1] \in Promises
  BY DEF Pairs
<1>2. CASE fr = fs
  BY <1>2
<1>3. CASE v \in Thenables \cup Patched /\ fr = <<[kind |-> "getter", promise |-> r[1], arg |-> v]>> \o fs
  <2>1. PICK x : x = [kind |-> "getter", promise |-> r[1], arg |-> v]
    OBVIOUS
  <2>2. x \in Frames /\ x \notin FramesOf(f)
    BY <1>1, <1>3, <2>1 DEF Frames, FramesOf
  <2>3. FramesKept(<<x>> \o fs, f)
    BY <2>2, FramesPushedKept
  <2> QED BY <1>3, <2>1, <2>3
<1> QED BY <1>2, <1>3 DEF Resolve, FulfillOrReject

(* js_promise_resolve_function_call puts no frame of an async function on the stack. *)
LEMMA FramesResolvedNone ==
  ASSUME NEW f, NEW r \in Pairs, NEW b, NEW v, NEW js, NEW fs, FramesKept(fs, f), At(fs, FramesOf(f)) = {},
         Resolve(r, b, v, js, fs), NEW fr, frames' = fr
  PROVE  At(fr, FramesOf(f)) = {}
<1>1. r[1] \in Promises /\ fs \in Seq(Frames) /\ Lone(At(fs, FramesOf(f)))
  BY DEF Pairs, FramesKept
<1>2. CASE fr = fs
  BY <1>2
<1>3. CASE v \in Thenables \cup Patched /\ fr = <<[kind |-> "getter", promise |-> r[1], arg |-> v]>> \o fs
  <2>1. PICK x : x = [kind |-> "getter", promise |-> r[1], arg |-> v]
    OBVIOUS
  <2>2. x \in Frames /\ x \notin FramesOf(f)
    BY <1>1, <1>3, <2>1 DEF Frames, FramesOf
  <2>3. At(<<x>> \o fs, FramesOf(f)) # {} => At(fs, FramesOf(f)) # {}
    BY <1>1, <2>2, AtPushed
  <2> QED BY <1>3, <2>1, <2>3
<1> QED BY <1>2, <1>3 DEF Resolve, FulfillOrReject

(* A function that did not change its state. *)
LEMMA AloneKept ==
  ASSUME NEW f, AwaitAlone(f), AwaitsKept(f), NEW fs, frames' = fs, FramesKept(fs, f), async'[f] = async[f]
  PROVE  AwaitAlone(f)'
BY DEF AwaitAlone, AwaitsKept, FramesKept

(* What holds of the lists as they are. *)
LEMMA KeptAsIs ==
  ASSUME Typed, NEW f, AwaitAlone(f)
  PROVE  AwaitJobsKept(job_list, f) /\ FramesKept(frames, f)
BY DEF Typed, AwaitAlone, AwaitJobsKept, FramesKept

(* AwaitInv is inductive, given the other two: what a script calls ... *)
LEMMA ScriptAwaits ==
  ASSUME SettlingInv, AsyncInv, AwaitInv, Script
  PROVE  AwaitInv'
<1> SUFFICES ASSUME NEW f \in Asyncs PROVE AwaitAlone(f)'
  BY DEF AwaitInv
<1>1. AwaitAlone(f) /\ Typed
  BY DEF AwaitInv, SettlingInv
<1>2. PICK js : js = job_list
  OBVIOUS
<1>3. PICK fs : fs = frames
  OBVIOUS
<1>4. AwaitJobsKept(js, f) /\ FramesKept(fs, f)
  BY <1>1, <1>2, <1>3, KeptAsIs
<1>5. ASSUME NEW p \in Promises, NewPromise(p) PROVE AwaitAlone(f)'
  <2>1. /\ p \in Fresh /\ promise' = [promise EXCEPT ![p] = Pending]
        /\ job_list' = js /\ frames' = fs /\ async'[f] = async[f]
    BY <1>2, <1>3, <1>5 DEF NewPromise
  <2>2. AwaitsKept(f)
    BY <1>1, <1>4, <2>1, AwaitsMade
  <2> QED BY <1>1, <1>4, <2>1, <2>2, AloneKept
<1>6. ASSUME NEW r \in Pairs, NEW b \in BOOLEAN, NEW v \in Values, CallResolve(r, b, v) PROVE AwaitAlone(f)'
  <2>1. Resolve(r, b, v, js, fs) /\ async'[f] = async[f]
    BY <1>2, <1>3, <1>6 DEF CallResolve
  <2>2. PICK fr : frames' = fr
    OBVIOUS
  <2>3. FramesKept(fr, f)
    BY <1>4, <2>1, <2>2, FramesResolved
  <2>4. AwaitsKept(f)
    BY <1>1, <1>4, <2>1, AwaitsResolved
  <2> QED BY <1>1, <2>1, <2>2, <2>3, <2>4, AloneKept
<1>7. ASSUME NEW p \in Promises, NEW q \in Promises, NEW on \in SUBSET BOOLEAN, Then(p, q, on)
      PROVE  AwaitAlone(f)'
  <2>1. PICK rd : rd = UserReaction(on, First(q))
    OBVIOUS
  <2>2. PICK B : B = {q}
    OBVIOUS
  <2>3. /\ p \in Born /\ q \in Fresh /\ MoreReactions
        /\ PerformThen(p, rd, B, js) /\ frames' = fs /\ async'[f] = async[f]
    BY <1>2, <1>3, <1>7, <2>1, <2>2 DEF Then
  <2>4. rd \in ReactionRecords
    <3>1. Cardinality(Adoptions) \in Nat
      BY <1>1, AdoptionsFinite DEF Typed, Adoptions
    <3>2. NextReaction \in 0..MaxReactions
      BY <2>3, <3>1, IdLeft, PartsOfInvariant
    <3>3. First(q) \in Pairs
      BY PromisesAssumption DEF First, Pairs
    <3> QED BY <2>1, <3>2, <3>3 DEF UserReaction, ReactionRecords
  <2>5. rd \notin AwaitsOf(f)
    BY <2>1 DEF UserReaction, AwaitsOf
  <2>6. B \in SUBSET Fresh
    BY <2>2, <2>3
  <2>7. AwaitsKept(f)
    BY <1>1, <1>4, <2>3, <2>4, <2>5, <2>6, AwaitsThen
  <2> QED BY <1>1, <1>4, <2>3, <2>7, AloneKept
<1>8. ASSUME NEW g \in Asyncs, NEW q \in Promises, CallAsync(g, q) PROVE AwaitAlone(f)'
  <2>1. PICK x : x = [kind |-> "async", promise |-> None, arg |-> g]
    OBVIOUS
  <2>2. x \in Frames /\ (x \in FramesOf(f) <=> f = g)
    BY <2>1 DEF Frames, FramesOf
  <2>3. PICK fr : fr = <<x>> \o fs
    OBVIOUS
  <2>4. /\ q \in Fresh /\ promise' = [promise EXCEPT ![q] = Pending] /\ job_list' = js /\ frames' = fr
        /\ async[g] = "none" /\ async' = [async EXCEPT ![g] = "running"]
    BY <1>2, <1>3, <1>8, <2>1, <2>3 DEF CallAsync
  <2>5. AwaitsKept(f)
    BY <1>1, <1>4, <2>4, AwaitsMade
  <2>6. CASE f = g
    <3>1. At(frames, FramesOf(f)) = {} /\ At(job_list, AwaitJobsOf(f)) = {} /\ AwaitedBy(f) = {}
      BY <1>1, <2>4, <2>6 DEF AwaitAlone
    <3>2. Lone(At(<<x>> \o fs, FramesOf(f)))
      BY <1>3, <1>4, <2>2, <2>6, <3>1, FramesPushedKept
    <3>3. Lone(At(fr, FramesOf(f)))
      BY <2>3, <3>2
    <3>4. async'[f] = "running"
      BY <2>4, <2>6 DEF AsyncInv
    <3>5. At(job_list', AwaitJobsOf(f)) = {} /\ AwaitedBy(f)' = {}
      BY <2>5, <3>1 DEF AwaitsKept
    <3> QED BY <2>4, <2>5, <3>3, <3>4, <3>5 DEF AwaitAlone, AwaitsKept
  <2>7. CASE f # g
    <3>1. FramesKept(<<x>> \o fs, f)
      BY <1>4, <2>2, <2>7, FramesPushedKept
    <3>2. FramesKept(fr, f)
      BY <2>3, <3>1
    <3>3. async'[f] = async[f]
      BY <2>4, <2>7 DEF AsyncInv
    <3> QED BY <1>1, <2>4, <2>5, <3>2, <3>3, AloneKept
  <2> QED BY <2>6, <2>7
<1> QED BY <1>5, <1>6, <1>7, <1>8 DEF Script

(* The body of f ends: nothing was waiting to resume it. *)
LEMMA AwaitDone ==
  ASSUME NEW f, AwaitAlone(f), async[f] = "running", AwaitsKept(f), NEW fs, frames' = fs,
         FramesKept(fs, f), At(fs, FramesOf(f)) = {}
  PROVE  AwaitAlone(f)'
<1>1. At(job_list, AwaitJobsOf(f)) = {} /\ AwaitedBy(f) = {}
  BY DEF AwaitAlone
<1>2. At(job_list', AwaitJobsOf(f)) = {} /\ AwaitedBy(f)' = {}
  BY <1>1 DEF AwaitsKept
<1> QED BY <1>2 DEF AwaitAlone, AwaitsKept, FramesKept

(* The body of f awaits: nothing was waiting to resume it, one thing will. *)
LEMMA AwaitBegins ==
  ASSUME SettlingInv, NEW f \in Asyncs, AwaitAlone(f), async[f] = "running", async'[f] = "waiting",
         NEW fs, frames' = fs, FramesKept(fs, f), At(fs, FramesOf(f)) = {},
         NEW p \in Born, NEW rd \in ReactionRecords, PerformThen(p, rd, {}, job_list)
  PROVE  AwaitAlone(f)'
<1>1. /\ At(job_list, AwaitJobsOf(f)) = {} /\ AwaitedBy(f) = {}
      /\ \A q \in Promises : At(promise[q].reactions, AwaitsOf(f)) = {}
  BY DEF AwaitAlone, AwaitedBy
<1>2. PICK e : e = ReactionJob(rd, promise[p].state = "rejected", promise[p].result)
  OBVIOUS
<1>3. /\ p \in Promises /\ promise[p].reactions \in Seq(ReactionRecords)
      /\ \A q \in Promises \ {p} : promise'[q].reactions = promise[q].reactions
      /\ promise[p].state = "pending" =>
           promise'[p].reactions = Append(promise[p].reactions, rd) /\ job_list' = job_list
      /\ promise[p].state # "pending" =>
           promise'[p].reactions = promise[p].reactions /\ job_list' = Append(job_list, e)
      /\ e \in Jobs
  <2>1. /\ p \in Promises /\ promise[p].reactions \in Seq(ReactionRecords)
        /\ \A q \in Promises \ {p} : promise'[q].reactions = promise[q].reactions
        /\ promise[p].state = "pending" =>
             promise'[p].reactions = Append(promise[p].reactions, rd) /\ job_list' = job_list
        /\ promise[p].state # "pending" =>
             /\ promise'[p].reactions = promise[p].reactions
             /\ job_list' = Append(job_list, ReactionJob(rd, promise[p].state = "rejected", promise[p].result))
        /\ ReactionJob(rd, promise[p].state = "rejected", promise[p].result) \in Jobs
    BY ThenReactions
  <2> QED BY <1>2, <2>1
<1>4. job_list \in Seq(Jobs)
  BY DEF SettlingInv, Typed
<1>5. /\ rd \notin AwaitsOf(f) =>
           At(Append(promise[p].reactions, rd), AwaitsOf(f)) = At(promise[p].reactions, AwaitsOf(f))
      /\ rd \in AwaitsOf(f) /\ At(promise[p].reactions, AwaitsOf(f)) = {} =>
           Lone(At(Append(promise[p].reactions, rd), AwaitsOf(f)))
  <2>1. promise[p].reactions \in Seq(ReactionRecords)
    BY <1>3
  <2> QED BY <2>1, AtAppended
<1>6. /\ e \notin AwaitJobsOf(f) => At(Append(job_list, e), AwaitJobsOf(f)) = At(job_list, AwaitJobsOf(f))
      /\ e \in AwaitJobsOf(f) /\ At(job_list, AwaitJobsOf(f)) = {} =>
           Lone(At(Append(job_list, e), AwaitJobsOf(f)))
  <2>1. e \in Jobs
    BY <1>3
  <2> QED BY <1>4, <2>1, AtAppended
<1>7. Lone({})
  BY DEF Lone
<1>8. CASE promise[p].state = "pending"
  <2>1. Lone(At(promise'[p].reactions, AwaitsOf(f)))
    BY <1>1, <1>3, <1>5, <1>7, <1>8
  <2>2. \A q \in Promises \ {p} : At(promise'[q].reactions, AwaitsOf(f)) = {}
    BY <1>1, <1>3
  <2>3. \A q \in AwaitedBy(f)' : q = p
    BY <2>2 DEF AwaitedBy
  <2>4. Lone(AwaitedBy(f)') /\ At(job_list', AwaitJobsOf(f)) = {}
    BY <1>1, <1>3, <1>8, <2>3 DEF Lone
  <2>5. \A q \in Promises : Lone(At(promise'[q].reactions, AwaitsOf(f)))
    BY <1>7, <2>1, <2>2
  <2> QED BY <1>7, <2>4, <2>5 DEF AwaitAlone
<1>9. CASE promise[p].state # "pending"
  <2>1. \A q \in Promises : At(promise'[q].reactions, AwaitsOf(f)) = {}
    BY <1>1, <1>3, <1>9
  <2>2. AwaitedBy(f)' = {}
    BY <2>1 DEF AwaitedBy
  <2>3. Lone(At(job_list', AwaitJobsOf(f)))
    BY <1>1, <1>3, <1>6, <1>7, <1>9
  <2> QED BY <1>7, <2>1, <2>2, <2>3 DEF AwaitAlone
<1> QED BY <1>8, <1>9

(* ... what user code comes back to ... *)
LEMMA ReturnAwaits ==
  ASSUME SettlingInv, AsyncInv, AwaitInv, Return
  PROVE  AwaitInv'
<1> SUFFICES ASSUME NEW f \in Asyncs PROVE AwaitAlone(f)'
  BY DEF AwaitInv
<1>1. AwaitAlone(f) /\ Typed /\ frames \in Seq(Frames) /\ job_list \in Seq(Jobs)
  BY DEF AwaitInv, SettlingInv, Typed
<1>2. PICK js : js = job_list
  OBVIOUS
<1>3. PICK fs : fs = Tail(frames)
  OBVIOUS
<1>4. PICK x : x = Head(frames)
  OBVIOUS
<1>5. AwaitJobsKept(js, f)
  BY <1>1, <1>2, KeptAsIs
<1>6. ASSUME frames # <<>>
      PROVE  x \in Frames /\ FramesKept(fs, f) /\ (x \in FramesOf(f) => At(fs, FramesOf(f)) = {})
  <2>1. FramesKept(Tail(frames), f) /\ (Head(frames) \in FramesOf(f) => At(Tail(frames), FramesOf(f)) = {})
    BY <1>1, <1>6, FramesPoppedKept
  <2>2. x \in Frames
    BY <1>1, <1>4, <1>6, FramePopped
  <2> QED BY <1>3, <1>4, <2>1, <2>2
<1>7. ASSUME FramesKept(fs, f), NEW r \in Pairs, NEW b \in BOOLEAN, NEW v \in Values, Resolve(r, b, v, js, fs),
             NEW fr, frames' = fr
      PROVE  AwaitsKept(f) /\ FramesKept(fr, f)
  <2>1. FramesKept(fr, f)
    BY <1>7, FramesResolved
  <2>2. v \in Values \cup {None, TypeError}
    OBVIOUS
  <2>3. AwaitsKept(f)
    BY <1>1, <1>5, <1>7, <2>2, AwaitsResolved
  <2> QED BY <2>1, <2>3
<1>8. PICK fr : frames' = fr
  OBVIOUS
<1>9. ASSUME NEW b \in BOOLEAN, NEW v \in Values, HandlerReturns(b, v) PROVE AwaitAlone(f)'
  <2>1. frames # <<>> /\ x.kind = "handler" /\ Resolve(x.arg, b, v, js, fs) /\ async'[f] = async[f]
    BY <1>2, <1>3, <1>4, <1>9 DEF HandlerReturns, Top
  <2>2. x.arg \in Pairs /\ FramesKept(fs, f)
    BY <1>6, <2>1 DEF Frames
  <2>3. AwaitsKept(f) /\ FramesKept(fr, f)
    BY <1>7, <1>8, <2>1, <2>2
  <2> QED BY <1>1, <1>8, <2>1, <2>3, AloneKept
<1>10. ASSUME NEW b \in BOOLEAN, NEW v \in Values, ThenReturns(b, v) PROVE AwaitAlone(f)'
  <2>1. /\ frames # <<>> /\ x.kind = "then" /\ async'[f] = async[f]
        /\ \/ Resolve(x.arg, TRUE, v, js, fs)
           \/ frames' = fs /\ job_list' = js /\ promise' = promise
    BY <1>2, <1>3, <1>4, <1>10 DEF ThenReturns, Top
  <2>2. x.arg \in Pairs /\ FramesKept(fs, f)
    BY <1>6, <2>1 DEF Frames
  <2>3. CASE Resolve(x.arg, TRUE, v, js, fs)
    <3>1. AwaitsKept(f) /\ FramesKept(fr, f)
      BY <1>7, <1>8, <2>2, <2>3
    <3> QED BY <1>1, <1>8, <2>1, <3>1, AloneKept
  <2>4. CASE frames' = fs /\ job_list' = js /\ promise' = promise
    <3>1. AwaitsKept(f)
      BY <1>1, <1>5, <2>4, AwaitsQuiet
    <3> QED BY <1>1, <2>1, <2>2, <2>4, <3>1, AloneKept
  <2> QED BY <2>1, <2>3, <2>4
<1>11. ASSUME x.kind = "async", frames # <<>>
       PROVE  /\ x.arg \in Asyncs /\ async[x.arg] = "running" /\ (x.arg = f => At(fs, FramesOf(f)) = {})
              /\ FramesKept(fs, f) /\ First(capability[x.arg]) \in Pairs
  <2>1. x \in FramesOf(x.arg) /\ x.arg \in Asyncs /\ async[x.arg] = "running"
    BY <1>1, <1>4, <1>11, RunningFrame
  <2>2. capability[x.arg] \in Promises
    BY <2>1 DEF AsyncInv
  <2>3. First(capability[x.arg]) \in Pairs
    BY <2>2, PromisesAssumption DEF First, Pairs
  <2> QED BY <1>6, <1>11, <2>1, <2>3
<1>12. ASSUME NEW b \in BOOLEAN, NEW v \in Values, AsyncReturns(b, v) PROVE AwaitAlone(f)'
  <2>1. /\ frames # <<>> /\ x.kind = "async" /\ async' = [async EXCEPT ![x.arg] = "done"]
        /\ Resolve(First(capability[x.arg]), b, v, js, fs)
    BY <1>2, <1>3, <1>4, <1>12 DEF AsyncReturns, Top
  <2>2. /\ x.arg \in Asyncs /\ async[x.arg] = "running" /\ (x.arg = f => At(fs, FramesOf(f)) = {})
        /\ FramesKept(fs, f) /\ First(capability[x.arg]) \in Pairs
    BY <1>11, <2>1
  <2>3. AwaitsKept(f) /\ FramesKept(fr, f)
    BY <1>7, <1>8, <2>1, <2>2
  <2>4. CASE x.arg = f
    <3>1. At(fr, FramesOf(f)) = {}
      <4>1. PICK r \in Pairs : r = First(capability[x.arg])
        BY <2>2
      <4>2. Resolve(r, b, v, js, fs)
        BY <2>1, <4>1
      <4>3. FramesKept(fs, f) /\ At(fs, FramesOf(f)) = {}
        BY <2>2, <2>4
      <4> QED BY <1>8, <4>2, <4>3, FramesResolvedNone
    <3> QED BY <1>1, <1>8, <2>2, <2>3, <2>4, <3>1, AwaitDone
  <2>5. CASE x.arg # f
    <3>1. async'[f] = async[f]
      BY <2>1, <2>5 DEF AsyncInv
    <3> QED BY <1>1, <1>8, <2>3, <3>1, AloneKept
  <2> QED BY <2>4, <2>5
<1>13. ASSUME NEW o \in {"function", "other"} \cup Plain, GetterReturns(o) PROVE AwaitAlone(f)'
  <2>1. /\ frames # <<>> /\ x.kind = "getter" /\ frames' = fs /\ async'[f] = async[f]
        /\ \/ job_list' = Append(js, ThenableJob(x.promise, None)) /\ promise' = promise
           \/ FulfillOrReject(x.promise, x.arg, FALSE, js, fs)
           \/ o \in Plain /\ FulfillOrReject(x.promise, o, TRUE, js, fs)
    BY <1>2, <1>3, <1>4, <1>13 DEF GetterReturns, Top, FulfillOrReject
  <2>2. x.promise \in Promises /\ x.arg \in Patched \cup Thenables /\ FramesKept(fs, f)
    BY <1>6, <2>1 DEF Frames
  <2>3. CASE job_list' = Append(js, ThenableJob(x.promise, None)) /\ promise' = promise
    <3>1. PICK e : e = ThenableJob(x.promise, None)
      OBVIOUS
    <3>2. e \in Jobs /\ e \notin AwaitJobsOf(f)
      BY <2>2, <3>1 DEF ThenableJob, Jobs, ThenableJobs, AwaitJobsOf
    <3>3. PICK jl : jl = Append(js, e)
      OBVIOUS
    <3>4. AwaitJobsKept(jl, f)
      <4>1. AwaitJobsKept(Append(js, e), f)
        BY <1>5, <3>2, AwaitJobsAppended
      <4> QED BY <3>3, <4>1
    <3>5. job_list' = jl /\ \A p \in Promises : promise'[p] = promise[p]
      BY <2>3, <3>1, <3>3
    <3>6. AwaitsKept(f)
      BY <1>1, <3>4, <3>5, AwaitsQuiet
    <3> QED BY <1>1, <2>1, <2>2, <3>6, AloneKept
  <2>4. CASE FulfillOrReject(x.promise, x.arg, FALSE, js, fs)
    <3>1. x.arg \in Values \cup {None, TypeError}
      BY <2>2, PromisesAssumption DEF Values
    <3>2. AwaitsKept(f)
      BY <1>1, <1>5, <2>2, <2>4, <3>1, AwaitsFulfilled
    <3> QED BY <1>1, <2>1, <2>2, <3>2, AloneKept
  <2>5. CASE o \in Plain /\ FulfillOrReject(x.promise, o, TRUE, js, fs)
    <3>1. o \in Values \cup {None, TypeError}
      BY <2>5 DEF Values
    <3>2. AwaitsKept(f)
      BY <1>1, <1>5, <2>2, <2>5, <3>1, AwaitsFulfilled
    <3> QED BY <1>1, <2>1, <2>2, <3>2, AloneKept
  <2> QED BY <2>1, <2>3, <2>4, <2>5
<1>14. ASSUME NEW v \in Values, AsyncAwaits(v) PROVE AwaitAlone(f)'
  <2>1. /\ frames # <<>> /\ x.kind = "async" /\ frames' = fs /\ (v \in Born => MoreReactions)
        /\ async' = [async EXCEPT ![x.arg] = "waiting"]
        /\ \/ v \in Born /\ PerformThen(v, AwaitReaction(x.arg), {}, js)
           \/ /\ v \in Plain /\ promise' = promise
              /\ job_list' = Append(js, ReactionJob([AwaitReaction(x.arg) EXCEPT !.id = 0], FALSE, v))
    BY <1>2, <1>3, <1>4, <1>14 DEF AsyncAwaits, Top
  <2>2. /\ x.arg \in Asyncs /\ async[x.arg] = "running" /\ (x.arg = f => At(fs, FramesOf(f)) = {})
        /\ FramesKept(fs, f)
    BY <1>11, <2>1
  <2>3. /\ x.arg = f => async'[f] = "waiting"
        /\ x.arg # f => async'[f] = async[f]
    BY <2>1, <2>2 DEF AsyncInv
  <2>4. CASE v \in Born /\ PerformThen(v, AwaitReaction(x.arg), {}, js)
    <3>1. PICK rd : rd = AwaitReaction(x.arg)
      OBVIOUS
    <3>2. NextReaction \in 0..MaxReactions
      <4>1. Cardinality(Adoptions) \in Nat
        BY <1>1, AdoptionsFinite DEF Adoptions
      <4> QED BY <2>1, <2>4, <4>1, IdLeft, PartsOfInvariant
    <3>3. rd \in ReactionRecords /\ (x.arg # f => rd \notin AwaitsOf(f))
      BY <2>2, <3>1, <3>2 DEF AwaitReaction, ReactionRecords, AwaitsOf
    <3>4. PerformThen(v, rd, {}, js)
      BY <2>4, <3>1
    <3>5. CASE x.arg = f
      <4>1. PerformThen(v, rd, {}, job_list)
        BY <1>2, <3>4
      <4>2. async[f] = "running" /\ async'[f] = "waiting" /\ At(fs, FramesOf(f)) = {}
        BY <2>2, <2>3, <3>5
      <4> QED BY <1>1, <2>1, <2>2, <2>4, <3>3, <4>1, <4>2, AwaitBegins
    <3>6. CASE x.arg # f
      <4>1. PICK B \in SUBSET Fresh : B = {}
        OBVIOUS
      <4>2. PerformThen(v, rd, B, js) /\ rd \notin AwaitsOf(f) /\ v \in Born
        BY <2>4, <3>3, <3>4, <3>6, <4>1
      <4>3. AwaitsKept(f)
        BY <1>1, <1>5, <3>3, <4>2, AwaitsThen
      <4> QED BY <1>1, <2>1, <2>2, <2>3, <3>6, <4>3, AloneKept
    <3> QED BY <3>5, <3>6
  <2>5. CASE /\ v \in Plain /\ promise' = promise
             /\ job_list' = Append(js, ReactionJob([AwaitReaction(x.arg) EXCEPT !.id = 0], FALSE, v))
    <3>1. PICK e : e = ReactionJob([AwaitReaction(x.arg) EXCEPT !.id = 0], FALSE, v)
      OBVIOUS
    <3>2. e = [kind |-> "reaction",
               rd |-> [id |-> 0, handler |-> "await", on |-> {}, target |-> x.arg],
               is_reject |-> FALSE, arg |-> v]
      BY <3>1 DEF ReactionJob, AwaitReaction
    <3>3. e \in Jobs /\ (x.arg # f => e \notin AwaitJobsOf(f))
      BY <2>2, <3>2, PromisesAssumption DEF Jobs, ReactionJobs, ReactionRecords, AwaitJobsOf, AwaitsOf
    <3>4. PICK jl : jl = Append(js, e)
      OBVIOUS
    <3>5. job_list' = jl
      BY <2>5, <3>1, <3>4
    <3>6. /\ e \notin AwaitJobsOf(f) => AwaitJobsKept(jl, f)
          /\ e \in AwaitJobsOf(f) /\ At(js, AwaitJobsOf(f)) = {} => Lone(At(jl, AwaitJobsOf(f)))
      <4>1. /\ e \notin AwaitJobsOf(f) => AwaitJobsKept(Append(js, e), f)
            /\ e \in AwaitJobsOf(f) /\ At(js, AwaitJobsOf(f)) = {} => Lone(At(Append(js, e), AwaitJobsOf(f)))
        BY <1>5, <3>3, AwaitJobsAppended
      <4> QED BY <3>4, <4>1
    <3>7. CASE e \notin AwaitJobsOf(f)
      <4>1. AwaitsKept(f)
        BY <1>1, <2>5, <3>5, <3>6, <3>7, AwaitsQuiet
      <4>2. CASE x.arg = f
        BY <1>1, <2>1, <2>2, <4>1, <4>2, AwaitDone
      <4>3. CASE x.arg # f
        BY <1>1, <2>1, <2>2, <2>3, <4>1, <4>3, AloneKept
      <4> QED BY <4>2, <4>3
    <3>8. CASE e \in AwaitJobsOf(f)
      <4>1. x.arg = f
        BY <3>3, <3>8
      <4>2. At(job_list, AwaitJobsOf(f)) = {} /\ AwaitedBy(f) = {} /\ async'[f] = "waiting"
        BY <1>1, <2>2, <2>3, <4>1 DEF AwaitAlone
      <4>3. Lone(At(jl, AwaitJobsOf(f)))
        BY <1>2, <3>6, <3>8, <4>2
      <4>4. /\ AwaitedBy(f)' = {}
            /\ \A p \in Promises : Lone(At(promise'[p].reactions, AwaitsOf(f)))
        BY <1>1, <2>5, <4>2 DEF AwaitedBy, AwaitAlone
      <4>5. Lone(AwaitedBy(f)') /\ Lone(At(fs, FramesOf(f))) /\ At(fs, FramesOf(f)) = {}
        BY <2>2, <4>1, <4>4 DEF FramesKept, Lone
      <4> QED BY <2>1, <3>5, <4>2, <4>3, <4>4, <4>5 DEF AwaitAlone
    <3> QED BY <3>7, <3>8
  <2> QED BY <2>1, <2>4, <2>5
<1> QED BY <1>9, <1>10, <1>12, <1>13, <1>14 DEF Return

(* A job that resumes f is of f, and f waits for it. *)
LEMMA ResumedFunction ==
  ASSUME SettlingInv, AwaitInv, job_list # <<>>, NEW e, e = Head(job_list),
         e.kind = "reaction", e.rd.handler = "await"
  PROVE  /\ e \in Jobs /\ e.rd.target \in Asyncs
         /\ \A f : e \in AwaitJobsOf(f) <=> f = e.rd.target
         /\ async[e.rd.target] = "waiting"
<1>1. job_list \in Seq(Jobs)
  BY DEF SettlingInv, Typed
<1>2. e \in Jobs
  BY <1>1, JobTaken
<1>3. e \in ReactionJobs /\ e.rd \in ReactionRecords
  BY <1>2 DEF Jobs, ReactionJobs, ThenableJobs
<1>4. e.rd.target \in Asyncs /\ e.rd \in AwaitsOf(e.rd.target)
  BY <1>3 DEF ReactionRecords, AwaitsOf
<1>5. e \in AwaitJobsOf(e.rd.target)
  BY <1>3, <1>4 DEF ReactionJobs, AwaitJobsOf
<1>6. \A f : e \in AwaitJobsOf(f) => f = e.rd.target
  BY DEF AwaitJobsOf, AwaitsOf
<1>7. AwaitAlone(e.rd.target)
  BY <1>4 DEF AwaitInv
<1>8. At(job_list, AwaitJobsOf(e.rd.target)) # {}
  BY <1>1, <1>5, <1>7, AwaitJobsTaken
<1> QED BY <1>2, <1>4, <1>5, <1>6, <1>7, <1>8 DEF AwaitAlone

(* ... and what a job does. *)
LEMMA JobAwaits ==
  ASSUME SettlingInv, AsyncInv, AwaitInv, Job
  PROVE  AwaitInv'
<1> SUFFICES ASSUME NEW f \in Asyncs PROVE AwaitAlone(f)'
  BY DEF AwaitInv
<1>1. AwaitAlone(f) /\ Typed /\ frames \in Seq(Frames) /\ job_list \in Seq(Jobs)
  BY DEF AwaitInv, SettlingInv, Typed
<1>2. PICK js : js = Tail(job_list)
  OBVIOUS
<1>3. PICK e : e = Head(job_list)
  OBVIOUS
<1>4. PICK fs : fs = frames
  OBVIOUS
<1>5. job_list # <<>> /\ frames = <<>>
  BY DEF Job, RunHandler, RunPassOn, RunAwait, RunAdopt, RunThen, JobReady
<1>6. /\ e \in Jobs /\ AwaitJobsKept(js, f)
      /\ e \in AwaitJobsOf(f) => At(js, AwaitJobsOf(f)) = {} /\ At(job_list, AwaitJobsOf(f)) # {}
  <2>1. /\ AwaitJobsKept(Tail(job_list), f)
        /\ Head(job_list) \in AwaitJobsOf(f) =>
             At(Tail(job_list), AwaitJobsOf(f)) = {} /\ At(job_list, AwaitJobsOf(f)) # {}
    BY <1>1, <1>5, AwaitJobsTaken
  <2>2. e \in Jobs
    BY <1>1, <1>3, <1>5, JobTaken
  <2> QED BY <1>2, <1>3, <2>1, <2>2
<1>7. FramesKept(fs, f) /\ At(fs, FramesOf(f)) = {}
  <2>1. FramesKept(fs, f)
    BY <1>1, <1>4, KeptAsIs
  <2>2. At(fs, FramesOf(f)) = {}
    BY <1>4, <1>5 DEF At
  <2> QED BY <2>1, <2>2
<1>8. ASSUME NEW y \in Frames
      PROVE  /\ y \notin FramesOf(f) => FramesKept(<<y>>, f)
             /\ y \in FramesOf(f) => Lone(At(<<y>>, FramesOf(f)))
  <2>1. <<y>> \o fs = <<y>>
    <3>1. <<y>> \in Seq(Frames)
      OBVIOUS
    <3>2. <<y>> \o <<>> = <<y>>
      BY <3>1, ConcatEmptySeq
    <3> QED BY <1>4, <1>5, <3>2
  <2>2. /\ y \notin FramesOf(f) => FramesKept(<<y>> \o fs, f)
        /\ y \in FramesOf(f) => Lone(At(<<y>> \o fs, FramesOf(f)))
    BY <1>7, FramesPushedKept
  <2> QED BY <2>1, <2>2
<1>9. CASE RunHandler
  <2>1. PICK y : y = [kind |-> "handler", promise |-> None, arg |-> e.rd.target]
    OBVIOUS
  <2>2. PICK fr : fr = <<y>>
    OBVIOUS
  <2>3. /\ e.kind = "reaction" /\ e.rd.handler = "user" /\ job_list' = js /\ promise' = promise
        /\ frames' = fr /\ async'[f] = async[f]
    BY <1>2, <1>3, <1>9, <2>1, <2>2 DEF RunHandler, JobReady
  <2>4. e.rd.target \in Pairs
    BY <1>6, <2>3 DEF Jobs, ReactionJobs, ThenableJobs, ReactionRecords
  <2>5. y \in Frames /\ y \notin FramesOf(f)
    BY <2>1, <2>4 DEF Frames, FramesOf
  <2>6. FramesKept(fr, f)
    BY <1>8, <2>2, <2>5
  <2>7. AwaitsKept(f)
    BY <1>1, <1>6, <2>3, AwaitsQuiet
  <2> QED BY <1>1, <2>3, <2>6, <2>7, AloneKept
<1>10. CASE RunPassOn
  <2>1. /\ e.kind = "reaction" /\ e.rd.handler \in {"user", "adopt"} /\ async'[f] = async[f]
        /\ Resolve(e.rd.target, e.is_reject, e.arg, js, fs)
    BY <1>2, <1>3, <1>4, <1>5, <1>10 DEF RunPassOn, JobReady
  <2>2. /\ e.rd.target \in Pairs /\ e.is_reject \in BOOLEAN /\ e.arg \in Values \cup {None, TypeError}
    BY <1>6, <2>1 DEF Jobs, ReactionJobs, ThenableJobs, ReactionRecords
  <2>3. PICK fr : frames' = fr
    OBVIOUS
  <2>4. FramesKept(fr, f)
    BY <1>7, <2>1, <2>2, <2>3, FramesResolved
  <2>5. AwaitsKept(f)
    BY <1>1, <1>6, <2>1, <2>2, AwaitsResolved
  <2> QED BY <1>1, <2>1, <2>3, <2>4, <2>5, AloneKept
<1>11. CASE RunAwait
  <2>1. PICK g : g = e.rd.target
    OBVIOUS
  <2>2. PICK y : y = [kind |-> "async", promise |-> None, arg |-> g]
    OBVIOUS
  <2>3. PICK fr : fr = <<y>>
    OBVIOUS
  <2>4. /\ e.kind = "reaction" /\ e.rd.handler = "await" /\ job_list' = js /\ promise' = promise
        /\ frames' = fr /\ async' = [async EXCEPT ![g] = "running"]
    BY <1>2, <1>3, <1>11, <2>1, <2>2, <2>3 DEF RunAwait, JobReady
  <2>5. g \in Asyncs /\ (e \in AwaitJobsOf(f) <=> f = g) /\ async[g] = "waiting"
    BY <1>3, <1>5, <2>1, <2>4, ResumedFunction
  <2>6. y \in Frames /\ (y \in FramesOf(f) <=> f = g)
    BY <2>2, <2>5 DEF Frames, FramesOf
  <2>7. AwaitsKept(f)
    BY <1>1, <1>6, <2>4, AwaitsQuiet
  <2>8. CASE f = g
    <3>1. At(js, AwaitJobsOf(f)) = {} /\ At(job_list, AwaitJobsOf(f)) # {}
      BY <1>6, <2>5, <2>8
    <3>2. AwaitedBy(f) = {}
      BY <1>1, <3>1 DEF AwaitAlone
    <3>3. AwaitedBy(f)' = {}
      BY <2>4, <3>2 DEF AwaitedBy
    <3>4. Lone(At(fr, FramesOf(f))) /\ async'[f] = "running"
      BY <1>8, <2>3, <2>4, <2>5, <2>6, <2>8 DEF AsyncInv
    <3> QED BY <2>4, <2>7, <3>1, <3>3, <3>4 DEF AwaitAlone, AwaitsKept
  <2>9. CASE f # g
    <3>1. FramesKept(fr, f)
      BY <1>8, <2>3, <2>6, <2>9
    <3>2. async'[f] = async[f]
      BY <2>4, <2>9 DEF AsyncInv
    <3> QED BY <1>1, <2>4, <2>7, <3>1, <3>2, AloneKept
  <2> QED BY <2>8, <2>9
<1>12. ASSUME e.kind = "thenable"
       PROVE  /\ e.promise \in Promises /\ e.arg \in Promises \cup {None} /\ NewPair(e.promise) \in Pairs
              /\ e.arg \in Promises => e.arg \in Born
  <2>1. SettlersInv
    BY PartsOfInvariant
  <2>2. e \in ThenableJobs /\ pairs[<<e.promise, MaxPairs>>] = "none" /\ (e.arg \in Promises => e.arg \in Born)
    BY <1>2, <1>3, <1>5, <1>12, <2>1, SameJobsTaken
  <2>3. e.promise \in Promises /\ e.arg \in Promises \cup {None}
    BY <2>2 DEF ThenableJobs
  <2>4. NewPair(e.promise) \in Pairs
    BY <2>2, <2>3, NewPairFresh DEF SettlingInv
  <2> QED BY <2>2, <2>3, <2>4
<1>13. CASE RunAdopt
  <2>1. PICK rd : rd = AdoptReaction(NewPair(e.promise))
    OBVIOUS
  <2>2. /\ e.kind = "thenable" /\ e.arg \in Promises /\ PerformThen(e.arg, rd, {}, js)
        /\ frames' = fs /\ async'[f] = async[f]
    BY <1>2, <1>3, <1>4, <1>13, <2>1 DEF RunAdopt, JobReady
  <2>3. e.arg \in Born /\ NewPair(e.promise) \in Pairs
    BY <1>12, <2>2
  <2>4. rd \in ReactionRecords /\ rd \notin AwaitsOf(f)
    <3>1. NextReaction \in 0..MaxReactions
      <4>1. Adoptions # {} /\ IdsInOrder
        <5>1. 1 \in 1..Len(job_list) /\ job_list[1] = e
          BY <1>1, <1>3, <1>5, JobTaken
        <5> QED BY <2>2, <5>1 DEF Adoptions, AdoptionsIn, SettlingInv
      <4>2. IsFiniteSet(Adoptions) /\ Cardinality(Adoptions) \in Nat
        BY <1>1, AdoptionsFinite DEF Adoptions
      <4>3. Cardinality(Adoptions) # 0
        BY <4>1, <4>2, FS_EmptySet
      <4>4. Cardinality(Used) \in Nat /\ MaxReactions \in Nat
        BY NextReactionFresh, PromisesAssumption DEF SettlingInv, Typed, IdsInOrder
      <4> QED BY <4>1, <4>2, <4>3, <4>4 DEF IdsInOrder, NextReaction
    <3> QED BY <2>1, <2>3, <3>1 DEF AdoptReaction, ReactionRecords, AwaitsOf
  <2>5. PICK B \in SUBSET Fresh : B = {}
    OBVIOUS
  <2>6. PerformThen(e.arg, rd, B, js)
    BY <2>2, <2>5
  <2>7. AwaitsKept(f)
    BY <1>1, <1>6, <2>3, <2>4, <2>6, AwaitsThen
  <2> QED BY <1>1, <1>7, <2>2, <2>7, AloneKept
<1>14. CASE RunThen
  <2>1. PICK y : y = [kind |-> "then", promise |-> None, arg |-> NewPair(e.promise)]
    OBVIOUS
  <2>2. PICK fr : fr = <<y>>
    OBVIOUS
  <2>3. /\ e.kind = "thenable" /\ job_list' = js /\ promise' = promise
        /\ frames' = fr /\ async'[f] = async[f]
    BY <1>2, <1>3, <1>14, <2>1, <2>2 DEF RunThen, JobReady
  <2>4. NewPair(e.promise) \in Pairs
    BY <1>12, <2>3
  <2>5. y \in Frames /\ y \notin FramesOf(f)
    BY <2>1, <2>4 DEF Frames, FramesOf
  <2>6. FramesKept(fr, f)
    BY <1>8, <2>2, <2>5
  <2>7. AwaitsKept(f)
    BY <1>1, <1>6, <2>3, AwaitsQuiet
  <2> QED BY <1>1, <2>3, <2>6, <2>7, AloneKept
<1> QED BY <1>9, <1>10, <1>11, <1>13, <1>14 DEF Job

-----------------------------------------------------------------------------
(* The states of the async functions. *)

(* AsyncInv is inductive: a function that was called stays called. *)
LEMMA StepAsync ==
  ASSUME SettlingInv, AsyncInv, AwaitInv, Next
  PROVE  AsyncInv'
<1>1. frames \in Seq(Frames) /\ job_list \in Seq(Jobs)
  BY DEF SettlingInv, Typed
<1>2. /\ async \in [Asyncs -> {"none", "running", "waiting", "done"}]
      /\ capability \in [Asyncs -> Promises \cup {None}]
      /\ ran \in [Reactions -> Nat]
      /\ \A f \in Asyncs : async[f] # "none" => capability[f] \in Promises
  BY DEF AsyncInv
<1>3. \A rd : Ran(rd) \in [Reactions -> Nat]
  BY <1>2 DEF Ran
<1>4. ASSUME UNCHANGED <<async, capability>>, ran' = ran \/ \E rd : ran' = Ran(rd) PROVE AsyncInv'
  BY <1>2, <1>3, <1>4 DEF AsyncInv
<1>5. ASSUME NEW f \in Asyncs, async[f] # "none", NEW s \in {"running", "waiting", "done"},
             async' = [async EXCEPT ![f] = s], UNCHANGED capability,
             ran' = ran \/ \E rd : ran' = Ran(rd)
      PROVE  AsyncInv'
  <2>1. /\ async' \in [Asyncs -> {"none", "running", "waiting", "done"}]
        /\ \A g \in Asyncs : async'[g] # "none" => async[g] # "none"
    BY <1>2, <1>5
  <2> QED BY <1>2, <1>3, <1>5, <2>1 DEF AsyncInv
<1>6. ASSUME Top("async") PROVE Head(frames).arg \in Asyncs /\ async[Head(frames).arg] # "none"
  BY <1>1, <1>6, RunningFrame DEF Top
<1>7. CASE Script
  <2>1. ASSUME NEW f \in Asyncs, NEW q \in Promises, CallAsync(f, q) PROVE AsyncInv'
    <3>1. /\ async' = [async EXCEPT ![f] = "running"]
          /\ capability' = [capability EXCEPT ![f] = q] /\ UNCHANGED ran
      BY <2>1 DEF CallAsync
    <3> QED BY <1>2, <3>1 DEF AsyncInv
  <2>2. ASSUME NEW p \in Promises, NewPromise(p) PROVE AsyncInv'
    BY <1>4, <2>2 DEF NewPromise
  <2>3. ASSUME NEW r \in Pairs, NEW b \in BOOLEAN, NEW v \in Values, CallResolve(r, b, v) PROVE AsyncInv'
    BY <1>4, <2>3 DEF CallResolve
  <2>4. ASSUME NEW p \in Promises, NEW q \in Promises, NEW on \in SUBSET BOOLEAN, Then(p, q, on)
        PROVE  AsyncInv'
    BY <1>4, <2>4 DEF Then
  <2> QED BY <1>7, <2>1, <2>2, <2>3, <2>4 DEF Script
<1>8. CASE Return
  <2>1. ASSUME NEW b \in BOOLEAN, NEW v \in Values, HandlerReturns(b, v) \/ ThenReturns(b, v) PROVE AsyncInv'
    BY <1>4, <2>1 DEF HandlerReturns, ThenReturns
  <2>2. ASSUME NEW b \in BOOLEAN, NEW v \in Values, AsyncReturns(b, v) PROVE AsyncInv'
    <3>1. /\ Top("async") /\ async' = [async EXCEPT ![Head(frames).arg] = "done"]
          /\ UNCHANGED <<capability, ran>>
      BY <2>2 DEF AsyncReturns
    <3> QED BY <1>5, <1>6, <3>1
  <2>3. ASSUME NEW o \in {"function", "other"} \cup Plain, GetterReturns(o) PROVE AsyncInv'
    BY <1>4, <2>3 DEF GetterReturns
  <2>4. ASSUME NEW v \in Values, AsyncAwaits(v) PROVE AsyncInv'
    <3>1. /\ Top("async") /\ async' = [async EXCEPT ![Head(frames).arg] = "waiting"]
          /\ UNCHANGED <<capability, ran>>
      BY <2>4 DEF AsyncAwaits
    <3> QED BY <1>5, <1>6, <3>1
  <2> QED BY <1>8, <2>1, <2>2, <2>3, <2>4 DEF Return
<1>9. CASE Job
  <2>1. CASE RunHandler \/ RunPassOn \/ RunAdopt \/ RunThen
    <3>1. UNCHANGED <<async, capability>> /\ (ran' = ran \/ \E rd : ran' = Ran(rd))
      BY <2>1 DEF RunHandler, RunPassOn, RunAdopt, RunThen
    <3> QED BY <1>4, <3>1
  <2>2. CASE RunAwait
    <3>1. PICK e : e = Head(job_list)
      OBVIOUS
    <3>2. /\ job_list # <<>> /\ e.kind = "reaction" /\ e.rd.handler = "await"
          /\ async' = [async EXCEPT ![e.rd.target] = "running"]
          /\ UNCHANGED capability /\ ran' = Ran(e.rd)
      BY <2>2, <3>1 DEF RunAwait, JobReady
    <3>3. e.rd.target \in Asyncs /\ async[e.rd.target] = "waiting"
      BY <3>1, <3>2, ResumedFunction
    <3> QED BY <1>5, <3>2, <3>3
  <2> QED BY <1>9, <2>1, <2>2 DEF Job
<1> QED BY <1>7, <1>8, <1>9 DEF Next

-----------------------------------------------------------------------------
(* The inductive invariant, and what follows from it. *)

PromisesInv == SettlingInv /\ AsyncInv /\ AwaitInv

(* Nothing has been made, queued, called or registered yet. *)
LEMMA InitPromises ==
  ASSUME Init
  PROVE  PromisesInv
<1>1. /\ Unborn \in PromiseRecords /\ Unborn.state = "none" /\ Unborn.result = None
      /\ Unborn.is_handled = FALSE /\ Unborn.reactions = <<>>
  BY DEF Unborn, PromiseRecords
<1>2. \A p \in Promises :
        /\ promise[p].state = "none" /\ promise[p].result = None
        /\ promise[p].is_handled = FALSE /\ promise[p].reactions = <<>>
  BY <1>1 DEF Init
<1>3. Typed
  BY <1>1 DEF Init, Typed
<1>4. Used = {} /\ Adoptions = {}
  BY DEF Init, Used, Adoptions, AdoptionsIn, ToSet
<1>5. IdsInOrder
  <2>1. Cardinality({}) = 0
    BY FS_EmptySet
  <2> QED BY <1>4, <2>1, PromisesAssumption DEF IdsInOrder
<1>6. SettlerInv
  <2> SUFFICES ASSUME NEW p \in Promises
               PROVE  /\ FreshPairs(p) = {} /\ ThenableFor(job_list, p) = {} /\ GettersFor(frames, p) = {}
                      /\ promise[p].state # "pending"
    BY DEF SettlerInv, Lone
  <2>1. FreshPairs(p) = {}
    BY DEF Init, FreshPairs
  <2>2. ThenableFor(job_list, p) = {} /\ GettersFor(frames, p) = {}
    BY DEF Init, ThenableFor, GettersFor
  <2> QED BY <1>2, <2>1, <2>2
<1>7. PairsNumbered /\ JobsCanRun(job_list) /\ GettersBorn(frames)
  BY DEF Init, PairsNumbered, JobsCanRun, GettersBorn, Pairs
<1>8. ResultsBorn /\ IntactPromisesAdopted
  BY <1>2, PromisesAssumption DEF ResultsBorn, IntactPromisesAdopted, Values
<1>9. HandledInv /\ TrackerExact
  BY <1>2 DEF Init, HandledInv, TrackerExact
<1>10. SettlingInv
  BY <1>3, <1>5, <1>6, <1>7, <1>8, <1>9 DEF SettlingInv
<1>11. AsyncInv
  BY DEF Init, AsyncInv
<1>12. AwaitInv
  <2> SUFFICES ASSUME NEW f \in Asyncs PROVE AwaitAlone(f)
    BY DEF AwaitInv
  <2>1. At(job_list, AwaitJobsOf(f)) = {} /\ At(frames, FramesOf(f)) = {}
    BY DEF Init, At
  <2>2. \A p \in Promises : At(promise[p].reactions, AwaitsOf(f)) = {}
    BY <1>2 DEF At
  <2>3. AwaitedBy(f) = {}
    BY <2>2 DEF AwaitedBy
  <2> QED BY <2>1, <2>2, <2>3 DEF AwaitAlone, Lone
<1> QED BY <1>10, <1>11, <1>12 DEF PromisesInv

(* Every step keeps the invariant. *)
LEMMA StepPromises ==
  ASSUME PromisesInv, [Next]_vars
  PROVE  PromisesInv'
<1>1. SettlingInv /\ AsyncInv /\ AwaitInv
  BY DEF PromisesInv
<1>2. CASE Script
  BY <1>1, <1>2, ScriptSettles, ScriptAwaits, StepAsync DEF PromisesInv, Next
<1>3. CASE Return
  BY <1>1, <1>3, ReturnSettles, ReturnAwaits, StepAsync DEF PromisesInv, Next
<1>4. CASE Job
  BY <1>1, <1>4, JobSettles, JobAwaits, StepAsync DEF PromisesInv, Next
<1>5. CASE UNCHANGED vars
  <2>1. SettlingInv'
    <3>1. SettlersInv
      BY <1>1, PartsOfInvariant
    <3>2. PICK js : js = job_list
      OBVIOUS
    <3>3. PICK fs : fs = frames
      OBVIOUS
    <3>4. SameJobs(js, Promises) /\ Cardinality(AdoptionsIn(js)) = Cardinality(Adoptions)
      BY <3>1, <3>2, SameJobsAll DEF Adoptions
    <3>5. SameFrames(fs, Promises)
      BY <3>1, <3>3, SameFramesAll
    <3>6. job_list' = js /\ frames' = fs /\ UNCHANGED <<promise, pairs, tracked, registered>>
      BY <1>5, <3>2, <3>3 DEF vars
    <3> QED BY <1>1, <3>4, <3>5, <3>6, QuietKeeps
  <2>2. AsyncInv' /\ AwaitInv'
    BY <1>1, <1>5 DEF vars, AsyncInv, AwaitInv, AwaitAlone, AwaitedBy
  <2> QED BY <2>1, <2>2 DEF PromisesInv
<1> QED BY <1>2, <1>3, <1>4, <1>5 DEF Next

(* A promise that is settled is not touched by what settles and makes promises, *)
(* and a reaction changes neither its state nor its result.                    *)
LEMMA SettledStays ==
  ASSUME Typed, NEW p \in Settled, Next
  PROVE  promise'[p].state = promise[p].state /\ promise'[p].result = promise[p].result
<1> DEFINE Same == promise'[p].state = promise[p].state /\ promise'[p].result = promise[p].result
<1>1. /\ p \in Promises /\ p \in Born /\ p \notin Fresh /\ promise[p].state # "pending"
      /\ promise \in [Promises -> PromiseRecords] /\ promise[p] \in PromiseRecords
  BY DEF Settled, Fresh, Born, Typed
<1>2. ASSUME promise' = promise PROVE Same
  BY <1>2
<1>3. ASSUME NEW q, NEW v, NEW b, NEW js, NEW fs, FulfillOrReject(q, v, b, js, fs) PROVE Same
  <2>1. CASE q = p
    BY <1>1, <1>3, <2>1 DEF FulfillOrReject
  <2>2. CASE q # p
    <3>1. promise'[p] = promise[p]
      BY <1>1, <1>3, <2>2 DEF FulfillOrReject
    <3> QED BY <3>1
  <2> QED BY <2>1, <2>2
<1>4. ASSUME NEW r, NEW b, NEW v, NEW js, NEW fs, Resolve(r, b, v, js, fs) PROVE Same
  BY <1>2, <1>3, <1>4 DEF Resolve
<1>5. ASSUME NEW q, NEW rd, NEW B \in SUBSET Fresh, NEW js, PerformThen(q, rd, B, js) PROVE Same
  <2>1. CASE q = p
    <3>1. promise'[p] = [promise[p] EXCEPT !.is_handled = TRUE]
      BY <1>1, <1>5, <2>1 DEF PerformThen
    <3> QED BY <1>1, <3>1 DEF PromiseRecords
  <2>2. CASE q # p
    <3>1. promise'[p] = promise[p]
      BY <1>1, <1>5, <2>2 DEF PerformThen
    <3> QED BY <3>1
  <2> QED BY <2>1, <2>2
<1>6. ASSUME NEW q \in Fresh, promise' = [promise EXCEPT ![q] = Pending] PROVE Same
  <2>1. promise'[p] = promise[p]
    BY <1>1, <1>6
  <2> QED BY <2>1
<1> SUFFICES Same
  OBVIOUS
<1> HIDE DEF Same
<1>7. CASE Script
  <2>1. ASSUME NEW q \in Promises, NewPromise(q) PROVE Same
    BY <1>6, <2>1 DEF NewPromise
  <2>2. ASSUME NEW r \in Pairs, NEW b \in BOOLEAN, NEW v \in Values, CallResolve(r, b, v) PROVE Same
    BY <1>4, <2>2 DEF CallResolve
  <2>3. ASSUME NEW q \in Promises, NEW n \in Promises, NEW on \in SUBSET BOOLEAN, Then(q, n, on) PROVE Same
    <3>1. {n} \in SUBSET Fresh /\ PerformThen(q, UserReaction(on, First(n)), {n}, job_list)
      BY <2>3 DEF Then
    <3> QED BY <1>5, <3>1
  <2>4. ASSUME NEW f \in Asyncs, NEW q \in Promises, CallAsync(f, q) PROVE Same
    BY <1>6, <2>4 DEF CallAsync
  <2> QED BY <1>7, <2>1, <2>2, <2>3, <2>4 DEF Script
<1>8. CASE Return
  <2>1. ASSUME NEW b \in BOOLEAN, NEW v \in Values, HandlerReturns(b, v) PROVE Same
    BY <1>4, <2>1 DEF HandlerReturns
  <2>2. ASSUME NEW b \in BOOLEAN, NEW v \in Values, ThenReturns(b, v) PROVE Same
    BY <1>2, <1>4, <2>2 DEF ThenReturns
  <2>3. ASSUME NEW b \in BOOLEAN, NEW v \in Values, AsyncReturns(b, v) PROVE Same
    BY <1>4, <2>3 DEF AsyncReturns
  <2>4. ASSUME NEW o \in {"function", "other"} \cup Plain, GetterReturns(o) PROVE Same
    BY <1>2, <1>3, <2>4 DEF GetterReturns
  <2>5. ASSUME NEW v \in Values, AsyncAwaits(v) PROVE Same
    <3>1. \/ PerformThen(v, AwaitReaction(Head(frames).arg), {}, job_list)
          \/ promise' = promise
      BY <2>5 DEF AsyncAwaits
    <3>2. {} \in SUBSET Fresh
      OBVIOUS
    <3> QED BY <1>2, <1>5, <3>1, <3>2
  <2> QED BY <1>8, <2>1, <2>2, <2>3, <2>4, <2>5 DEF Return
<1>9. CASE Job
  <2>1. CASE RunHandler \/ RunAwait \/ RunThen
    BY <1>2, <2>1 DEF RunHandler, RunAwait, RunThen
  <2>2. CASE RunPassOn
    BY <1>4, <2>2 DEF RunPassOn
  <2>3. CASE RunAdopt
    <3>1. PerformThen(Head(job_list).arg, AdoptReaction(NewPair(Head(job_list).promise)), {}, Tail(job_list))
      BY <2>3 DEF RunAdopt
    <3>2. {} \in SUBSET Fresh
      OBVIOUS
    <3> QED BY <1>5, <3>1, <3>2
  <2> QED BY <1>9, <2>1, <2>2, <2>3 DEF Job
<1> QED BY <1>7, <1>8, <1>9 DEF Next

(* One settler of one sort counts as one. *)
LEMMA CountedSettlers ==
  ASSUME SettlerInv
  PROVE  OneSettler
<1> SUFFICES ASSUME NEW p \in Promises
             PROVE  Settlers(p) = IF promise[p].state = "pending" THEN 1 ELSE 0
  BY DEF OneSettler
<1>1. PICK A : A = FreshPairs(p)
  OBVIOUS
<1>2. PICK B : B = ThenableFor(job_list, p)
  OBVIOUS
<1>3. PICK C : C = GettersFor(frames, p)
  OBVIOUS
<1>4. /\ Lone(A) /\ Lone(B) /\ Lone(C)
      /\ A = {} \/ B = {}
      /\ A = {} \/ C = {}
      /\ B = {} \/ C = {}
      /\ promise[p].state = "pending" <=> (A # {} \/ B # {} \/ C # {})
  BY <1>1, <1>2, <1>3 DEF SettlerInv
<1>5. ASSUME NEW S, Lone(S), S # {} PROVE Cardinality(S) = 1
  <2>1. PICK x : x \in S
    BY <1>5
  <2>2. S = {x}
    BY <1>5, <2>1 DEF Lone
  <2> QED BY <2>2, FS_Singleton
<1>6. Cardinality({}) = 0
  BY FS_EmptySet
<1>7. Settlers(p) = Cardinality(A) + Cardinality(B) + Cardinality(C)
  BY <1>1, <1>2, <1>3 DEF Settlers
<1>8. CASE promise[p].state = "pending"
  <2>1. \/ Cardinality(A) = 1 /\ Cardinality(B) = 0 /\ Cardinality(C) = 0
        \/ Cardinality(A) = 0 /\ Cardinality(B) = 1 /\ Cardinality(C) = 0
        \/ Cardinality(A) = 0 /\ Cardinality(B) = 0 /\ Cardinality(C) = 1
    BY <1>4, <1>5, <1>6, <1>8
  <2> QED BY <1>7, <1>8, <2>1
<1>9. CASE promise[p].state # "pending"
  <2>1. A = {} /\ B = {} /\ C = {}
    BY <1>4, <1>9
  <2> QED BY <1>6, <1>7, <1>9, <2>1
<1> QED BY <1>8, <1>9

(* Whatever scripts, handlers and thenables do, and however deep they nest in the *)
(* C code that calls them: the inductive invariant of the settling of promises   *)
(* (SettlingInv) and of the resuming of async functions (AsyncInv, AwaitInv).     *)
THEOREM PromisesInvariance == Spec => []PromisesInv
<1>1. Init => PromisesInv
  BY InitPromises
<1>2. PromisesInv /\ [Next]_vars => PromisesInv'
  BY StepPromises
<1> QED BY <1>1, <1>2, PTL DEF Spec

(* promise_state, the resolving functions and the async functions are only ever   *)
(* in the states the C code knows.                                              *)
THEOREM PromiseTypes == Spec => []TypeOK
<1>1. PromisesInv => TypeOK
  BY DEF PromisesInv, SettlingInv, Typed, AsyncInv, TypeOK, PromiseRecords
<1> QED BY <1>1, PromisesInvariance, PTL

(* fulfill_or_reject_promise's "should never happen" does not: a pending promise  *)
(* always has exactly one thing left that can settle it, a settled one none.      *)
THEOREM OneSettlerAlways == Spec => []OneSettler
<1>1. PromisesInv => OneSettler
  BY CountedSettlers DEF PromisesInv, SettlingInv
<1> QED BY <1>1, PromisesInvariance, PTL

(* js_promise_resolve_function_call fulfills no promise with a promise whose then  *)
(* user code leaves alone, however many others user code has replaced the then of. *)
THEOREM PromisesAreAdopted == Spec => []IntactPromisesAdopted
<1>1. PromisesInv => IntactPromisesAdopted
  BY DEF PromisesInv, SettlingInv
<1> QED BY <1>1, PromisesInvariance, PTL

(* The host's rejection tracker is told of exactly the rejected promises nobody   *)
(* reacts to.                                                                   *)
THEOREM TrackerIsExact == Spec => []TrackerExact
<1>1. PromisesInv => TrackerExact
  BY DEF PromisesInv, SettlingInv
<1> QED BY <1>1, PromisesInvariance, PTL

(* promise_state and promise_result of a settled promise never change again. *)
THEOREM SettledIsFinal == Spec => SettledForever
<1> DEFINE Kept == \A p \in Settled : /\ promise[p].state = promise'[p].state
                                      /\ promise[p].result = promise'[p].result
<1>1. PromisesInv /\ [Next]_vars => [Kept]_vars
  <2> SUFFICES ASSUME PromisesInv, Next PROVE Kept
    OBVIOUS
  <2>1. Typed
    BY DEF PromisesInv, SettlingInv
  <2> QED BY <2>1, SettledStays
<1> HIDE DEF Kept
<1>2. Spec => [][Kept]_vars
  BY <1>1, PromisesInvariance, PTL DEF Spec
<1> QED BY <1>2 DEF SettledForever, Kept

(* js_async_function_resolve_call only ever resumes an async function that waits: *)
(* its frame is never entered while it runs, nor after it was freed.              *)
THEOREM ResumesOnlyWaiting == Spec => ResumedOnlyWhenWaiting
<1> DEFINE Resumes == \A f \in Asyncs : (RunAwait /\ Head(job_list).rd.target = f) => async[f] = "waiting"
<1>1. PromisesInv /\ [Next]_vars => [Resumes]_vars
  <2> SUFFICES ASSUME PromisesInv, NEW f \in Asyncs, RunAwait, Head(job_list).rd.target = f
               PROVE  async[f] = "waiting"
    OBVIOUS
  <2>1. job_list # <<>> /\ Head(job_list).kind = "reaction" /\ Head(job_list).rd.handler = "await"
    BY DEF RunAwait, JobReady
  <2>2. SettlingInv /\ AwaitInv
    BY DEF PromisesInv
  <2> QED BY <2>1, <2>2, ResumedFunction
<1> HIDE DEF Resumes
<1>2. Spec => [][Resumes]_vars
  BY <1>1, PromisesInvariance, PTL DEF Spec
<1> QED BY <1>2 DEF ResumedOnlyWhenWaiting, Resumes
=============================================================================
