------------------------------ MODULE Promises ------------------------------
(***************************************************************************)
(* Promises, the job queue and async functions of QuickJS (quickjs.c).      *)
(*                                                                          *)
(* Scripts and handlers are user code.  They run where the C code calls     *)
(* them: frames is the stack of C functions that wait for user code to come  *)
(* back, and while one waits user code may do anything a script can do.  A   *)
(* job starts only on an empty stack, as in js_std_loop.                     *)
(*                                                                          *)
(* The two reaction lists of a promise always have parallel entries, so one  *)
(* sequence stands for both.                                                 *)
(***************************************************************************)
EXTENDS Integers, FiniteSets, Sequences, SequencesExt

CONSTANTS
  Promises,      \* objects of class Promise
  Patched,       \* those whose then user code replaces, for a time or for good
  Plain,         \* values that are not objects
  Thenables,     \* other objects: their then property is up to user code
  Asyncs,        \* activations of async functions
  TypeError,     \* what a promise resolved with itself is rejected with
  None,
  MaxPairs,      \* bound: pairs of resolving functions per promise
  MaxReactions,  \* bound: reactions registered in all
  MaxFrames      \* bound: depth of user code in C code in user code ...

Values == Promises \cup Plain \cup Thenables
Pairs == Promises \X (1..MaxPairs)
Reactions == 1..MaxReactions

VARIABLES
  promise,    \* JSPromiseData of each promise
  pairs,      \* JSPromiseFunctionDataResolved: "none", "fresh" or "resolved"
  job_list,   \* rt->job_list
  frames,     \* the C functions that wait for user code, innermost first
  async,      \* JSAsyncFunctionData: "none", "running", "waiting" or "done"
  capability, \* the promise of each async activation
  tracked,    \* promises the host's rejection tracker holds as unhandled
  registered, \* history: the reactions ever registered at a promise, in order
  ran         \* history: how often each reaction has run

vars == <<promise, pairs, job_list, frames, async, capability, tracked, registered, ran>>

ASSUME PromisesAssumption ==
  /\ MaxPairs \in Nat \ {0} /\ MaxReactions \in Nat /\ MaxFrames \in Nat \ {0}
  /\ Patched \subseteq Promises
  /\ Promises \cap (Plain \cup Thenables) = {} /\ Plain \cap Thenables = {}
  /\ None \notin Values /\ TypeError \notin Values

Unborn == [state |-> "none", result |-> None, is_handled |-> FALSE, reactions |-> <<>>]
Pending == [Unborn EXCEPT !.state = "pending"]

Init ==
  /\ promise = [p \in Promises |-> Unborn]
  /\ pairs = [r \in Pairs |-> "none"]
  /\ job_list = <<>> /\ frames = <<>>
  /\ async = [f \in Asyncs |-> "none"]
  /\ capability = [f \in Asyncs |-> None]
  /\ tracked = {}
  /\ registered = [p \in Promises |-> <<>>]
  /\ ran = [i \in Reactions |-> 0]

Born == {p \in Promises : promise[p].state # "none"}
Settled == {p \in Promises : promise[p].state \in {"fulfilled", "rejected"}}
Fresh == Promises \ Born
First(p) == <<p, 1>>
Used == UNION {ToSet(registered[p]) : p \in Promises}
NextReaction == Cardinality(Used) + 1

(* Bounds, kept so that a job that was queued can always run. *)
AdoptionsIn(jl) == {i \in 1..Len(jl) : jl[i].kind = "thenable" /\ jl[i].arg \in Promises}
Adoptions == AdoptionsIn(job_list)
MoreReactions == Cardinality(Used) + Cardinality(Adoptions) < MaxReactions
MorePairs(p) == pairs[<<p, MaxPairs>>] = "none"

-----------------------------------------------------------------------------
(* Building blocks.  js and fs are the job list and the stack so far. *)
ReactionJob(rd, is_reject, value) ==
  [kind |-> "reaction", rd |-> rd, is_reject |-> is_reject, arg |-> value]

(* adopts is the promise whose js_promise_then the job calls, None if it calls   *)
(* a then of user code.                                                         *)
ThenableJob(p, adopts) == [kind |-> "thenable", promise |-> p, arg |-> adopts]

(* Mutant: the reactions stay in the list. *)
FulfillKeepReactions(p, value, is_reject, js, fs) ==
  /\ promise' = IF promise[p].state # "pending" THEN promise
                ELSE [promise EXCEPT ![p].result = value,
                        ![p].state = IF is_reject THEN "rejected" ELSE "fulfilled"]
  /\ tracked' = IF promise[p].state = "pending" /\ is_reject /\ ~promise[p].is_handled
                THEN tracked \cup {p} ELSE tracked
  /\ job_list' = js /\ frames' = fs

(* Mutant: the reactions are queued in the order of a stack. *)
FulfillReversed(p, value, is_reject, js, fs) ==
  /\ promise' = [promise EXCEPT ![p].reactions = <<>>, ![p].result = value,
                   ![p].state = IF is_reject THEN "rejected" ELSE "fulfilled"]
  /\ tracked' = IF is_reject /\ ~promise[p].is_handled THEN tracked \cup {p} ELSE tracked
  /\ job_list' = js \o [i \in 1..Len(promise[p].reactions) |->
                   ReactionJob(Reverse(promise[p].reactions)[i], is_reject, value)]
  /\ frames' = fs

(* Mutant: JS_PROMISE_FULFILLED + is_reject with an is_reject that is not 0 or 1. *)
FulfillUnnormalised(p, value, is_reject, js, fs) ==
  /\ promise' = [promise EXCEPT ![p].reactions = <<>>, ![p].result = value,
                   ![p].state = IF is_reject THEN "4" ELSE "fulfilled"]
  /\ job_list' = js /\ frames' = fs /\ UNCHANGED tracked

(* fulfill_or_reject_promise. *)
FulfillOrReject(p, value, is_reject, js, fs) ==
  /\ frames' = fs
  /\ \/ /\ promise[p].state # "pending"
        /\ job_list' = js
        /\ UNCHANGED <<promise, tracked>>
     \/ /\ promise[p].state = "pending"
        /\ promise' = [promise EXCEPT ![p].reactions = <<>>, ![p].result = value,
                         ![p].state = IF is_reject THEN "rejected" ELSE "fulfilled"]
        /\ tracked' = IF is_reject /\ ~promise[p].is_handled THEN tracked \cup {p} ELSE tracked
        /\ job_list' = js \o [i \in 1..Len(promise[p].reactions) |->
                                ReactionJob(promise[p].reactions[i], is_reject, value)]

(* Mutant: each of the two functions has an already_resolved of its own. *)
ResolveUnguarded(r, is_reject, value, js, fs) ==
  /\ pairs' = [pairs EXCEPT ![r] = "resolved"]
  /\ \/ /\ is_reject \/ value \notin Promises \cup Thenables
        /\ FulfillOrReject(r[1], value, is_reject, js, fs)
     \/ /\ ~is_reject /\ value \in Promises \ {r[1]}
        /\ job_list' = Append(js, ThenableJob(r[1], value))
        /\ frames' = fs
        /\ UNCHANGED <<promise, tracked>>

(* Mutant: neither already_resolved nor promise_state is looked at. *)
ResolveAgain(r, is_reject, value, js, fs) ==
  /\ pairs' = [pairs EXCEPT ![r] = "resolved"]
  /\ promise' = [promise EXCEPT ![r[1]].result = value,
                   ![r[1]].state = IF is_reject THEN "rejected" ELSE "fulfilled"]
  /\ job_list' = js /\ frames' = fs /\ UNCHANGED tracked

(* Mutant: only objects that are not promises are asked for then. *)
ResolveNoAdoption(r, is_reject, value, js, fs) ==
  \/ /\ pairs[r] = "resolved"
     /\ job_list' = js /\ frames' = fs
     /\ UNCHANGED <<promise, pairs, tracked>>
  \/ /\ pairs[r] = "fresh" /\ value \notin Thenables
     /\ pairs' = [pairs EXCEPT ![r] = "resolved"]
     /\ FulfillOrReject(r[1], value, is_reject, js, fs)

(* js_promise_resolve_function_call.  JS_GetProperty of then finds             *)
(* js_promise_then at a promise, unless user code has replaced it by now; what  *)
(* it finds at such a promise, or at any other object, is up to user code.       *)
Resolve(r, is_reject, value, js, fs) ==
  \/ /\ pairs[r] = "resolved"
     /\ job_list' = js /\ frames' = fs
     /\ UNCHANGED <<promise, pairs, tracked>>
  \/ /\ pairs[r] = "fresh"
     /\ pairs' = [pairs EXCEPT ![r] = "resolved"]
     /\ \/ /\ is_reject \/ value \notin Promises \cup Thenables
           /\ FulfillOrReject(r[1], value, is_reject, js, fs)
        \/ /\ ~is_reject /\ value = r[1]
           /\ FulfillOrReject(r[1], TypeError, TRUE, js, fs)
        \/ /\ ~is_reject /\ value \in Promises \ {r[1]}
           /\ MoreReactions /\ MorePairs(r[1])
           /\ job_list' = Append(js, ThenableJob(r[1], value))
           /\ frames' = fs
           /\ UNCHANGED <<promise, tracked>>
        \/ /\ ~is_reject /\ value \in (Thenables \cup Patched) \ {r[1]}
           /\ Len(fs) < MaxFrames
           /\ frames' = <<[kind |-> "getter", promise |-> r[1], arg |-> value]>> \o fs
           /\ job_list' = js
           /\ UNCHANGED <<promise, tracked>>

(* Mutant: a reaction added to a settled promise does not count as handling it. *)
ThenUnhandled(p, rd, born, js) ==
  /\ promise' = [q \in Promises |->
       CASE q = p /\ promise[p].state = "pending" ->
              [promise[p] EXCEPT !.reactions = Append(@, rd), !.is_handled = TRUE]
         [] q \in born -> Pending
         [] OTHER -> promise[q]]
  /\ job_list' = IF promise[p].state = "pending" THEN js
                 ELSE Append(js, ReactionJob(rd, promise[p].state = "rejected", promise[p].result))
  /\ registered' = [registered EXCEPT ![p] = Append(@, rd.id)]
  /\ UNCHANGED tracked

(* Mutant: the job is queued for a pending promise too. *)
ThenBoth(p, rd, born, js) ==
  /\ promise' = [q \in Promises |->
       CASE q = p -> [promise[p] EXCEPT !.reactions = Append(@, rd), !.is_handled = TRUE]
         [] q \in born -> Pending
         [] OTHER -> promise[q]]
  /\ job_list' = Append(js, ReactionJob(rd, promise[p].state = "rejected", promise[p].result))
  /\ tracked' = tracked \ {p}
  /\ registered' = [registered EXCEPT ![p] = Append(@, rd.id)]

(* perform_promise_then; born are the promises made by the same call. *)
PerformThen(p, rd, born, js) ==
  /\ promise' = [q \in Promises |->
       CASE q = p /\ promise[p].state = "pending" ->
              [promise[p] EXCEPT !.reactions = Append(@, rd), !.is_handled = TRUE]
         [] q = p /\ promise[p].state # "pending" -> [promise[p] EXCEPT !.is_handled = TRUE]
         [] q \in born -> Pending
         [] OTHER -> promise[q]]
  /\ job_list' = IF promise[p].state = "pending" THEN js
                 ELSE Append(js, ReactionJob(rd, promise[p].state = "rejected", promise[p].result))
  /\ tracked' = tracked \ {p}
  /\ registered' = [registered EXCEPT ![p] = Append(@, rd.id)]

(* on: which of the two handlers are functions. *)
UserReaction(on, r) == [id |-> NextReaction, handler |-> "user", on |-> on, target |-> r]
AdoptReaction(r) == [id |-> NextReaction, handler |-> "adopt", on |-> {}, target |-> r]
AwaitReaction(f) == [id |-> NextReaction, handler |-> "await", on |-> {}, target |-> f]

-----------------------------------------------------------------------------
(* What user code may call, on top of whatever is on the stack. *)

(* js_promise_constructor, and with it Promise.withResolvers. *)
NewPromise(p) ==
  /\ p \in Fresh
  /\ promise' = [promise EXCEPT ![p] = Pending]
  /\ pairs' = [pairs EXCEPT ![First(p)] = "fresh"]
  /\ UNCHANGED <<job_list, frames, async, capability, tracked, registered, ran>>

(* A resolving function is called, for the first time or again. *)
CallResolve(r, is_reject, value) ==
  /\ pairs[r] # "none" /\ value \in Plain \cup Thenables \cup Born
  /\ Resolve(r, is_reject, value, job_list, frames)
  /\ UNCHANGED <<async, capability, registered, ran>>

(* js_promise_then, and js_promise_catch (of a promise with the built-in then)   *)
(* with on = {TRUE}.                                                            *)
Then(p, q, on) ==
  /\ p \in Born /\ q \in Fresh /\ MoreReactions
  /\ PerformThen(p, UserReaction(on, First(q)), {q}, job_list)
  /\ pairs' = [pairs EXCEPT ![First(q)] = "fresh"]
  /\ UNCHANGED <<frames, async, capability, ran>>

(* js_async_function_call: its body is user code. *)
CallAsync(f, q) ==
  /\ async[f] = "none" /\ q \in Fresh /\ Len(frames) < MaxFrames
  /\ promise' = [promise EXCEPT ![q] = Pending]
  /\ pairs' = [pairs EXCEPT ![First(q)] = "fresh"]
  /\ async' = [async EXCEPT ![f] = "running"]
  /\ capability' = [capability EXCEPT ![f] = q]
  /\ frames' = <<[kind |-> "async", promise |-> None, arg |-> f]>> \o frames
  /\ UNCHANGED <<job_list, tracked, registered, ran>>

-----------------------------------------------------------------------------
(* User code comes back to the C function that called it. *)
Top(kind) == frames # <<>> /\ Head(frames).kind = kind

(* promise_reaction_job after JS_Call of the handler. *)
HandlerReturns(is_reject, value) ==
  /\ Top("handler") /\ value \in Plain \cup Thenables \cup Born
  /\ Resolve(Head(frames).arg, is_reject, value, job_list, Tail(frames))
  /\ UNCHANGED <<async, capability, registered, ran>>

(* js_promise_resolve_thenable_job after JS_Call of then. *)
ThenReturns(is_reject, value) ==
  /\ Top("then") /\ value \in Plain \cup Born
  /\ \/ /\ is_reject
        /\ Resolve(Head(frames).arg, TRUE, value, job_list, Tail(frames))
     \/ /\ ~is_reject
        /\ frames' = Tail(frames)
        /\ UNCHANGED <<promise, pairs, job_list, tracked>>
  /\ UNCHANGED <<async, capability, registered, ran>>

(* js_promise_resolve_function_call after JS_GetProperty of then. *)
GetterReturns(outcome) ==
  /\ Top("getter")
  /\ LET p == Head(frames).promise
         value == Head(frames).arg
     IN  \/ /\ outcome = "function"
            /\ MorePairs(p)
            /\ job_list' = Append(job_list, ThenableJob(p, None))
            /\ frames' = Tail(frames)
            /\ UNCHANGED <<promise, tracked>>
         \/ /\ outcome = "other"
            /\ FulfillOrReject(p, value, FALSE, job_list, Tail(frames))
         \/ /\ outcome \in Plain
            /\ FulfillOrReject(p, outcome, TRUE, job_list, Tail(frames))
  /\ UNCHANGED <<pairs, async, capability, registered, ran>>

(* js_async_function_resume: the body ends. *)
AsyncReturns(is_reject, value) ==
  /\ Top("async") /\ value \in Plain \cup Thenables \cup Born
  /\ LET f == Head(frames).arg
     IN  /\ Resolve(First(capability[f]), is_reject, value, job_list, Tail(frames))
         /\ async' = [async EXCEPT ![f] = "done"]
  /\ UNCHANGED <<capability, registered, ran>>

(* js_async_function_resume: the body awaits.  js_promise_resolve returns a   *)
(* promise as it is; the one it makes for a value that is no object is fulfilled *)
(* at once and nobody else ever sees it.  To await a thenable is NewPromise,     *)
(* CallResolve with the thenable, and an await of that promise.                  *)
AsyncAwaits(value) ==
  /\ Top("async") /\ value \in Plain \cup Born /\ (value \in Born => MoreReactions)
  /\ LET f == Head(frames).arg
     IN  /\ async' = [async EXCEPT ![f] = "waiting"]
         /\ \/ /\ value \in Born
               /\ PerformThen(value, AwaitReaction(f), {}, job_list)
            \/ /\ value \in Plain
               /\ job_list' = Append(job_list,
                    ReactionJob([AwaitReaction(f) EXCEPT !.id = 0], FALSE, value))
               /\ UNCHANGED <<promise, tracked, registered>>
  /\ frames' = Tail(frames)
  /\ UNCHANGED <<pairs, capability, ran>>

-----------------------------------------------------------------------------
(* JS_ExecutePendingJob. *)
JobReady(kind) == frames = <<>> /\ job_list # <<>> /\ Head(job_list).kind = kind

Ran(rd) == IF rd.id \in Reactions THEN [ran EXCEPT ![rd.id] = @ + 1] ELSE ran

(* promise_reaction_job with a handler of user code. *)
RunHandler ==
  /\ JobReady("reaction")
  /\ LET e == Head(job_list)
     IN  /\ e.rd.handler = "user" /\ e.is_reject \in e.rd.on
         /\ frames' = <<[kind |-> "handler", promise |-> None, arg |-> e.rd.target]>>
         /\ ran' = Ran(e.rd)
  /\ job_list' = Tail(job_list)
  /\ UNCHANGED <<promise, pairs, async, capability, tracked, registered>>

(* promise_reaction_job without a handler, or with resolving functions as handlers. *)
RunPassOn ==
  /\ JobReady("reaction")
  /\ LET e == Head(job_list)
     IN  /\ e.rd.handler = "adopt" \/ (e.rd.handler = "user" /\ e.is_reject \notin e.rd.on)
         /\ Resolve(e.rd.target, e.is_reject, e.arg, Tail(job_list), <<>>)
         /\ ran' = Ran(e.rd)
  /\ UNCHANGED <<async, capability, registered>>

(* js_async_function_resolve_call. *)
RunAwait ==
  /\ JobReady("reaction")
  /\ LET e == Head(job_list)
     IN  /\ e.rd.handler = "await"
         /\ async' = [async EXCEPT ![e.rd.target] = "running"]
         /\ frames' = <<[kind |-> "async", promise |-> None, arg |-> e.rd.target]>>
         /\ ran' = Ran(e.rd)
  /\ job_list' = Tail(job_list)
  /\ UNCHANGED <<promise, pairs, capability, tracked, registered>>

(* js_create_resolving_functions: the first unused number. *)
NewPair(p) == <<p, Cardinality({k \in 1..MaxPairs : pairs[<<p, k>>] # "none"}) + 1>>

(* js_promise_resolve_thenable_job for a promise: js_promise_then with the new  *)
(* resolving functions as handlers; nobody sees the promise that then returns.  *)
RunAdopt ==
  /\ JobReady("thenable")
  /\ LET e == Head(job_list)
         r == NewPair(e.promise)
     IN  /\ e.arg \in Promises
         /\ PerformThen(e.arg, AdoptReaction(r), {}, Tail(job_list))
         /\ pairs' = [pairs EXCEPT ![r] = "fresh"]
  /\ UNCHANGED <<frames, async, capability, ran>>

(* ... and for a then of user code. *)
RunThen ==
  /\ JobReady("thenable")
  /\ LET e == Head(job_list)
         r == NewPair(e.promise)
     IN  /\ e.arg = None
         /\ frames' = <<[kind |-> "then", promise |-> None, arg |-> r]>>
         /\ pairs' = [pairs EXCEPT ![r] = "fresh"]
  /\ job_list' = Tail(job_list)
  /\ UNCHANGED <<promise, async, capability, tracked, registered, ran>>

Script ==
  \/ \E p \in Promises : NewPromise(p)
  \/ \E r \in Pairs, b \in BOOLEAN, v \in Values : CallResolve(r, b, v)
  \/ \E p, q \in Promises, on \in SUBSET BOOLEAN : Then(p, q, on)
  \/ \E f \in Asyncs, q \in Promises : CallAsync(f, q)

Return ==
  \/ \E b \in BOOLEAN, v \in Values :
       HandlerReturns(b, v) \/ ThenReturns(b, v) \/ AsyncReturns(b, v)
  \/ \E o \in {"function", "other"} \cup Plain : GetterReturns(o)
  \/ \E v \in Values : AsyncAwaits(v)

Job == RunHandler \/ RunPassOn \/ RunAwait \/ RunAdopt \/ RunThen

Next == Script \/ Return \/ Job

Spec == Init /\ [][Next]_vars

(* js_std_loop runs jobs while there are any; user code always comes back. *)
FairSpec == Spec /\ WF_vars(Job) /\ WF_vars(Return)
-----------------------------------------------------------------------------
TypeOK ==
  /\ \A p \in Promises :
       /\ promise[p].state \in {"none", "pending", "fulfilled", "rejected"}
       /\ promise[p].result \in Values \cup {None, TypeError}
       /\ promise[p].is_handled \in BOOLEAN
  /\ pairs \in [Pairs -> {"none", "fresh", "resolved"}]
  /\ async \in [Asyncs -> {"none", "running", "waiting", "done"}]
  /\ capability \in [Asyncs -> Promises \cup {None}]
  /\ tracked \subseteq Promises
  /\ ran \in [Reactions -> Nat]

(* Who can still settle p: resolving functions not yet called, a thenable job   *)
(* that will make such functions, a lookup of then that has not come back.      *)
FreshPairs(p) == {r \in Pairs : r[1] = p /\ pairs[r] = "fresh"}
ThenableFor(jl, p) == {i \in 1..Len(jl) : jl[i].kind = "thenable" /\ jl[i].promise = p}
GettersFor(fs, p) == {i \in 1..Len(fs) : fs[i].kind = "getter" /\ fs[i].promise = p}

Settlers(p) ==
  Cardinality(FreshPairs(p)) + Cardinality(ThenableFor(job_list, p)) + Cardinality(GettersFor(frames, p))

(* fulfill_or_reject_promise's "should never happen" never does: a pending      *)
(* promise has exactly one thing that can settle it and a settled one has none, *)
(* however often and from wherever its resolving functions are called.          *)
OneSettler ==
  \A p \in Promises :
    Settlers(p) = IF promise[p].state = "pending" THEN 1 ELSE 0

(* A settled promise keeps its state and its result for ever. *)
SettledForever ==
  [][\A p \in Settled : /\ promise[p].state = promise'[p].state
                        /\ promise[p].result = promise'[p].result]_vars

(* Resolving with a promise adopts its state: no promise is fulfilled with a     *)
(* promise, but for one whose then user code replaces.                           *)
IntactPromisesAdopted ==
  \A p \in Promises :
    promise[p].state = "fulfilled" => promise[p].result \notin Promises \ Patched

(* The reactions of a promise run once each, only after it is settled, and in   *)
(* the order in which then was called, whether before or after it settled.      *)
ReactionsRunInOrder ==
  \A p \in Promises :
    LET seq == registered[p]
    IN  \A i \in 1..Len(seq) :
          /\ ran[seq[i]] <= 1
          /\ ran[seq[i]] = 1 => p \in Settled /\ \A j \in 1..i : ran[seq[j]] = 1

(* An activation of an async function is resumed only while it waits, so its    *)
(* frame is never entered twice nor after it was freed.                         *)
ResumedOnlyWhenWaiting ==
  [][\A f \in Asyncs : (RunAwait /\ Head(job_list).rd.target = f) => async[f] = "waiting"]_vars

(* The rejection tracker holds exactly the rejected promises without reactions. *)
TrackerExact ==
  tracked = {p \in Promises : promise[p].state = "rejected" /\ registered[p] = <<>>}

(* Every reaction of a settled promise runs, if jobs are executed. *)
ReactionsRun ==
  \A p \in Promises, i \in Reactions :
    (p \in Settled /\ i \in ToSet(registered[p])) ~> ran[i] = 1

-----------------------------------------------------------------------------
(* The inductive invariants that PromisesProofs and ReactionsProofs prove.   *)

ReactionRecords ==
  [id : 0..MaxReactions, handler : {"user", "adopt"}, on : SUBSET BOOLEAN, target : Pairs]
  \cup [id : 0..MaxReactions, handler : {"await"}, on : SUBSET BOOLEAN, target : Asyncs]

ReactionJobs ==
  [kind : {"reaction"}, rd : ReactionRecords, is_reject : BOOLEAN,
   arg : Values \cup {None, TypeError}]

ThenableJobs == [kind : {"thenable"}, promise : Promises, arg : Promises \cup {None}]

Jobs == ReactionJobs \cup ThenableJobs

Frames ==
  [kind : {"getter"}, promise : Promises, arg : Patched \cup Thenables]
  \cup [kind : {"handler", "then"}, promise : {None}, arg : Pairs]
  \cup [kind : {"async"}, promise : {None}, arg : Asyncs]

PromiseRecords ==
  [state : {"none", "pending", "fulfilled", "rejected"}, result : Values \cup {None, TypeError},
   is_handled : BOOLEAN, reactions : Seq(ReactionRecords)]

Typed ==
  /\ promise \in [Promises -> PromiseRecords]
  /\ pairs \in [Pairs -> {"none", "fresh", "resolved"}]
  /\ job_list \in Seq(Jobs) /\ frames \in Seq(Frames)
  /\ tracked \subseteq Promises
  /\ registered \in [Promises -> Seq(Reactions)]

(* The pairs of resolving functions of a promise are numbered from 1 on. *)
PairsNumbered ==
  \A p \in Promises, k \in 1..MaxPairs :
    pairs[<<p, k>>] # "none" => p \in Born /\ \A j \in 1..k : pairs[<<p, j>>] # "none"

(* A promise for which a thenable job waits can have another pair, and what a  *)
(* job carries has been made.                                                 *)
JobsCanRun(jl) ==
  \A i \in 1..Len(jl) :
    /\ jl[i].arg \in Promises => jl[i].arg \in Born
    /\ jl[i].kind = "thenable" => pairs[<<jl[i].promise, MaxPairs>>] = "none"

(* A promise whose then is being looked up has been made. *)
GettersBorn(fs) ==
  \A i \in 1..Len(fs) : fs[i].kind = "getter" /\ fs[i].arg \in Promises => fs[i].arg \in Born

ResultsBorn == \A p \in Promises : promise[p].result \in Promises => promise[p].result \in Born

Lone(S) == \A x, y \in S : x = y

(* OneSettler without numbers: of the three sorts of settlers a pending promise *)
(* has one sort, and one of that sort.                                        *)
SettlerInv ==
  \A p \in Promises :
    LET fp == FreshPairs(p)
        tj == ThenableFor(job_list, p)
        gf == GettersFor(frames, p)
    IN  /\ Lone(fp) /\ Lone(tj) /\ Lone(gf)
        /\ fp = {} \/ tj = {}
        /\ fp = {} \/ gf = {}
        /\ tj = {} \/ gf = {}
        /\ promise[p].state = "pending" <=> (fp # {} \/ tj # {} \/ gf # {})

(* The ids of reactions are given out in order, and one is left for each job    *)
(* that will register a reaction.                                             *)
IdsInOrder ==
  /\ \A x \in Used : \A y \in 1..x : y \in Used
  /\ Cardinality(Used) + Cardinality(Adoptions) <= MaxReactions

(* A promise is handled once a reaction was registered, and the reactions wait  *)
(* only while it is pending.                                                  *)
HandledInv ==
  \A p \in Promises :
    /\ promise[p].is_handled <=> registered[p] # <<>>
    /\ promise[p].state = "none" => ~promise[p].is_handled
    /\ promise[p].state # "pending" => promise[p].reactions = <<>>

SettlingInv ==
  /\ Typed /\ PairsNumbered /\ JobsCanRun(job_list) /\ GettersBorn(frames) /\ ResultsBorn
  /\ SettlerInv /\ IdsInOrder /\ HandledInv /\ TrackerExact /\ IntactPromisesAdopted

At(s, S) == {i \in 1..Len(s) : s[i] \in S}

(* What can resume the async function f, and its frames. *)
AwaitsOf(f) == [id : 0..MaxReactions, handler : {"await"}, on : SUBSET BOOLEAN, target : {f}]
AwaitJobsOf(f) ==
  [kind : {"reaction"}, rd : AwaitsOf(f), is_reject : BOOLEAN, arg : Values \cup {None, TypeError}]
FramesOf(f) == [kind : {"async"}, promise : {None}, arg : {f}]
AwaitedBy(f) == {p \in Promises : At(promise[p].reactions, AwaitsOf(f)) # {}}

(* One thing at a time may resume an async function, and only while it waits;  *)
(* it is on the stack once, and only while it runs.                            *)
AwaitAlone(f) ==
  /\ Lone(At(job_list, AwaitJobsOf(f))) /\ Lone(AwaitedBy(f)) /\ Lone(At(frames, FramesOf(f)))
  /\ \A p \in Promises : Lone(At(promise[p].reactions, AwaitsOf(f)))
  /\ At(job_list, AwaitJobsOf(f)) = {} \/ AwaitedBy(f) = {}
  /\ At(job_list, AwaitJobsOf(f)) # {} \/ AwaitedBy(f) # {} => async[f] = "waiting"
  /\ At(frames, FramesOf(f)) # {} => async[f] = "running"

AwaitInv == \A f \in Asyncs : AwaitAlone(f)

(* An async function that was called has the promise it answers to. *)
AsyncInv ==
  /\ async \in [Asyncs -> {"none", "running", "waiting", "done"}]
  /\ capability \in [Asyncs -> Promises \cup {None}]
  /\ ran \in [Reactions -> Nat]
  /\ \A f \in Asyncs : async[f] # "none" => capability[f] \in Promises

-----------------------------------------------------------------------------
(* The order in which reactions run, as if the job list were jl and the reactions *)
(* had run as often as rn says.                                               *)
Increasing(seq) == \A i, j \in 1..Len(seq) : i < j => seq[i] < seq[j]

(* A reaction is at one promise only, and later ones have larger ids. *)
RegisteredInOrder ==
  /\ \A p \in Promises : Increasing(registered[p])
  /\ \A p, q \in Promises, x \in Reactions :
       x \in ToSet(registered[p]) /\ x \in ToSet(registered[q]) => p = q

(* The reactions that wait at a promise have not run and wait in order. *)
WaitingInOrder(rn) ==
  \A p \in Promises : \A i \in 1..Len(promise[p].reactions) :
    LET x == promise[p].reactions[i].id
    IN  /\ x \in ToSet(registered[p]) /\ rn[x] = 0
        /\ \A j \in 1..Len(promise[p].reactions) : i < j => x < promise[p].reactions[j].id

JobOf(jl, i, x) == jl[i].kind = "reaction" /\ jl[i].rd.id = x

(* The queued reactions have not run, are of settled promises, and those of one *)
(* promise are queued in order.                                               *)
QueuedInOrder(jl, rn) ==
  \A i \in 1..Len(jl), p \in Promises, x \in Reactions :
    JobOf(jl, i, x) /\ x \in ToSet(registered[p]) =>
      /\ p \in Settled /\ rn[x] = 0
      /\ \A j \in 1..Len(jl), y \in Reactions :
           (i < j /\ JobOf(jl, j, y) /\ y \in ToSet(registered[p])) => x < y

QueuedRegistered(jl) ==
  \A i \in 1..Len(jl), x \in Reactions : JobOf(jl, i, x) => x \in Used

(* A reaction that has not run waits at its promise or is queued. *)
NoneLost(jl, rn) ==
  \A p \in Promises, x \in Reactions :
    x \in ToSet(registered[p]) /\ rn[x] = 0 =>
      \/ \E i \in 1..Len(promise[p].reactions) : promise[p].reactions[i].id = x
      \/ \E i \in 1..Len(jl) : JobOf(jl, i, x)

(* Reactions run at most once, only those of settled promises, and in order. *)
RanInOrder(rn) ==
  /\ \A x \in Reactions : rn[x] \in {0, 1} /\ (rn[x] = 1 => x \in Used)
  /\ \A p \in Promises, x \in Reactions :
       (x \in ToSet(registered[p]) /\ rn[x] = 1) =>
         /\ p \in Settled
         /\ \A y \in Reactions : y \in ToSet(registered[p]) /\ y < x => rn[y] = 1

OrderOf(jl, rn) ==
  /\ RegisteredInOrder /\ WaitingInOrder(rn) /\ QueuedInOrder(jl, rn)
  /\ QueuedRegistered(jl) /\ NoneLost(jl, rn) /\ RanInOrder(rn)

OrderInv == OrderOf(job_list, ran)

=============================================================================
