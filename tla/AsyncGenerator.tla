--------------------------- MODULE AsyncGenerator ---------------------------
(***************************************************************************)
(* One async generator object of QuickJS: the queue of next(), return() and *)
(* throw() requests and the loop that serves it (quickjs.c).                *)
(*                                                                          *)
(* The generator's body is user code.  It runs inside async_func_resume and *)
(* may call the methods of its own generator.  What it awaits, and what     *)
(* return() awaits, settles at any later time and then runs one job         *)
(* (Promises shows that a reaction runs once).  Answering a request runs no *)
(* user code: iterator results are taken to have no then property.          *)
(***************************************************************************)
EXTENDS Integers, Sequences

CONSTANTS
  MaxRequests,   \* bound: calls of next, return and throw
  MaxAwaits      \* bound: awaits of the body

ASSUME AsyncGeneratorAssumption == MaxRequests \in Nat /\ MaxAwaits \in Nat

VARIABLES
  state,      \* JSAsyncGeneratorData.state
  queue,      \* JSAsyncGeneratorData.queue: numbered requests
  pc,         \* where the thread is: "idle", "loop" in resume_next, "body" in user code
  jobs,       \* reactions that will run: "await" and "return", a number of each
  answers,    \* history: how each request was answered, in order
  asked,      \* history: the number of requests
  awaits,     \* history: the number of awaits
  broken      \* an assertion failed, or a request was taken from an empty queue

vars == <<state, queue, pc, jobs, answers, asked, awaits, broken>>

States == {"SUSPENDED_START", "SUSPENDED_YIELD", "SUSPENDED_YIELD_STAR",
           "EXECUTING", "AWAITING_RETURN", "COMPLETED"}
Magic == {"NEXT", "RETURN", "THROW"}

(* js_async_generator_function_call: the body is at its start. *)
Init ==
  /\ state = "SUSPENDED_START" /\ queue = <<>> /\ pc = "idle"
  /\ jobs = [await |-> 0, return |-> 0]
  /\ answers = <<>> /\ asked = 0 /\ awaits = 0 /\ broken = FALSE

(* js_async_generator_resolve_or_reject: list_entry of the first request. *)
Answer(how) ==
  /\ broken' = (broken \/ queue = <<>>)
  /\ queue' = IF queue = <<>> THEN queue ELSE Tail(queue)
  /\ answers' = IF queue = <<>> THEN answers
                ELSE Append(answers, [id |-> Head(queue).id, how |-> how])

(* js_async_generator_next, with the magic of the method. *)
Request(magic) ==
  /\ pc \in {"idle", "body"} /\ asked < MaxRequests
  /\ asked' = asked + 1
  /\ queue' = Append(queue, [id |-> asked + 1, magic |-> magic])
  /\ pc' = IF state # "EXECUTING" THEN "loop" ELSE pc
  /\ UNCHANGED <<state, jobs, answers, awaits, broken>>

(* js_async_generator_complete. *)
Complete == state' = "COMPLETED"

(* js_async_generator_completed_return: what return() was given is awaited. *)
CompletedReturn == jobs' = [jobs EXCEPT !.return = @ + 1]

-----------------------------------------------------------------------------
(* One iteration of the loop in js_async_generator_resume_next. *)
LoopEmpty ==
  /\ pc = "loop" /\ queue = <<>>
  /\ pc' = "idle"
  /\ UNCHANGED <<state, queue, jobs, answers, asked, awaits, broken>>

LoopExecuting ==
  /\ pc = "loop" /\ queue # <<>> /\ state = "EXECUTING"
  /\ pc' = "body"
  /\ UNCHANGED <<state, queue, jobs, answers, asked, awaits, broken>>

LoopAwaitingReturn ==
  /\ pc = "loop" /\ queue # <<>> /\ state = "AWAITING_RETURN"
  /\ pc' = "idle"
  /\ UNCHANGED <<state, queue, jobs, answers, asked, awaits, broken>>

LoopStart ==
  /\ pc = "loop" /\ queue # <<>> /\ state = "SUSPENDED_START"
  /\ \/ Head(queue).magic = "NEXT" /\ state' = "EXECUTING" /\ pc' = "body"
     \/ Head(queue).magic # "NEXT" /\ Complete /\ pc' = pc
  /\ UNCHANGED <<queue, jobs, answers, asked, awaits, broken>>

(* Mutant: the generator stays completed while return() awaits. *)
LoopCompletedStays ==
  /\ pc = "loop" /\ queue # <<>> /\ state = "COMPLETED"
  /\ pc' = "idle"
  /\ \/ Head(queue).magic # "RETURN" /\ Answer("done") /\ UNCHANGED jobs
     \/ /\ Head(queue).magic = "RETURN"
        /\ CompletedReturn
        /\ UNCHANGED <<queue, answers, broken>>
  /\ UNCHANGED <<state, asked, awaits>>

(* After one request of a completed generator the loop is left, whatever else *)
(* is queued.                                                                *)
LoopCompleted ==
  /\ pc = "loop" /\ queue # <<>> /\ state = "COMPLETED"
  /\ pc' = "idle"
  /\ \/ Head(queue).magic = "NEXT" /\ Answer("done") /\ UNCHANGED <<state, jobs>>
     \/ Head(queue).magic = "THROW" /\ Answer("rejected") /\ UNCHANGED <<state, jobs>>
     \/ /\ Head(queue).magic = "RETURN" /\ state' = "AWAITING_RETURN"
        /\ CompletedReturn
        /\ UNCHANGED <<queue, answers, broken>>
  /\ UNCHANGED <<asked, awaits>>

(* The value or the exception of the request goes to the yield. *)
LoopYield ==
  /\ pc = "loop" /\ queue # <<>> /\ state \in {"SUSPENDED_YIELD", "SUSPENDED_YIELD_STAR"}
  /\ state' = "EXECUTING" /\ pc' = "body"
  /\ UNCHANGED <<queue, jobs, answers, asked, awaits, broken>>

-----------------------------------------------------------------------------
(* async_func_resume comes back. *)
BodyYields(to) ==
  /\ pc = "body" /\ state' = to /\ pc' = "loop"
  /\ Answer("value")
  /\ UNCHANGED <<jobs, asked, awaits>>

(* Mutant: js_async_generator_complete is not called. *)
BodyEndsIncomplete(how) ==
  /\ pc = "body" /\ state' = "SUSPENDED_YIELD" /\ pc' = "loop"
  /\ Answer(how)
  /\ UNCHANGED <<jobs, asked, awaits>>

BodyEnds(how) ==
  /\ pc = "body" /\ Complete /\ pc' = "loop"
  /\ Answer(how)
  /\ UNCHANGED <<jobs, asked, awaits>>

(* js_async_generator_await.  If it fails the body goes on with an exception. *)
BodyAwaits ==
  /\ pc = "body" /\ awaits < MaxAwaits
  /\ awaits' = awaits + 1 /\ jobs' = [jobs EXCEPT !.await = @ + 1]
  /\ pc' = "idle"
  /\ UNCHANGED <<state, queue, answers, asked, broken>>

(* Mutant: the loop is not entered again. *)
AwaitForgotten ==
  /\ pc = "idle" /\ jobs.await > 0
  /\ jobs' = [jobs EXCEPT !.await = @ - 1]
  /\ broken' = (broken \/ state # "EXECUTING")
  /\ UNCHANGED <<state, queue, pc, answers, asked, awaits>>

(* js_async_generator_resolve_function with magic 0 or 1: what the body awaited. *)
AwaitSettles ==
  /\ pc = "idle" /\ jobs.await > 0
  /\ jobs' = [jobs EXCEPT !.await = @ - 1]
  /\ broken' = (broken \/ state # "EXECUTING")
  /\ pc' = "loop"
  /\ UNCHANGED <<state, queue, answers, asked, awaits>>

(* Mutant: the reaction is taken for one of the body. *)
ReturnSettlesAwait(how) ==
  /\ pc = "idle" /\ jobs.return > 0
  /\ jobs' = [jobs EXCEPT !.await = @ - 1]
  /\ state' = "COMPLETED"
  /\ UNCHANGED <<queue, pc, answers, asked, awaits, broken>>

(* ... with magic 2 or 3: what return() awaited.  It does not serve the queue. *)
ReturnSettles(how) ==
  /\ pc = "idle" /\ jobs.return > 0
  /\ jobs' = [jobs EXCEPT !.return = @ - 1]
  /\ state' = "COMPLETED"
  /\ queue' = IF queue = <<>> THEN queue ELSE Tail(queue)
  /\ answers' = IF queue = <<>> THEN answers
                ELSE Append(answers, [id |-> Head(queue).id, how |-> how])
  /\ broken' = (broken \/ state \notin {"AWAITING_RETURN", "COMPLETED"} \/ queue = <<>>)
  /\ UNCHANGED <<pc, asked, awaits>>

Loop == LoopEmpty \/ LoopExecuting \/ LoopAwaitingReturn \/ LoopStart \/ LoopCompleted \/ LoopYield

Body ==
  \/ \E to \in {"SUSPENDED_YIELD", "SUSPENDED_YIELD_STAR"} : BodyYields(to)
  \/ \E how \in {"done", "rejected"} : BodyEnds(how)
  \/ BodyAwaits

Settle == AwaitSettles \/ \E how \in {"done", "rejected"} : ReturnSettles(how)

Next == (\E magic \in Magic : Request(magic)) \/ Loop \/ Body \/ Settle

Spec == Init /\ [][Next]_vars

(* The loop and the body come to an end, and promises that are awaited settle. *)
FairSpec == Spec /\ WF_vars(Loop) /\ WF_vars(Body) /\ WF_vars(Settle)
-----------------------------------------------------------------------------
TypeOK ==
  /\ state \in States /\ pc \in {"idle", "loop", "body"}
  /\ jobs \in [{"await", "return"} -> 0..MaxRequests + MaxAwaits]
  /\ asked \in 0..MaxRequests /\ awaits \in 0..MaxAwaits
  /\ \A i \in 1..Len(queue) : queue[i] \in [id : 1..MaxRequests, magic : Magic]

(* At any time exactly one party may move the generator: the thread in its    *)
(* body or loop, the await of the body, or the await of return(); and the     *)
(* state says which.  So a body is never entered twice, the code's assertions  *)
(* on the state hold, and a request is never taken from an empty queue.        *)
OneDriver ==
  /\ ~broken
  /\ jobs.await + jobs.return + (IF pc = "body" THEN 1 ELSE 0) <= 1
  /\ state = "EXECUTING" => /\ queue # <<>>
                            /\ pc = "loop" \/ pc = "body" \/ jobs.await = 1
  /\ (pc = "body" \/ jobs.await = 1) => state = "EXECUTING"
  /\ state = "AWAITING_RETURN" <=> jobs.return = 1
  /\ state = "AWAITING_RETURN" => queue # <<>> /\ Head(queue).magic = "RETURN"

(* Once a request was answered as the last one, no later one gets a value:   *)
(* after done or a rejection the body never runs again.                       *)
DoneIsFinal ==
  \A i, j \in 1..Len(answers) : (i < j /\ answers[i].how # "value") => answers[j].how # "value"

(* Unless the generator completes with requests queued behind the last one it  *)
(* serves, every request is answered.                                         *)
AnsweredOrCompleted ==
  \A id \in 1..MaxRequests :
    (asked >= id) ~> (state = "COMPLETED" \/ \E i \in 1..Len(answers) : answers[i].id = id)
-----------------------------------------------------------------------------
(* The inductive invariant that AsyncGeneratorProofs proves.                  *)
Requests == [id : 1..MaxRequests, magic : Magic]
Answers == [id : 1..MaxRequests, how : {"value", "done", "rejected"}]

Typed ==
  /\ state \in States /\ pc \in {"idle", "loop", "body"}
  /\ jobs \in [await : Nat, return : Nat]
  /\ asked \in 0..MaxRequests /\ awaits \in 0..MaxAwaits
  /\ queue \in Seq(Requests) /\ answers \in Seq(Answers)
  /\ broken \in BOOLEAN

(* The loop is entered only when the body awaits nothing. *)
LoopAwaitsNothing == pc = "loop" => jobs.await = 0

(* Requests are answered once each and in the order in which they were made:  *)
(* those answered, then those queued, are all that were ever made.            *)
AnsweredInOrder ==
  /\ asked = Len(answers) + Len(queue)
  /\ \A i \in 1..Len(answers) : answers[i].id = i
  /\ \A i \in 1..Len(queue) : queue[i].id = Len(answers) + i

(* After an answer that ends the iteration the body is not entered again. *)
EndedStaysEnded ==
  (\E i \in 1..Len(answers) : answers[i].how # "value") =>
    state \in {"COMPLETED", "AWAITING_RETURN"}

GeneratorInv ==
  Typed /\ OneDriver /\ LoopAwaitsNothing /\ AnsweredInOrder /\ EndedStaysEnded /\ DoneIsFinal
=============================================================================
