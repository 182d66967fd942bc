------------------------ MODULE AsyncGeneratorProofs ------------------------
(***************************************************************************)
(* Proofs about AsyncGenerator for any number of requests and awaits.       *)
(* GeneratorInv is inductive: InitGenerator, StepGenerator.  What every step *)
(* needs to know about the two sequences is in RequestAppended and           *)
(* RequestAnswered.                                                          *)
(***************************************************************************)
EXTENDS AsyncGenerator, SequenceTheorems, TLAPS

(* A generator as js_async_generator_function_call leaves it. *)
LEMMA InitGenerator == Init => GeneratorInv
<1> SUFFICES ASSUME Init PROVE GeneratorInv
  OBVIOUS
<1> USE AsyncGeneratorAssumption DEF Init
<1>1. Typed
  <2>1. queue \in Seq(Requests) /\ answers \in Seq(Answers)
    BY EmptySeq
  <2>2. broken \in BOOLEAN
    OBVIOUS
  <2>3. jobs \in [await : Nat, return : Nat]
    OBVIOUS
  <2> QED BY <2>1, <2>2, <2>3 DEF Typed, States
<1>2. OneDriver
  BY DEF OneDriver
<1>3. AnsweredInOrder
  BY DEF AnsweredInOrder
<1>4. LoopAwaitsNothing /\ EndedStaysEnded /\ DoneIsFinal
  BY DEF LoopAwaitsNothing, EndedStaysEnded, DoneIsFinal
<1> QED BY <1>1, <1>2, <1>3, <1>4 DEF GeneratorInv

(* js_async_generator_next puts a request behind those that wait. *)
LEMMA RequestAppended ==
  ASSUME Typed, AnsweredInOrder, NEW magic \in Magic, Request(magic)
  PROVE  /\ queue' \in Seq(Requests) /\ queue' # <<>>
         /\ queue # <<>> => Head(queue') = Head(queue)
         /\ AnsweredInOrder'
<1> DEFINE r == [id |-> asked + 1, magic |-> magic]
<1>1. r \in Requests /\ queue \in Seq(Requests) /\ asked \in Nat
  BY AsyncGeneratorAssumption DEF Requests, Request, Typed
<1>2. queue' = Append(queue, r) /\ answers' = answers /\ asked' = asked + 1
  BY DEF Request
<1>3. /\ queue' \in Seq(Requests) /\ queue' # <<>> /\ Len(queue') = Len(queue) + 1
      /\ \A i \in 1..Len(queue) : queue'[i] = queue[i]
      /\ queue'[Len(queue) + 1] = r
  BY <1>1, <1>2, AppendProperties
<1>4. queue # <<>> => Head(queue') = Head(queue)
  BY <1>1, <1>2, HeadTailAppend
<1>5. Len(queue) \in Nat /\ Len(answers) \in Nat
  BY <1>1, LenProperties DEF Typed
<1>6. AnsweredInOrder'
  <2>1. asked' = Len(answers') + Len(queue')
    BY <1>2, <1>3, <1>5 DEF AnsweredInOrder
  <2>2. ASSUME NEW i \in 1..Len(queue') PROVE queue'[i].id = Len(answers') + i
    <3>1. CASE i \in 1..Len(queue)
      BY <3>1, <1>2, <1>3 DEF AnsweredInOrder
    <3>2. CASE i = Len(queue) + 1
      BY <3>2, <1>2, <1>3, <1>5 DEF AnsweredInOrder
    <3> QED BY <3>1, <3>2, <1>3, <1>5
  <2> QED BY <2>1, <2>2, <1>2 DEF AnsweredInOrder
<1> QED BY <1>3, <1>4, <1>6

(* js_async_generator_resolve_or_reject answers the first one.  An answer that *)
(* ends the iteration may come at any time, a value only if none has come yet. *)
LEMMA RequestAnswered ==
  ASSUME Typed, AnsweredInOrder, DoneIsFinal, queue # <<>>,
         NEW how \in {"value", "done", "rejected"},
         how = "value" => \A i \in 1..Len(answers) : answers[i].how = "value",
         queue' = Tail(queue),
         answers' = Append(answers, [id |-> Head(queue).id, how |-> how]),
         asked' = asked
  PROVE  /\ queue' \in Seq(Requests) /\ answers' \in Seq(Answers)
         /\ AnsweredInOrder' /\ DoneIsFinal'
         /\ how = "value" => \A i \in 1..Len(answers') : answers'[i].how = "value"
<1> DEFINE a == [id |-> Head(queue).id, how |-> how]
<1>1. queue \in Seq(Requests) /\ answers \in Seq(Answers)
  BY DEF Typed
<1>2. Len(queue) \in Nat /\ Len(answers) \in Nat /\ Len(queue) > 0
  BY <1>1, LenProperties, EmptySeq
<1>3. /\ Head(queue) \in Requests /\ queue' \in Seq(Requests)
      /\ Len(queue') = Len(queue) - 1
      /\ \A i \in 1..Len(queue') : queue'[i] = queue[i + 1]
  BY <1>1, HeadTailProperties
<1>4. Head(queue).id = Len(answers) + 1
  <2>1. Head(queue) = queue[1]
    BY <1>1
  <2> QED BY <2>1, <1>2 DEF AnsweredInOrder
<1>5. a \in Answers
  BY <1>3 DEF Answers, Requests
<1>6. /\ answers' \in Seq(Answers) /\ Len(answers') = Len(answers) + 1
      /\ \A i \in 1..Len(answers) : answers'[i] = answers[i]
      /\ answers'[Len(answers) + 1] = a
  BY <1>1, <1>5, AppendProperties
<1>7. AnsweredInOrder'
  <2>1. asked' = Len(answers') + Len(queue')
    BY <1>2, <1>3, <1>6 DEF AnsweredInOrder
  <2>2. ASSUME NEW i \in 1..Len(answers') PROVE answers'[i].id = i
    BY <1>2, <1>4, <1>6 DEF AnsweredInOrder
  <2>3. ASSUME NEW i \in 1..Len(queue') PROVE queue'[i].id = Len(answers') + i
    <3>1. i + 1 \in 1..Len(queue)
      BY <1>2, <1>3
    <3> QED BY <3>1, <1>2, <1>3, <1>6 DEF AnsweredInOrder
  <2> QED BY <2>1, <2>2, <2>3 DEF AnsweredInOrder
<1>8. DoneIsFinal'
  <2> SUFFICES ASSUME NEW i \in 1..Len(answers'), NEW j \in 1..Len(answers'), i < j,
                      answers'[i].how # "value"
               PROVE  answers'[j].how # "value"
    BY DEF DoneIsFinal
  <2>1. i \in 1..Len(answers) /\ answers'[i] = answers[i]
    BY <1>2, <1>6
  <2>2. CASE j \in 1..Len(answers)
    BY <2>1, <2>2, <1>6 DEF DoneIsFinal
  <2>3. CASE j = Len(answers) + 1
    BY <2>1, <2>3, <1>6
  <2> QED BY <2>2, <2>3, <1>2, <1>6
<1>9. how = "value" => \A i \in 1..Len(answers') : answers'[i].how = "value"
  BY <1>2, <1>6
<1> QED BY <1>3, <1>6, <1>7, <1>8, <1>9

-----------------------------------------------------------------------------
(* A step that leaves both sequences alone keeps what is said of them alone. *)
LEMMA SequencesUnchanged ==
  ASSUME AnsweredInOrder, DoneIsFinal, UNCHANGED <<queue, answers, asked>>
  PROVE  AnsweredInOrder' /\ DoneIsFinal'
BY DEF AnsweredInOrder, DoneIsFinal

(* Every step of the generator preserves the invariant. *)
LEMMA StepGenerator == ASSUME GeneratorInv, Next PROVE GeneratorInv'
<1> USE AsyncGeneratorAssumption
<1>1. Typed /\ OneDriver /\ LoopAwaitsNothing /\ AnsweredInOrder /\ EndedStaysEnded /\ DoneIsFinal
  BY DEF GeneratorInv
<1>2. /\ jobs.await \in {0, 1} /\ jobs.return \in {0, 1} /\ broken = FALSE
      /\ jobs = [await |-> jobs.await, return |-> jobs.return]
      /\ pc = "body" => jobs.await = 0 /\ jobs.return = 0
      /\ jobs.await = 0 \/ jobs.return = 0
  BY <1>1 DEF Typed, OneDriver
<1>3. /\ state = "EXECUTING" => queue # <<>> /\ jobs.return = 0
      /\ pc = "body" \/ jobs.await = 1 => state = "EXECUTING"
      /\ jobs.await = 1 => pc = "idle"
      /\ jobs.return = 1 <=> state = "AWAITING_RETURN"
      /\ jobs.return = 1 => queue # <<>> /\ Head(queue).magic = "RETURN"
  BY <1>1, <1>2 DEF Typed, OneDriver, LoopAwaitsNothing
(* What a step that leaves queue and answers alone has to show. *)
<1> DEFINE Rest == /\ queue' \in Seq(Requests) /\ answers' \in Seq(Answers)
                   /\ AnsweredInOrder' /\ DoneIsFinal'
           Control ==
             /\ state' \in States /\ pc' \in {"idle", "loop", "body"}
             /\ jobs' \in [await : Nat, return : Nat]
             /\ asked' \in 0..MaxRequests /\ awaits' \in 0..MaxAwaits
             /\ broken' = FALSE
(* js_async_generator_next *)
<1>4. ASSUME NEW magic \in Magic, Request(magic) PROVE GeneratorInv'
  <2>1. Rest /\ queue' # <<>> /\ (queue # <<>> => Head(queue') = Head(queue))
    <3>1. answers' = answers
      BY <1>4 DEF Request
    <3> QED BY <1>1, <1>4, <3>1, RequestAppended DEF Typed, DoneIsFinal
  <2>2. Control /\ state' = state /\ jobs' = jobs /\ answers' = answers
    BY <1>1, <1>2, <1>4 DEF Request, Typed
  <2>3. pc' = (IF state # "EXECUTING" THEN "loop" ELSE pc)
    BY <1>4 DEF Request
  <2>4. Typed' /\ EndedStaysEnded'
    BY <1>1, <2>1, <2>2 DEF Typed, EndedStaysEnded
  <2>5. OneDriver' /\ LoopAwaitsNothing'
    BY <1>2, <1>3, <1>1, <1>4, <2>1, <2>2, <2>3 DEF OneDriver, LoopAwaitsNothing, Request
  <2> QED BY <2>1, <2>4, <2>5 DEF GeneratorInv
(* js_async_generator_resume_next, up to the body *)
<1>5. CASE Loop /\ UNCHANGED <<queue, answers, broken>>
  <2>1. Rest
    <3>1. UNCHANGED <<queue, answers, asked>>
      BY <1>5 DEF Loop, LoopEmpty, LoopExecuting, LoopAwaitingReturn, LoopStart, LoopCompleted, LoopYield
    <3> QED BY <1>1, <3>1, SequencesUnchanged DEF Typed
  <2>2. Control
    BY <1>1, <1>2, <1>5 DEF Typed, States, Loop, LoopEmpty, LoopExecuting, LoopAwaitingReturn,
       LoopStart, LoopCompleted, LoopYield, Complete, CompletedReturn
  <2>3. Typed'
    BY <2>1, <2>2 DEF Typed
  <2>4. OneDriver' /\ LoopAwaitsNothing'
    BY <1>1, <1>2, <1>3, <1>5, <2>2 DEF OneDriver, LoopAwaitsNothing, Loop, LoopEmpty, LoopExecuting,
       LoopAwaitingReturn, LoopStart, LoopCompleted, LoopYield, Complete, CompletedReturn
  <2>5. EndedStaysEnded'
    BY <1>1, <1>5 DEF EndedStaysEnded, Loop, LoopEmpty, LoopExecuting,
       LoopAwaitingReturn, LoopStart, LoopCompleted, LoopYield, Complete
  <2> QED BY <2>1, <2>3, <2>4, <2>5 DEF GeneratorInv
(* js_async_generator_resume_next, a request of a completed generator *)
<1>6. ASSUME NEW how \in {"done", "rejected"}, LoopCompleted, Answer(how), UNCHANGED <<state, jobs>>
      PROVE  GeneratorInv'
  <2>1. /\ queue' = Tail(queue) /\ asked' = asked
        /\ answers' = Append(answers, [id |-> Head(queue).id, how |-> how])
    BY <1>6 DEF LoopCompleted, Answer
  <2>2. Rest
    BY <1>1, <1>6, <2>1, RequestAnswered DEF LoopCompleted
  <2>3. Control /\ state' = "COMPLETED" /\ pc' = "idle" /\ jobs' = jobs
    BY <1>1, <1>2, <1>6 DEF Typed, LoopCompleted, Answer
  <2>4. Typed' /\ EndedStaysEnded'
    BY <2>2, <2>3 DEF Typed, EndedStaysEnded
  <2>5. OneDriver' /\ LoopAwaitsNothing'
    BY <1>2, <1>3, <1>6, <2>3 DEF OneDriver, LoopAwaitsNothing, LoopCompleted
  <2> QED BY <2>2, <2>4, <2>5 DEF GeneratorInv
(* The body yields, ends or awaits *)
<1>7. ASSUME NEW to \in {"SUSPENDED_YIELD", "SUSPENDED_YIELD_STAR"}, BodyYields(to)
      PROVE  GeneratorInv'
  <2>1. pc = "body" /\ state = "EXECUTING" /\ queue # <<>>
    BY <1>3, <1>7 DEF BodyYields
  <2>2. /\ queue' = Tail(queue) /\ asked' = asked
        /\ answers' = Append(answers, [id |-> Head(queue).id, how |-> "value"])
    BY <1>7, <2>1 DEF BodyYields, Answer
  <2>3. \A i \in 1..Len(answers) : answers[i].how = "value"
    BY <1>1, <2>1 DEF EndedStaysEnded
  <2>4. Rest /\ \A i \in 1..Len(answers') : answers'[i].how = "value"
    <3> HIDE DEF Rest
    <3>1. /\ queue' \in Seq(Requests) /\ answers' \in Seq(Answers)
          /\ AnsweredInOrder' /\ DoneIsFinal'
          /\ \A i \in 1..Len(answers') : answers'[i].how = "value"
      BY <1>1, <2>1, <2>2, <2>3, RequestAnswered
    <3> QED BY <3>1 DEF Rest
  <2>5. Control /\ state' = to /\ pc' = "loop" /\ jobs' = jobs
    BY <1>1, <1>2, <1>7, <2>1 DEF Typed, States, BodyYields, Answer
  <2>6. Typed' /\ EndedStaysEnded'
    BY <2>4, <2>5 DEF Typed, EndedStaysEnded
  <2>7. OneDriver' /\ LoopAwaitsNothing'
    BY <1>2, <1>3, <2>1, <2>5 DEF OneDriver, LoopAwaitsNothing
  <2> QED BY <2>4, <2>6, <2>7 DEF GeneratorInv
<1>8. ASSUME NEW how \in {"done", "rejected"}, BodyEnds(how) PROVE GeneratorInv'
  <2>1. pc = "body" /\ state = "EXECUTING" /\ queue # <<>>
    BY <1>3, <1>8 DEF BodyEnds
  <2>2. /\ queue' = Tail(queue) /\ asked' = asked
        /\ answers' = Append(answers, [id |-> Head(queue).id, how |-> how])
    BY <1>8, <2>1 DEF BodyEnds, Answer
  <2>3. Rest
    BY <1>1, <2>1, <2>2, RequestAnswered
  <2>4. Control /\ state' = "COMPLETED" /\ pc' = "loop" /\ jobs' = jobs
    BY <1>1, <1>2, <1>8, <2>1 DEF Typed, States, BodyEnds, Complete, Answer
  <2>5. Typed' /\ EndedStaysEnded'
    BY <2>3, <2>4 DEF Typed, EndedStaysEnded
  <2>6. OneDriver' /\ LoopAwaitsNothing'
    BY <1>2, <1>3, <2>1, <2>4 DEF OneDriver, LoopAwaitsNothing
  <2> QED BY <2>3, <2>5, <2>6 DEF GeneratorInv
<1>9. CASE BodyAwaits \/ AwaitSettles
  <2>1. UNCHANGED <<queue, answers, asked, state>>
    BY <1>9 DEF BodyAwaits, AwaitSettles
  <2>2. Rest
    BY <1>1, <2>1, SequencesUnchanged DEF Typed
  <2>3. Control
    BY <1>1, <1>2, <1>3, <1>9 DEF Typed, BodyAwaits, AwaitSettles
  <2>4. Typed' /\ EndedStaysEnded'
    BY <1>1, <2>1, <2>2, <2>3 DEF Typed, EndedStaysEnded
  <2>5. OneDriver' /\ LoopAwaitsNothing'
    BY <1>1, <1>2, <1>3, <1>9, <2>3 DEF OneDriver, LoopAwaitsNothing, BodyAwaits, AwaitSettles
  <2> QED BY <2>2, <2>4, <2>5 DEF GeneratorInv
(* What return() awaited has settled *)
<1>10. ASSUME NEW how \in {"done", "rejected"}, ReturnSettles(how) PROVE GeneratorInv'
  <2>1. jobs.return = 1 /\ state = "AWAITING_RETURN" /\ queue # <<>> /\ pc = "idle" /\ jobs.await = 0
    BY <1>2, <1>3, <1>10 DEF ReturnSettles
  <2>2. /\ queue' = Tail(queue) /\ asked' = asked
        /\ answers' = Append(answers, [id |-> Head(queue).id, how |-> how])
    BY <1>10, <2>1 DEF ReturnSettles
  <2>3. Rest
    BY <1>1, <2>1, <2>2, RequestAnswered
  <2>4. Control /\ state' = "COMPLETED" /\ pc' = "idle" /\ jobs' = [await |-> 0, return |-> 0]
    BY <1>1, <1>2, <1>10, <2>1 DEF Typed, States, ReturnSettles
  <2>5. Typed' /\ EndedStaysEnded'
    BY <2>3, <2>4 DEF Typed, EndedStaysEnded
  <2>6. OneDriver' /\ LoopAwaitsNothing'
    BY <2>4 DEF OneDriver, LoopAwaitsNothing
  <2> QED BY <2>3, <2>5, <2>6 DEF GeneratorInv
<1>11. CASE Loop
  <2>1. CASE LoopCompleted
    BY <1>5, <1>6, <1>11, <2>1 DEF LoopCompleted
  <2>2. CASE ~LoopCompleted
    BY <1>5, <1>11, <2>2 DEF Loop, LoopEmpty, LoopExecuting, LoopAwaitingReturn, LoopStart, LoopYield
  <2> QED BY <2>1, <2>2
<1> QED BY <1>4, <1>7, <1>8, <1>9, <1>10, <1>11 DEF Next, Body, Settle

(* GeneratorInv holds of every reachable state of a generator. *)
THEOREM GeneratorInvariance == Spec => []GeneratorInv
<1>1. GeneratorInv /\ UNCHANGED vars => GeneratorInv'
  <2> SUFFICES ASSUME GeneratorInv, UNCHANGED vars PROVE GeneratorInv'
    OBVIOUS
  <2>1. Typed' /\ LoopAwaitsNothing'
    BY DEF vars, GeneratorInv, Typed, LoopAwaitsNothing
  <2>2. OneDriver'
    BY DEF vars, GeneratorInv, OneDriver
  <2>3. AnsweredInOrder' /\ EndedStaysEnded' /\ DoneIsFinal'
    BY DEF vars, GeneratorInv, AnsweredInOrder, EndedStaysEnded, DoneIsFinal
  <2> QED BY <2>1, <2>2, <2>3 DEF GeneratorInv
<1> QED BY <1>1, InitGenerator, StepGenerator, PTL DEF Spec

(* The states of js_async_generator_data and the queue are well formed. *)
THEOREM GeneratorTypes == Spec => []TypeOK
<1>1. GeneratorInv => TypeOK
  <2> SUFFICES ASSUME GeneratorInv PROVE TypeOK
    OBVIOUS
  <2>1. Typed /\ OneDriver
    BY DEF GeneratorInv
  <2>2. \A i \in 1..Len(queue) : queue[i] \in [id : 1..MaxRequests, magic : Magic]
    BY <2>1, ElementOfSeq DEF Typed, Requests
  <2>3. jobs.await <= 1 /\ jobs.return <= 1
    BY <2>1 DEF Typed, OneDriver
  <2>4. jobs.await = 1 \/ jobs.return = 1 => MaxRequests >= 1
    <3>1. jobs.await = 1 \/ jobs.return = 1 => Len(queue) >= 1
      BY <2>1, EmptySeq DEF Typed, OneDriver
    <3>2. Len(queue) >= 1 => queue[1].id \in 1..MaxRequests
      BY <2>1, <2>2, LenProperties DEF Typed
    <3> QED BY <3>1, <3>2, AsyncGeneratorAssumption
  <2>5. jobs \in [{"await", "return"} -> 0..MaxRequests + MaxAwaits]
    BY <2>1, <2>3, <2>4, AsyncGeneratorAssumption DEF Typed
  <2> QED BY <2>1, <2>2, <2>5 DEF TypeOK, Typed
<1> QED BY <1>1, GeneratorInvariance, PTL

(* Exactly one party may move the generator, its state says which, no          *)
(* assertion of the C code fails and no request is taken from an empty queue.  *)
THEOREM OneDriverAlways == Spec => []OneDriver
<1>1. GeneratorInv => OneDriver
  BY DEF GeneratorInv
<1> QED BY <1>1, GeneratorInvariance, PTL

(* After done or a rejection no request gets a value. *)
THEOREM DoneIsFinalAlways == Spec => []DoneIsFinal
<1>1. GeneratorInv => DoneIsFinal
  BY DEF GeneratorInv
<1> QED BY <1>1, GeneratorInvariance, PTL

(* No request is lost, answered twice or overtaken by a later one. *)
THEOREM RequestsInOrder == Spec => []AnsweredInOrder
<1>1. GeneratorInv => AnsweredInOrder
  BY DEF GeneratorInv
<1> QED BY <1>1, GeneratorInvariance, PTL
=============================================================================
