----------------------- MODULE EngineLifecycleProofs -----------------------
(***************************************************************************)
(* Proofs about EngineLifecycle for any number of threads, any nesting and *)
(* any number of calls.  LifecycleInv is inductive (InitInv, NextInv); the  *)
(* properties follow from it.                                               *)
(***************************************************************************)
EXTENDS EngineLifecycle, SequenceTheorems, TLAPS

(* The engine as JSEngine.init leaves it satisfies the invariant. *)
LEMMA InitInv == Init => LifecycleInv
<1> SUFFICES ASSUME Init PROVE LifecycleInv
  OBVIOUS
<1> USE LifecycleAssumption DEF Init, Inside, Running, Closing, Dropping, InDeinit
<1>1. TypeOK
  <2>1. pc \in [Threads -> Labels]
    BY DEF Labels
  <2>2. fuel \in [Threads -> Nat] /\ depth \in [Threads -> Nat]
    OBVIOUS
  <2>3. leaked \subseteq Kinds
    OBVIOUS
  <2> QED BY <2>1, <2>2, <2>3 DEF TypeOK
<1>2. LockInv
  <2> SUFFICES ASSUME NEW t \in Threads
               PROVE  /\ depth[t] > 0 <=> owner = t
                      /\ pc[t] \in Inside => owner = t
                      /\ pc[t] \in {"idle", "freeRuntime"} => depth[t] = 0
    BY DEF LockInv
  <2>1. depth[t] = 0 /\ pc[t] = "idle" /\ owner # t
    OBVIOUS
  <2> QED BY <2>1
<1>3. OrderInv
  BY DEF OrderInv
<1>4. DeinitInv
  BY DEF DeinitInv
<1>5. SuspendedInv
  BY DEF SuspendedInv
<1>6. ContextLostOnlyToItself
  BY DEF ContextLostOnlyToItself
<1> QED BY <1>1, <1>2, <1>3, <1>4, <1>5, <1>6 DEF LifecycleInv

(* The frame that waits last is a conversion at some depth. *)
LEMMA LastFrame ==
  ASSUME SuspendedInv, NEW t \in Threads, suspended[t] # <<>>
  PROVE  /\ Len(suspended[t]) \in Nat \ {0}
         /\ Last(suspended[t]) = suspended[t][Len(suspended[t])]
         /\ Last(suspended[t]).at \in Converting
         /\ Len(Front(suspended[t])) = Len(suspended[t]) - 1
         /\ Front(suspended[t]) \in Seq([at : Converting, depth : Nat])
         /\ \A k \in 1..(Len(suspended[t]) - 1) :
              Front(suspended[t])[k] = suspended[t][k]
<1> DEFINE S == [at : Converting, depth : Nat]
<1>1. PICK s \in Seq(S) : s = suspended[t]
  BY DEF SuspendedInv
<1> HIDE DEF S
<1>2. s # <<>> /\ Len(s) \in Nat \ {0} /\ s[Len(s)] \in S
  BY <1>1
<1>3. Last(s) = s[Len(s)] /\ Last(s).at \in Converting
  BY <1>2 DEF Last, S
<1>4. /\ Front(s) \in Seq(S) /\ Len(Front(s)) = Len(s) - 1
      /\ \A k \in 1..(Len(s) - 1) : Front(s)[k] = s[k]
  <2>1. 1 \in 1..(Len(s) + 1) /\ Len(s) - 1 \in 0..Len(s)
    BY <1>2
  <2>2. /\ SubSeq(s, 1, Len(s) - 1) \in Seq(S)
        /\ Len(SubSeq(s, 1, Len(s) - 1)) =
             IF 1 <= Len(s) - 1 THEN Len(s) - 1 - 1 + 1 ELSE 0
        /\ \A i \in 1..(Len(s) - 1 - 1 + 1) : SubSeq(s, 1, Len(s) - 1)[i] = s[1 + i - 1]
    BY <2>1, SubSeqProperties
  <2>3. Len(s) - 1 - 1 + 1 = Len(s) - 1 /\ \A i \in 1..(Len(s) - 1) : 1 + i - 1 = i
    BY <1>2
  <2>4. Len(SubSeq(s, 1, Len(s) - 1)) = Len(s) - 1
    <3>1. CASE Len(s) = 1
      BY <2>2, <3>1
    <3>2. CASE Len(s) > 1
      <4>1. 1 <= Len(s) - 1
        BY <1>2, <3>2
      <4>2. Len(SubSeq(s, 1, Len(s) - 1)) = Len(s) - 1 - 1 + 1
        BY <2>2, <4>1, Zenon
      <4> QED BY <2>3, <4>2, Zenon
    <3>3. \A n \in Nat \ {0} : n = 1 \/ n > 1
      OBVIOUS
    <3>4. Len(s) = 1 \/ Len(s) > 1
      BY <1>2, <3>3, Zenon
    <3> QED BY <3>1, <3>2, <3>4, Zenon
  <2>5. \A i \in 1..(Len(s) - 1) : SubSeq(s, 1, Len(s) - 1)[i] = s[i]
    BY <1>2, <2>2, <2>3
  <2> QED BY <2>2, <2>4, <2>5 DEF Front
<1> QED BY <1>1, <1>2, <1>3, <1>4 DEF S

(* Every step of a thread preserves the lock's and the shutdown's part of the *)
(* invariant: one case per action.                                           *)
LEMMA StepInv ==
  ASSUME LifecycleInv, NEW t \in Threads, Continue(t) \/ Begin(t)
  PROVE  (TypeOK /\ LockInv /\ OrderInv /\ DeinitInv)'
<1> USE LifecycleAssumption
    DEF lockVars, jsVars, refVars, Goto, TypeOK, LockInv, OrderInv, DeinitInv,
        InDeinit, Kinds, Labels, Inside, Running, Closing, Dropping, Outside
<1>0. TypeOK /\ LockInv /\ OrderInv /\ DeinitInv
  BY DEF LifecycleInv
(* Calls that run JavaScript *)
<1>1. CASE CallEngine(t)
  BY <1>0, <1>1 DEF CallEngine, AtCallSite
<1>2. CASE CallWrapper(t)
  BY <1>0, <1>2 DEF CallWrapper, AtCallSite
<1>3. CASE Gate(t)
  BY <1>0, <1>3 DEF Gate, Return
<1>4. CASE Lock(t)
  BY <1>0, <1>4 DEF Lock, Acquire
<1>5. CASE EnterCallback(t)
  BY <1>0, <1>5 DEF EnterCallback
<1>6. CASE FindContext(t)
  BY <1>0, <1>6 DEF FindContext
<1>7. CASE ConvertArgs(t)
  BY <1>0, <1>7 DEF ConvertArgs, MakeWrapper, ConvertPlain
<1>8. CASE FindExport(t)
  BY <1>0, <1>8 DEF FindExport
<1>9. CASE LookupExport(t)
  BY <1>0, <1>9 DEF LookupExport
<1>10. CASE ConvertMethodArgs(t)
  BY <1>0, <1>10 DEF ConvertMethodArgs, MakeWrapper, ConvertPlain
<1>11. CASE EnterHandler(t)
  BY <1>0, <1>11 DEF EnterHandler
<1>12. CASE NativeReturns(t)
  BY <1>0, <1>12 DEF NativeReturns
<1>13. CASE ScriptReturns(t)
  BY <1>0, <1>13 DEF ScriptReturns
<1>14. CASE ConvertResult(t)
  BY <1>0, <1>14 DEF ConvertResult, MakeWrapper, ConvertPlain
<1>15. CASE FreeResult(t)
  BY <1>0, <1>15 DEF FreeResult
<1>16. CASE Unlock(t)
  BY <1>0, <1>16 DEF Unlock, Release, Return
<1>17. CASE UseFreedRuntime(t)
  BY <1>0, <1>17 DEF UseFreedRuntime
(* The deinit of a wrapper *)
<1>18. CASE DropWrapper(t)
  BY <1>0, <1>18 DEF DropWrapper
<1>19. CASE WrapperGate(t)
  <2>1. leaked' \subseteq Kinds /\ pc' \in [Threads -> Labels] /\ pins' \subseteq Threads
    <3>1. CASE ~shuttingDown
      <4>1. leaked' = leaked /\ pins' = pins
        BY <1>0, <1>19, <3>1 DEF WrapperGate
      <4>2. pc' = [pc EXCEPT ![t] = "wLock"]
        BY <1>0, <1>19, <3>1 DEF WrapperGate
      <4> QED BY <1>0, <4>1, <4>2
    <3>2. CASE shuttingDown
      BY <1>0, <1>19, <3>2 DEF WrapperGate, Return
    <3> QED BY <3>1, <3>2
  <2>2. TypeOK'
    BY <1>0, <1>19, <2>1 DEF WrapperGate
  <2>3. LockInv' /\ OrderInv'
    BY <1>0, <1>19 DEF WrapperGate, Return
  <2>4. DeinitInv'
    BY <1>0, <1>19 DEF WrapperGate, Return
  <2> QED BY <2>2, <2>3, <2>4
<1>20. CASE WrapperLock(t)
  BY <1>0, <1>20 DEF WrapperLock, Acquire
<1>21. CASE FreeWrapper(t)
  BY <1>0, <1>21 DEF FreeWrapper
<1>22. CASE WrapperUnlock(t)
  BY <1>0, <1>22 DEF WrapperUnlock, Release, Return
(* shutdown and the deinit of the engine *)
<1>23. CASE CallShutdown(t)
  BY <1>0, <1>23 DEF CallShutdown, AtCallSite
<1>24. CASE DropEngine(t)
  BY <1>0, <1>24 DEF DropEngine
<1>25. CASE RaiseFlag(t)
  BY <1>0, <1>25 DEF RaiseFlag
<1>26. CASE ShutdownLock(t)
  BY <1>0, <1>26 DEF ShutdownLock, Acquire
<1>27. CASE Detach(t)
  <2>1. TypeOK'
    BY <1>0, <1>27 DEF Detach
  <2>2. LockInv' /\ OrderInv'
    BY <1>0, <1>27 DEF Detach
  <2>3. DeinitInv'
    BY <1>0, <1>27 DEF Detach
  <2> QED BY <2>1, <2>2, <2>3
<1>28. CASE FreeContext(t)
  BY <1>0, <1>28 DEF FreeContext
<1>29. CASE ClearExports(t)
  <2>1. ~opaque /\ opaque' = opaque
    BY <1>0, <1>29 DEF ClearExports
  <2>2. TypeOK'
    BY <1>0, <1>29 DEF ClearExports
  <2>3. LockInv'
    BY <1>0, <1>29 DEF ClearExports
  <2>4. OrderInv'
    <3>1. (opaque => exports)'
      BY <2>1
    <3>2. (context # "live" => shuttingDown)' /\ (runtime = "freed" => context # "live")'
      BY <1>0, <1>29 DEF ClearExports
    <3>3. \A u \in Threads :
            /\ (pc[u] \in Closing \cup {"sdLock", "freeRuntime"} => shuttingDown)'
            /\ (pc[u] \in {"freeContext", "clear"} => ~opaque)'
            /\ (pc[u] \in {"clear", "sdUnlock", "freeRuntime"} => context # "live")'
      BY <1>0, <1>29, <2>1 DEF ClearExports
    <3> QED BY <3>1, <3>2, <3>3
  <2>5. DeinitInv'
    BY <1>0, <1>29 DEF ClearExports
  <2> QED BY <2>2, <2>3, <2>4, <2>5
<1>30. CASE ShutdownUnlock(t)
  BY <1>0, <1>30 DEF ShutdownUnlock, Release, Return
<1>31. CASE FreeRuntime(t)
  BY <1>0, <1>31 DEF FreeRuntime, Return
(* Getters of conversions, and the object of a constructor *)
<1>32. CASE RunGetter(t)
  <2>1. /\ pc' = [pc EXCEPT ![t] = "js"] /\ fuel' = [fuel EXCEPT ![t] = fuel[t] - 1]
        /\ pc[t] \in Converting /\ fuel[t] > 0
        /\ UNCHANGED <<shuttingDown, owner, depth, opaque, closedBy, exports, context,
                       runtime, holders, pins, wraps, leaked, fault>>
    BY <1>32 DEF RunGetter
  <2> QED BY <1>0, <2>1 DEF Converting
<1>33. CASE GetterReturns(t)
  <2>1. Last(suspended[t]).at \in Converting
    BY <1>33, LastFrame DEF GetterReturns, InGetter, LifecycleInv
  <2>2. PICK l \in Converting : pc' = [pc EXCEPT ![t] = l]
    BY <1>33, <2>1 DEF GetterReturns
  <2>3. /\ pc[t] = "js"
        /\ UNCHANGED <<shuttingDown, owner, depth, opaque, closedBy, exports, context,
                       runtime, holders, pins, wraps, leaked, fault, fuel>>
    BY <1>33 DEF GetterReturns
  <2> QED BY <1>0, <2>2, <2>3 DEF Converting
<1>34. CASE CreateObject(t)
  BY <1>0, <1>34 DEF CreateObject
<1> QED
  BY <1>1, <1>2, <1>3, <1>4, <1>5, <1>6, <1>7, <1>8, <1>9, <1>10, <1>11, <1>12,
     <1>13, <1>14, <1>15, <1>16, <1>17, <1>18, <1>19, <1>20, <1>21, <1>22,
     <1>23, <1>24, <1>25, <1>26, <1>27, <1>28, <1>29, <1>30, <1>31, <1>32, <1>33,
     <1>34
  DEF Continue, Begin

(* What a step may do to the conversions that wait and to the context, in one  *)
(* line for each kind of step: it starts a getter, ends one, locks, unlocks,   *)
(* takes the context away, or does none of that.                              *)
LEMMA StepKinds ==
  ASSUME LifecycleInv, NEW t \in Threads, Continue(t) \/ Begin(t)
  PROVE  /\ \A u \in Threads \ {t} : pc'[u] = pc[u] /\ depth'[u] = depth[u]
         /\ \/ RunGetter(t)
            \/ GetterReturns(t)
            \/ /\ suspended' = suspended
               /\ \/ depth'[t] = depth[t] + 1
                  \/ /\ pc[t] \in Ending /\ pc'[t] \notin Ending
                     /\ depth'[t] = depth[t] - 1
                  \/ /\ depth'[t] = depth[t]
                     /\ pc'[t] \in Ending =>
                          \/ pc[t] \in Ending
                          \/ pc[t] = "js" /\ ~InGetter(t)
         /\ \/ pc'[t] \notin InCallback
            \/ pc[t] \in InCallback
            \/ opaque
            \/ GetterReturns(t)
         /\ \/ UNCHANGED <<opaque, closedBy, exports>>
            \/ /\ pc[t] \in Closing /\ pc'[t] \notin InCallback
               /\ closedBy' = t \/ (~opaque /\ UNCHANGED closedBy)
               /\ ~opaque'
<1> USE LifecycleAssumption
    DEF lockVars, jsVars, refVars, Goto, TypeOK, LockInv, OrderInv,
        InCallback, Closing, Dropping, Ending
<1>0. TypeOK /\ LockInv /\ OrderInv
  BY DEF LifecycleInv
<1>1. CASE CallEngine(t)
  BY <1>0, <1>1 DEF CallEngine, AtCallSite
<1>2. CASE CallWrapper(t)
  BY <1>0, <1>2 DEF CallWrapper, AtCallSite
<1>3. CASE Gate(t)
  BY <1>0, <1>3 DEF Gate, Return
<1>4. CASE Lock(t)
  BY <1>0, <1>4 DEF Lock, Acquire
<1>5. CASE EnterCallback(t)
  BY <1>0, <1>5 DEF EnterCallback
<1>6. CASE FindContext(t)
  BY <1>0, <1>6 DEF FindContext
<1>7. CASE ConvertArgs(t)
  BY <1>0, <1>7 DEF ConvertArgs, MakeWrapper, ConvertPlain
<1>8. CASE FindExport(t)
  BY <1>0, <1>8 DEF FindExport
<1>9. CASE CreateObject(t)
  BY <1>0, <1>9 DEF CreateObject
<1>10. CASE LookupExport(t)
  BY <1>0, <1>10 DEF LookupExport
<1>11. CASE ConvertMethodArgs(t)
  BY <1>0, <1>11 DEF ConvertMethodArgs, MakeWrapper, ConvertPlain
<1>12. CASE EnterHandler(t)
  BY <1>0, <1>12 DEF EnterHandler
<1>13. CASE NativeReturns(t)
  BY <1>0, <1>13 DEF NativeReturns
<1>14. CASE GetterReturns(t)
  BY <1>0, <1>14 DEF GetterReturns
<1>15. CASE RunGetter(t)
  BY <1>0, <1>15 DEF RunGetter
<1>16. CASE ScriptReturns(t)
  BY <1>0, <1>16 DEF ScriptReturns
<1>17. CASE ConvertResult(t)
  BY <1>0, <1>17 DEF ConvertResult, MakeWrapper, ConvertPlain
<1>18. CASE FreeResult(t)
  BY <1>0, <1>18 DEF FreeResult
<1>19. CASE Unlock(t)
  BY <1>0, <1>19 DEF Unlock, Release, Return
<1>20. CASE UseFreedRuntime(t)
  BY <1>0, <1>20 DEF UseFreedRuntime
<1>21. CASE DropWrapper(t)
  BY <1>0, <1>21 DEF DropWrapper
<1>22. CASE WrapperGate(t)
  BY <1>0, <1>22 DEF WrapperGate, Return
<1>23. CASE WrapperLock(t)
  BY <1>0, <1>23 DEF WrapperLock, Acquire
<1>24. CASE FreeWrapper(t)
  BY <1>0, <1>24 DEF FreeWrapper
<1>25. CASE WrapperUnlock(t)
  BY <1>0, <1>25 DEF WrapperUnlock, Release, Return
<1>26. CASE CallShutdown(t)
  BY <1>0, <1>26 DEF CallShutdown, AtCallSite
<1>27. CASE DropEngine(t)
  BY <1>0, <1>27 DEF DropEngine
<1>28. CASE RaiseFlag(t)
  BY <1>0, <1>28 DEF RaiseFlag
<1>29. CASE ShutdownLock(t)
  BY <1>0, <1>29 DEF ShutdownLock, Acquire
<1>30. CASE Detach(t)
  <2>1. /\ pc[t] = "detach" /\ pc' = [pc EXCEPT ![t] = "freeContext"]
        /\ opaque' = FALSE /\ UNCHANGED <<owner, depth, suspended>>
    BY <1>30 DEF Detach
  <2>2. closedBy' = t \/ (~opaque /\ UNCHANGED closedBy)
    BY <1>30, Zenon DEF Detach
  <2>3. pc'[t] = "freeContext" /\ \A u \in Threads \ {t} : pc'[u] = pc[u]
    BY <1>0, <2>1
  <2> QED BY <1>0, <2>1, <2>2, <2>3
<1>31. CASE FreeContext(t)
  BY <1>0, <1>31 DEF FreeContext
<1>32. CASE ClearExports(t)
  BY <1>0, <1>32 DEF ClearExports
<1>33. CASE ShutdownUnlock(t)
  BY <1>0, <1>33 DEF ShutdownUnlock, Release, Return
<1>34. CASE FreeRuntime(t)
  BY <1>0, <1>34 DEF FreeRuntime, Return
<1> QED
  BY <1>1, <1>2, <1>3, <1>4, <1>5, <1>6, <1>7, <1>8, <1>9, <1>10, <1>11, <1>12,
     <1>13, <1>14, <1>15, <1>16, <1>17, <1>18, <1>19, <1>20, <1>21, <1>22,
     <1>23, <1>24, <1>25, <1>26, <1>27, <1>28, <1>29, <1>30, <1>31, <1>32,
     <1>33, <1>34
  DEF Continue, Begin

(* The conversions that wait stay nested: each waits inside the lock. *)
LEMMA SuspendedStep ==
  ASSUME LifecycleInv, NEW t \in Threads, Continue(t) \/ Begin(t)
  PROVE  SuspendedInv'
<1>0. /\ SuspendedInv /\ LockInv
      /\ depth[t] \in Nat /\ depth'[t] \in Nat /\ pc \in [Threads -> Labels]
  BY StepInv DEF LifecycleInv, TypeOK
<1>1. ASSUME NEW u \in Threads \ {t}, NEW i \in 1..Len(suspended'[u])
      PROVE  /\ suspended'[u][i].depth \in 1..depth'[u]
             /\ pc'[u] \in Ending => suspended'[u][i].depth < depth'[u]
             /\ \A j \in 1..Len(suspended'[u]) : i < j =>
                  /\ suspended'[u][i].depth <= suspended'[u][j].depth
                  /\ suspended'[u][j].at = "convert" =>
                       suspended'[u][i].depth < suspended'[u][j].depth
  <2>1. suspended'[u] = suspended[u]
    BY <1>0, StepKinds DEF RunGetter, GetterReturns, SuspendedInv
  <2>2. pc'[u] = pc[u] /\ depth'[u] = depth[u]
    BY StepKinds
  <2> QED BY <1>0, <2>1, <2>2 DEF SuspendedInv
<1>2. ASSUME NEW i \in 1..Len(suspended'[t])
      PROVE  /\ suspended'[t][i].depth \in 1..depth'[t]
             /\ pc'[t] \in Ending => suspended'[t][i].depth < depth'[t]
             /\ \A j \in 1..Len(suspended'[t]) : i < j =>
                  /\ suspended'[t][i].depth <= suspended'[t][j].depth
                  /\ suspended'[t][j].at = "convert" =>
                       suspended'[t][i].depth < suspended'[t][j].depth
  <2> DEFINE S == [at : Converting, depth : Nat]
  <2>0. PICK s \in Seq(S) : s = suspended[t]
    BY <1>0 DEF SuspendedInv
  <2>b. Len(s) \in Nat /\ \A k \in 1..Len(s) : s[k].depth \in Nat
    <3> HIDE DEF S
    <3>1. Len(s) \in Nat /\ \A k \in 1..Len(s) : s[k] \in S
      BY <2>0
    <3> QED BY <3>1 DEF S
  <2>a. \A k \in 1..Len(s) :
          /\ s[k].depth \in 1..depth[t]
          /\ pc[t] \in Ending => s[k].depth < depth[t]
          /\ \A j \in 1..Len(s) : k < j =>
               /\ s[k].depth <= s[j].depth
               /\ s[j].at = "convert" => s[k].depth < s[j].depth
    BY <1>0, <2>0 DEF SuspendedInv
  <2> HIDE DEF S
  <2>1. CASE RunGetter(t)
    <3>1. /\ suspended'[t] = Append(s, [at |-> pc[t], depth |-> depth[t]])
          /\ depth'[t] = depth[t] /\ pc'[t] = "js"
      BY <1>0, <2>0, <2>1 DEF RunGetter, Goto, lockVars, SuspendedInv
    <3>2. /\ Len(suspended'[t]) = Len(s) + 1
          /\ \A k \in 1..Len(s) : suspended'[t][k] = s[k]
          /\ suspended'[t][Len(s) + 1] = [at |-> pc[t], depth |-> depth[t]]
      BY <2>0, <2>b, <3>1
    <3>3. /\ suspended'[t][Len(s) + 1].at = pc[t]
          /\ suspended'[t][Len(s) + 1].depth = depth[t]
      BY <3>2
    <3>4. depth[t] > 0 /\ "js" \notin Ending /\ ("convert" \in Ending)
      BY <1>0, <2>1 DEF RunGetter, LockInv, Inside, Running, Converting, Ending, Closing,
         Dropping
    <3>5. ASSUME NEW j \in 1..Len(suspended'[t]), i < j
          PROVE  /\ suspended'[t][i].depth <= suspended'[t][j].depth
                 /\ suspended'[t][j].at = "convert" =>
                      suspended'[t][i].depth < suspended'[t][j].depth
      <4>1. i \in 1..Len(s) /\ suspended'[t][i] = s[i]
        BY <2>b, <3>2, <3>5
      <4>2. CASE j \in 1..Len(s)
        BY <2>a, <3>2, <3>5, <4>1, <4>2
      <4>3. CASE j = Len(s) + 1
        BY <2>a, <2>b, <3>3, <3>4, <4>1, <4>3
      <4> QED BY <2>b, <3>2, <4>2, <4>3
    <3>6. suspended'[t][i].depth \in 1..depth[t]
      <4>1. CASE i \in 1..Len(s)
        BY <2>a, <3>2, <4>1
      <4>2. CASE i = Len(s) + 1
        BY <1>0, <3>3, <3>4, <4>2
      <4> QED BY <2>b, <3>2, <4>1, <4>2
    <3> QED BY <3>1, <3>4, <3>5, <3>6
  <2>2. CASE GetterReturns(t)
    <3>1. s # <<>> /\ Last(s).depth = depth[t]
      BY <2>0, <2>2 DEF GetterReturns, InGetter
    <3>2. suspended'[t] = Front(s) /\ depth'[t] = depth[t] /\ pc'[t] = Last(s).at
      BY <1>0, <2>0, <2>2 DEF GetterReturns, Goto, lockVars, SuspendedInv
    <3>3. /\ Len(s) \in Nat \ {0} /\ Last(s) = s[Len(s)] /\ Last(s).at \in Converting
          /\ Len(suspended'[t]) = Len(s) - 1
          /\ \A k \in 1..(Len(s) - 1) : suspended'[t][k] = s[k]
      BY <1>0, <2>0, <3>1, <3>2, LastFrame
    <3>4. pc'[t] \in Ending => s[Len(s)].at = "convert"
      BY <3>2, <3>3 DEF Converting, Ending, Closing, Dropping
    <3>5. i \in 1..Len(s) /\ i < Len(s) /\ Len(s) \in 1..Len(s)
      BY <3>3
    <3>6. pc'[t] \in Ending => s[i].depth < depth[t]
      BY <2>a, <3>1, <3>3, <3>4, <3>5
    <3>7. ASSUME NEW j \in 1..Len(suspended'[t]), i < j
          PROVE  /\ suspended'[t][i].depth <= suspended'[t][j].depth
                 /\ suspended'[t][j].at = "convert" =>
                      suspended'[t][i].depth < suspended'[t][j].depth
      <4>1. j \in 1..Len(s) /\ suspended'[t][j] = s[j] /\ suspended'[t][i] = s[i]
        BY <3>3
      <4> QED BY <2>a, <3>5, <3>7, <4>1
    <3>8. suspended'[t][i] = s[i] /\ s[i].depth \in 1..depth[t]
      BY <2>a, <3>3, <3>5
    <3> QED BY <3>2, <3>6, <3>7, <3>8
  <2>3. CASE suspended' = suspended /\ depth'[t] = depth[t] + 1
    <3>1. i \in 1..Len(s) /\ suspended'[t] = s
      BY <2>0, <2>3
    <3>2. s[i].depth \in 1..depth'[t] /\ s[i].depth < depth'[t]
      BY <1>0, <2>a, <2>3, <3>1
    <3> QED BY <2>a, <3>1, <3>2
  <2>4. CASE /\ suspended' = suspended /\ pc[t] \in Ending /\ pc'[t] \notin Ending
             /\ depth'[t] = depth[t] - 1
    <3>1. \A k \in 1..Len(s) : s[k].depth < depth[t]
      BY <2>a, <2>4
    <3> QED BY <1>0, <2>0, <2>a, <2>b, <2>4, <3>1
  <2>5. CASE /\ suspended' = suspended /\ depth'[t] = depth[t]
             /\ pc'[t] \in Ending =>
                  \/ pc[t] \in Ending
                  \/ pc[t] = "js" /\ ~InGetter(t)
    <3>1. CASE pc'[t] \notin Ending \/ pc[t] \in Ending
      BY <2>0, <2>a, <2>5, <3>1
    <3>2. CASE pc[t] = "js" /\ ~InGetter(t)
      <4>1. i \in 1..Len(s) /\ s # <<>>
        BY <2>0, <2>b, <2>5
      <4>2. s[Len(s)].depth # depth[t]
        BY <2>0, <3>2, <4>1 DEF InGetter, Last
      <4>3. Len(s) \in 1..Len(s) /\ s[Len(s)].depth < depth[t]
        BY <1>0, <2>a, <2>b, <4>1, <4>2
      <4>4. s[i].depth <= s[Len(s)].depth
        BY <2>a, <2>b, <4>1, <4>3
      <4>5. s[i].depth < depth[t]
        BY <1>0, <2>b, <4>1, <4>3, <4>4
      <4> QED BY <2>0, <2>a, <2>5, <4>1, <4>5
    <3> QED BY <2>5, <3>1, <3>2
  <2>6. \/ RunGetter(t)
        \/ GetterReturns(t)
        \/ /\ suspended' = suspended
           /\ \/ depth'[t] = depth[t] + 1
              \/ /\ pc[t] \in Ending /\ pc'[t] \notin Ending
                 /\ depth'[t] = depth[t] - 1
              \/ /\ depth'[t] = depth[t]
                 /\ pc'[t] \in Ending =>
                      \/ pc[t] \in Ending
                      \/ pc[t] = "js" /\ ~InGetter(t)
    BY ONLY StepKinds, LifecycleInv, t \in Threads, Continue(t) \/ Begin(t)
  <2> QED BY <2>1, <2>2, <2>3, <2>4, <2>5, <2>6, Zenon
<1>3. suspended' \in [Threads -> Seq([at : Converting, depth : Nat])]
  <2>1. CASE RunGetter(t)
    <3>1. [at |-> pc[t], depth |-> depth[t]] \in [at : Converting, depth : Nat]
      BY <1>0, <2>1 DEF RunGetter
    <3>2. Append(suspended[t], [at |-> pc[t], depth |-> depth[t]])
            \in Seq([at : Converting, depth : Nat])
      BY <1>0, <3>1, AppendProperties DEF SuspendedInv
    <3> QED BY <1>0, <2>1, <3>2 DEF RunGetter, SuspendedInv
  <2>2. CASE GetterReturns(t)
    <3>1. Front(suspended[t]) \in Seq([at : Converting, depth : Nat])
      BY <1>0, <2>2, LastFrame DEF GetterReturns, InGetter
    <3> QED BY <1>0, <2>2, <3>1 DEF GetterReturns, SuspendedInv
  <2>3. CASE suspended' = suspended
    BY <1>0, <2>3 DEF SuspendedInv
  <2> QED BY <2>1, <2>2, <2>3, StepKinds
<1>4. \A u \in Threads : u = t \/ u \in Threads \ {t}
  OBVIOUS
<1> QED BY <1>1, <1>2, <1>3, <1>4 DEF SuspendedInv

(* Only the owner of the lock takes the context away, and a callback that      *)
(* found it, waiting for a getter or not, owns the lock.                       *)
LEMMA ContextStep ==
  ASSUME LifecycleInv, NEW t \in Threads, Continue(t) \/ Begin(t)
  PROVE  ContextLostOnlyToItself'
<1>0. /\ SuspendedInv /\ LockInv /\ OrderInv /\ ContextLostOnlyToItself
      /\ pc \in [Threads -> Labels]
      /\ suspended \in [Threads -> Seq([at : Converting, depth : Nat])]
  BY DEF LifecycleInv, TypeOK, SuspendedInv
<1>1. ASSUME NEW u \in Threads, HasFoundContext(u) PROVE owner = u
  <2>1. CASE pc[u] \in InCallback
    BY <1>0, <2>1 DEF LockInv, Inside, Running, InCallback
  <2>2. CASE \E i \in DOMAIN suspended[u] : suspended[u][i].at \in InCallback
    <3>1. PICK i \in 1..Len(suspended[u]) : suspended[u][i].at \in InCallback
      BY <1>0, <2>2
    <3>2. suspended[u][i].depth \in 1..depth[u]
      BY <1>0, <3>1 DEF SuspendedInv
    <3>3. depth[u] > 0
      BY <3>2 DEF LifecycleInv, TypeOK
    <3> QED BY <1>0, <3>3 DEF LockInv
  <2> QED BY <1>1, <2>1, <2>2 DEF HasFoundContext
<1>2. \A u \in Threads \ {t} : HasFoundContext(u)' => HasFoundContext(u)
  BY <1>0, StepKinds DEF HasFoundContext, RunGetter, GetterReturns
<1>3. HasFoundContext(t)' => HasFoundContext(t) \/ opaque
  <2> SUFFICES ASSUME HasFoundContext(t)', ~opaque PROVE HasFoundContext(t)
    OBVIOUS
  <2>1. CASE RunGetter(t)
    <3>1. /\ suspended'[t] = Append(suspended[t], [at |-> pc[t], depth |-> depth[t]])
          /\ pc'[t] = "js" /\ suspended[t] \in Seq([at : Converting, depth : Nat])
      BY <1>0, <2>1 DEF RunGetter, Goto
    <3>2. pc'[t] \notin InCallback
      BY <3>1 DEF InCallback
    <3>3. PICK i \in DOMAIN suspended'[t] : suspended'[t][i].at \in InCallback
      BY <3>2 DEF HasFoundContext
    <3>4. \/ i \in DOMAIN suspended[t] /\ suspended'[t][i] = suspended[t][i]
          \/ suspended'[t][i] = [at |-> pc[t], depth |-> depth[t]]
      BY <3>1
    <3> QED BY <3>3, <3>4 DEF HasFoundContext
  <2>2. CASE GetterReturns(t)
    <3>1. /\ suspended'[t] = Front(suspended[t]) /\ pc'[t] = Last(suspended[t]).at
          /\ suspended[t] # <<>> /\ suspended[t] \in Seq([at : Converting, depth : Nat])
      BY <1>0, <2>2 DEF GetterReturns, InGetter, Goto
    <3>2. /\ DOMAIN suspended[t] = 1..Len(suspended[t])
          /\ DOMAIN Front(suspended[t]) = 1..(Len(suspended[t]) - 1)
          /\ Len(suspended[t]) \in DOMAIN suspended[t]
          /\ \A k \in 1..(Len(suspended[t]) - 1) :
               Front(suspended[t])[k] = suspended[t][k]
          /\ Last(suspended[t]) = suspended[t][Len(suspended[t])]
      BY <1>0, <3>1, LastFrame
    <3>3. CASE pc'[t] \in InCallback
      BY <3>1, <3>2, <3>3 DEF HasFoundContext
    <3>4. CASE \E i \in DOMAIN suspended'[t] : suspended'[t][i].at \in InCallback
      <4>1. PICK i \in 1..(Len(suspended[t]) - 1) :
              Front(suspended[t])[i].at \in InCallback
        BY <3>1, <3>2, <3>4
      <4>2. i \in DOMAIN suspended[t] /\ suspended[t][i].at \in InCallback
        BY <3>2, <4>1
      <4> QED BY <4>2 DEF HasFoundContext
    <3> QED BY <3>3, <3>4 DEF HasFoundContext
  <2>3. CASE suspended' = suspended /\ (pc'[t] \notin InCallback \/ pc[t] \in InCallback)
    BY <2>3 DEF HasFoundContext
  <2> QED BY <2>1, <2>2, <2>3, StepKinds
<1>4. ASSUME NEW u \in Threads, HasFoundContext(u)'
      PROVE  (opaque' /\ exports') \/ closedBy' = u
  <2>1. CASE UNCHANGED <<opaque, closedBy, exports>>
    BY <1>0, <1>2, <1>3, <1>4, <2>1 DEF ContextLostOnlyToItself, OrderInv
  <2>2. CASE /\ pc[t] \in Closing /\ pc'[t] \notin InCallback
             /\ closedBy' = t \/ (~opaque /\ UNCHANGED closedBy)
    <3>1. owner = t
      BY <1>0, <2>2 DEF LockInv, Inside
    <3>2. u = t
      BY <1>1, <1>2, <1>4, <3>1
    <3> QED BY <1>0, <1>3, <1>4, <2>2, <3>2 DEF ContextLostOnlyToItself
  <2> QED BY <2>1, <2>2, StepKinds
<1> QED BY <1>4 DEF ContextLostOnlyToItself

(* The invariant survives every step, steps after the process died included. *)
LEMMA NextInv == LifecycleInv /\ [Next]_vars => LifecycleInv'
<1> SUFFICES ASSUME LifecycleInv, [Next]_vars PROVE LifecycleInv'
  OBVIOUS
<1>1. CASE UNCHANGED vars
  BY <1>1 DEF vars, LifecycleInv, TypeOK, LockInv, OrderInv, DeinitInv, InDeinit,
     SuspendedInv, ContextLostOnlyToItself, HasFoundContext
<1>2. CASE \E t \in Threads : Continue(t) \/ Begin(t)
  BY <1>2, StepInv, SuspendedStep, ContextStep DEF LifecycleInv
<1> QED BY <1>1, <1>2 DEF Next, Terminated

(* LifecycleInv holds of every reachable state of an engine that any number  *)
(* of threads use, shut down and let go of.                                  *)
THEOREM LifecycleInvariance == Spec => []LifecycleInv
BY InitInv, NextInv, PTL DEF Spec

(* Calls into JavaScript are serialized (performThreadSafe and shutdown). *)
THEOREM MutualExclusion == Spec => []OneThreadInside
<1>1. LifecycleInv => OneThreadInside
  <2> SUFFICES ASSUME LifecycleInv, NEW t \in Threads, NEW u \in Threads
               PROVE  /\ (pc[t] \in Inside /\ pc[u] \in Inside) => t = u
                      /\ pc[t] \in {"idle", "freeRuntime"} => owner # t
    BY DEF OneThreadInside
  <2>1. (pc[t] \in Inside => owner = t) /\ (pc[u] \in Inside => owner = u)
    BY DEF LifecycleInv, LockInv
  <2>2. pc[t] \in {"idle", "freeRuntime"} => ~(depth[t] > 0)
    BY DEF LifecycleInv, LockInv
  <2>3. depth[t] > 0 <=> owner = t
    BY DEF LifecycleInv, LockInv
  <2> QED BY <2>1, <2>2, <2>3
<1> QED BY <1>1, LifecycleInvariance, PTL

(* No other thread's shutdown takes the context that a callback has found away *)
(* before its native code starts, getters that its conversions run included.  *)
THEOREM CallbackContext == Spec => []ContextLostOnlyToItself
<1>1. LifecycleInv => ContextLostOnlyToItself
  BY DEF LifecycleInv
<1> QED BY <1>1, LifecycleInvariance, PTL

(* No method of JSEngine runs on a freed runtime; only wrapper calls can. *)
THEOREM RuntimeOutlivesEngineCalls == Spec => []OnlyWrappersOutliveEngine
<1>1. LifecycleInv => OnlyWrappersOutliveEngine
  BY DEF LifecycleInv, DeinitInv, OnlyWrappersOutliveEngine
<1> QED BY <1>1, LifecycleInvariance, PTL

-----------------------------------------------------------------------------
(* While the engine is quiet the only threads inside are shutdowns, so every  *)
(* action of a running call is disabled and the gate turns new calls away.   *)
LEMMA QuietStep ==
  ASSUME LifecycleInv, Quiet, NEW t \in Threads, Continue(t) \/ Begin(t)
  PROVE  Quiet'
<1> USE LifecycleAssumption DEF lockVars, jsVars, refVars, Goto, Quiet, Closing
<1>1. /\ TypeOK
      /\ shuttingDown
      /\ pc[t] \notin Running \cup Dropping \cup {"lock", "wLock"}
      /\ depth[t] > 0 => depth[t] = 1 /\ pc[t] \in Closing
      /\ pc[t] \in Closing => depth[t] = 1
  BY DEF LifecycleInv, TypeOK, LockInv, Inside, Running, Dropping
<1>2. /\ depth[t] \in Nat
      /\ \A u \in Threads : depth[u] \in Nat
  BY DEF LifecycleInv, TypeOK
<1>3. ~(\/ Lock(t) \/ EnterCallback(t) \/ FindContext(t) \/ ConvertArgs(t)
        \/ FindExport(t) \/ LookupExport(t) \/ ConvertMethodArgs(t)
        \/ CreateObject(t) \/ RunGetter(t) \/ GetterReturns(t)
        \/ EnterHandler(t) \/ NativeReturns(t) \/ ScriptReturns(t)
        \/ ConvertResult(t) \/ FreeResult(t) \/ Unlock(t) \/ WrapperLock(t)
        \/ FreeWrapper(t) \/ WrapperUnlock(t))
  BY <1>1 DEF Running, Converting, Dropping, CreateObject, RunGetter,
     GetterReturns, Lock, EnterCallback, FindContext, ConvertArgs,
     FindExport, LookupExport, ConvertMethodArgs, EnterHandler, NativeReturns,
     ScriptReturns, ConvertResult, FreeResult, Unlock, WrapperLock, FreeWrapper,
     WrapperUnlock
<1> USE DEF TypeOK
<1>4. CASE CallEngine(t)
  BY <1>1, <1>2, <1>4 DEF CallEngine, AtCallSite
<1>5. CASE CallWrapper(t)
  BY <1>1, <1>2, <1>5 DEF CallWrapper, AtCallSite
<1>6. CASE Gate(t)
  BY <1>1, <1>2, <1>6 DEF Gate, Return
<1>7. CASE UseFreedRuntime(t)
  BY <1>1, <1>2, <1>7 DEF UseFreedRuntime
<1>8. CASE DropWrapper(t)
  BY <1>1, <1>2, <1>8 DEF DropWrapper
<1>9. CASE WrapperGate(t)
  BY <1>1, <1>2, <1>9 DEF WrapperGate, Return
<1>10. CASE CallShutdown(t)
  BY <1>1, <1>2, <1>10 DEF CallShutdown, AtCallSite
<1>11. CASE DropEngine(t)
  BY <1>1, <1>2, <1>11 DEF DropEngine
<1>12. CASE RaiseFlag(t)
  BY <1>1, <1>2, <1>12 DEF RaiseFlag
<1>13. CASE ShutdownLock(t)
  BY <1>1, <1>2, <1>13 DEF ShutdownLock, Acquire
<1>14. CASE Detach(t)
  BY <1>1, <1>2, <1>14 DEF Detach
<1>15. CASE FreeContext(t)
  BY <1>1, <1>2, <1>15 DEF FreeContext
<1>16. CASE ClearExports(t)
  BY <1>1, <1>2, <1>16 DEF ClearExports
<1>17. CASE ShutdownUnlock(t)
  <2>1. depth' = [depth EXCEPT ![t] = 0]
    BY <1>1, <1>17 DEF ShutdownUnlock, Release
  <2>2. pc' = [pc EXCEPT ![t] = "freeRuntime"] \/ pc' = [pc EXCEPT ![t] = "idle"]
    BY <1>1, <1>17 DEF ShutdownUnlock, Return
  <2>3. shuttingDown'
    BY <1>1, <1>17 DEF ShutdownUnlock
  <2> QED BY <1>1, <1>2, <2>1, <2>2, <2>3
<1>18. CASE FreeRuntime(t)
  BY <1>1, <1>2, <1>18 DEF FreeRuntime, Return
<1> QED BY <1>3, <1>4, <1>5, <1>6, <1>7, <1>8, <1>9, <1>10, <1>11, <1>12, <1>13,
   <1>14, <1>15, <1>16, <1>17, <1>18 DEF Continue, Begin

(* Once shut down and left by the calls it overtook, the engine runs no      *)
(* JavaScript ever again.                                                    *)
THEOREM EngineStaysDead == Spec => DeadStaysDead
<1>1. LifecycleInv /\ [Next]_vars => [Quiet => Quiet']_vars
  <2> SUFFICES ASSUME LifecycleInv, Next, Quiet PROVE Quiet' \/ UNCHANGED vars
    OBVIOUS
  <2> QED BY QuietStep DEF Next, Terminated
<1> QED BY <1>1, LifecycleInvariance, PTL DEF Spec, DeadStaysDead

-----------------------------------------------------------------------------
(* Each step of a thread is a step of SerialEngine, or leaves it alone. *)
LEMMA SerialStep ==
  ASSUME LifecycleInv, NEW t \in Threads, Continue(t) \/ Begin(t)
  PROVE  Serial!Next \/ UNCHANGED Serial!vars
<1> USE LifecycleAssumption
    DEF lockVars, jsVars, refVars, Goto, Waiting, Serial!vars
<1>1. TypeOK /\ LockInv /\ OrderInv /\ DeinitInv
  BY DEF LifecycleInv
<1> USE DEF TypeOK
<1>2. CASE CallEngine(t)
  BY <1>1, <1>2 DEF CallEngine, Phase, AtCallSite
<1>3. CASE CallWrapper(t)
  BY <1>1, <1>3 DEF CallWrapper, Phase, AtCallSite
<1>4. CASE EnterCallback(t)
  BY <1>1, <1>4 DEF EnterCallback, Phase
<1>5. CASE FindContext(t)
  BY <1>1, <1>5 DEF FindContext, Phase
<1>6. CASE ConvertArgs(t)
  BY <1>1, <1>6 DEF ConvertArgs, Phase, MakeWrapper, ConvertPlain
<1>7. CASE FindExport(t)
  BY <1>1, <1>7 DEF FindExport, Phase
<1>8. CASE LookupExport(t)
  BY <1>1, <1>8 DEF LookupExport, Phase
<1>9. CASE ConvertMethodArgs(t)
  BY <1>1, <1>9 DEF ConvertMethodArgs, Phase, MakeWrapper, ConvertPlain
<1>10. CASE EnterHandler(t)
  BY <1>1, <1>10 DEF EnterHandler, Phase
<1>11. CASE NativeReturns(t)
  BY <1>1, <1>11 DEF NativeReturns, Phase
<1>12. CASE ScriptReturns(t)
  BY <1>1, <1>12 DEF ScriptReturns, Phase
<1>13. CASE ConvertResult(t)
  BY <1>1, <1>13 DEF ConvertResult, Phase, MakeWrapper, ConvertPlain
<1>14. CASE FreeResult(t)
  BY <1>1, <1>14 DEF FreeResult, Phase
<1>15. CASE UseFreedRuntime(t)
  BY <1>1, <1>15 DEF UseFreedRuntime, Phase
<1>16. CASE DropWrapper(t)
  BY <1>1, <1>16 DEF DropWrapper, Phase
<1>17. CASE FreeWrapper(t)
  BY <1>1, <1>17 DEF FreeWrapper, Phase
<1>18. CASE CallShutdown(t)
  BY <1>1, <1>18 DEF CallShutdown, Phase, AtCallSite
<1>19. CASE DropEngine(t)
  BY <1>1, <1>19 DEF DropEngine, Phase
<1>20. CASE Detach(t)
  BY <1>1, <1>20 DEF Detach, Phase
<1>21. CASE ClearExports(t)
  BY <1>1, <1>21 DEF ClearExports, Phase
<1>22. CASE Gate(t)
  <2>1. Serial!Admit(t) \/ UNCHANGED Serial!vars
    BY <1>1, <1>22 DEF Gate, Phase, Serial!Admit, LockInv, OrderInv, DeinitInv,
       InDeinit, Inside, Running, Closing, Dropping, Return
  <2> QED BY <2>1 DEF Serial!Next
<1>23. CASE WrapperGate(t)
  <2>1. Serial!Admit(t) \/ UNCHANGED Serial!vars
    BY <1>1, <1>23 DEF WrapperGate, Phase, Serial!Admit, LockInv, OrderInv,
       DeinitInv, InDeinit, Inside, Running, Closing, Dropping, Return
  <2> QED BY <2>1 DEF Serial!Next
<1>24. CASE Lock(t)
  <2>1. Serial!Enter(t)
    BY <1>1, <1>24 DEF Lock, Phase, Serial!Enter, LockInv, OrderInv, DeinitInv,
       InDeinit, Inside, Running, Closing, Dropping, Acquire
  <2> QED BY <2>1 DEF Serial!Next
<1>25. CASE WrapperLock(t)
  <2>1. Serial!Enter(t)
    BY <1>1, <1>25 DEF WrapperLock, Phase, Serial!Enter, LockInv, OrderInv,
       DeinitInv, InDeinit, Inside, Running, Closing, Dropping, Acquire
  <2> QED BY <2>1 DEF Serial!Next
<1>26. CASE ShutdownLock(t)
  <2>1. Serial!Enter(t)
    BY <1>1, <1>26 DEF ShutdownLock, Phase, Serial!Enter, LockInv, OrderInv,
       DeinitInv, InDeinit, Inside, Running, Closing, Dropping, Acquire
  <2> QED BY <2>1 DEF Serial!Next
<1>27. CASE Unlock(t)
  <2>1. Serial!Leave(t) \/ UNCHANGED Serial!vars
    BY <1>1, <1>27 DEF Unlock, Phase, Serial!Leave, LockInv, OrderInv, DeinitInv,
       InDeinit, Inside, Running, Closing, Dropping, Release, Return
  <2> QED BY <2>1 DEF Serial!Next
<1>28. CASE WrapperUnlock(t)
  <2>1. Serial!Leave(t) \/ UNCHANGED Serial!vars
    BY <1>1, <1>28 DEF WrapperUnlock, Phase, Serial!Leave, LockInv, OrderInv,
       DeinitInv, InDeinit, Inside, Running, Closing, Dropping, Release, Return
  <2> QED BY <2>1 DEF Serial!Next
<1>29. CASE ShutdownUnlock(t)
  <2>1. Serial!Leave(t) \/ UNCHANGED Serial!vars
    BY <1>1, <1>29 DEF ShutdownUnlock, Phase, Serial!Leave, LockInv, OrderInv,
       DeinitInv, InDeinit, Inside, Running, Closing, Dropping, Release, Return
  <2> QED BY <2>1 DEF Serial!Next
<1>30. CASE RaiseFlag(t)
  <2>1. Serial!Announce(t)
    BY <1>1, <1>30 DEF RaiseFlag, Phase, Serial!Announce, LockInv, OrderInv,
       DeinitInv, InDeinit, Inside, Running, Closing, Dropping
  <2> QED BY <2>1 DEF Serial!Next
<1>31. CASE FreeContext(t)
  <2>1. Serial!Close(t) \/ UNCHANGED Serial!vars
    BY <1>1, <1>31 DEF FreeContext, Phase, Serial!Close, LockInv, OrderInv,
       DeinitInv, InDeinit, Inside, Running, Closing, Dropping
  <2> QED BY <2>1 DEF Serial!Next
<1>32. CASE FreeRuntime(t)
  <2>1. Serial!Retire
    BY <1>1, <1>32 DEF FreeRuntime, Phase, Serial!Retire, LockInv, OrderInv,
       DeinitInv, InDeinit, Inside, Running, Closing, Dropping, Return
  <2> QED BY <2>1 DEF Serial!Next
<1>33. CASE RunGetter(t)
  BY <1>1, <1>33 DEF RunGetter, Phase, Converting
<1>34. CASE GetterReturns(t)
  <2>1. Last(suspended[t]).at \in Converting
    BY <1>34, LastFrame DEF GetterReturns, InGetter, LifecycleInv
  <2> QED BY <1>1, <1>34, <2>1 DEF GetterReturns, Phase, Converting
<1>35. CASE CreateObject(t)
  BY <1>1, <1>35 DEF CreateObject, Phase
<1> QED BY <1>2, <1>3, <1>4, <1>5, <1>6, <1>7, <1>8, <1>9, <1>10, <1>11, <1>12,
   <1>13, <1>14, <1>15, <1>16, <1>17, <1>18, <1>19, <1>20, <1>21, <1>22, <1>23,
   <1>24, <1>25, <1>26, <1>27, <1>28, <1>29, <1>30, <1>31, <1>32, <1>33, <1>34,
   <1>35 DEF Continue, Begin

(* The engine implements SerialEngine: an implementation of one activity at a *)
(* time, whose admission closes for good when a shutdown announces itself.    *)
THEOREM ImplementsSerialEngine == Spec => SerialSpec
<1>1. Init => Serial!Init
  BY DEF Init, Serial!Init, Waiting, Phase
<1>2. LifecycleInv /\ [Next]_vars => [Serial!Next]_(Serial!vars)
  <2> SUFFICES ASSUME LifecycleInv, [Next]_vars
               PROVE  Serial!Next \/ UNCHANGED Serial!vars
    OBVIOUS
  <2>1. CASE UNCHANGED vars
    BY <2>1 DEF vars, Serial!vars, Waiting, Phase
  <2>2. CASE \E t \in Threads : Continue(t) \/ Begin(t)
    BY <2>2, SerialStep
  <2> QED BY <2>1, <2>2 DEF Next, Terminated
<1> QED BY <1>1, <1>2, LifecycleInvariance, PTL DEF Spec, SerialSpec, Serial!Spec
=============================================================================
