--------------------------- MODULE EngineLifecycle ---------------------------
(***************************************************************************)
(* The life of one JSEngine: the gate, the recursive execution lock, the   *)
(* calls that run JavaScript, the native callbacks they make, shutdown,    *)
(* deinit and the wrappers (JSFunction, JSClass) that outlive the engine.  *)
(*                                                                         *)
(* Each critical section of exportLock (Context.swift) reads or writes one *)
(* field and calls nothing, so it is one atomic step.  executionLock is    *)
(* explicit: it is recursive, and it is held while JavaScript runs.        *)
(*                                                                         *)
(* JavaScript calls native code (a callback) and native code calls the      *)
(* engine again, which takes the lock once more: a frame below such a call  *)
(* is at "native", and depth[t] says how many there are.  A conversion of   *)
(* arguments or of a result reads properties, whose getters are JavaScript: *)
(* suspended[t] has the conversions that wait for one, the innermost last,  *)
(* each with the depth at which it waits.                                   *)
(***************************************************************************)
EXTENDS Naturals, Sequences, SequencesExt

CONSTANTS
  Threads,    \* the threads of the host program
  NoThread,   \* executionLock is free
  MaxDepth,   \* bound: nesting of calls on one thread
  MaxCalls    \* bound: calls, callbacks and getters of each thread

ASSUME LifecycleAssumption ==
  /\ NoThread \notin Threads
  /\ MaxDepth \in Nat \ {0}
  /\ MaxCalls \in [Threads -> Nat]

VARIABLES
  shuttingDown, \* JSContext.shuttingDown, guarded by exportLock
  owner, depth, \* executionLock: the holding thread and its recursion count
  pc,           \* where each thread is
  suspended,    \* the conversions of each thread that run a getter
  opaque,       \* the JSContextRef's opaque pointer is set
  closedBy,     \* history: the thread that took the opaque pointer away
  exports,      \* the export tables of JSContext hold what was exported
  context,      \* the JSContext's one reference to the QuickJS context
  runtime,      \* the QuickJS runtime
  holders,      \* threads with a strong reference to the JSEngine
  pins,         \* threads with a strong reference to the JSContext object
  wraps,        \* threads that hold a JSFunction or JSClass
  leaked,       \* kinds of native handle whose JS_FreeValue was skipped
  fault,        \* how the process died
  fuel          \* calls, callbacks and getters each thread may still make

lockVars   == <<owner, depth>>
jsVars     == <<suspended, opaque, closedBy, exports, context, runtime>>
refVars    == <<holders, pins, wraps>>
vars       == <<shuttingDown, owner, depth, pc, suspended, opaque, closedBy,
                exports, context, runtime, holders, pins, wraps, leaked, fault, fuel>>

Kinds      == {"result", "wrapper", "builtins", "globalRef"}
Converting == {"args", "create", "methodArgs", "convert"}
InCallback == {"args", "find", "create", "lookup", "methodArgs"}
Running    == {"js", "opaque", "args", "find", "create", "lookup", "methodArgs",
               "native", "convert", "free", "unlock"}
Closing    == {"detach", "freeContext", "clear", "sdUnlock"}
Dropping   == {"wFree", "wUnlock"}
Ending     == {"convert", "free", "unlock"} \cup Closing \cup Dropping
Outside    == {"gate", "lock", "wGate", "wLock", "sdFlag", "sdLock"}
Inside     == Running \cup Closing \cup Dropping
Labels     == Inside \cup Outside \cup {"idle", "freeRuntime"}

TypeOK ==
  /\ shuttingDown \in BOOLEAN
  /\ owner \in Threads \cup {NoThread}
  /\ depth \in [Threads -> Nat]
  /\ pc \in [Threads -> Labels]
  /\ opaque \in BOOLEAN
  /\ closedBy \in Threads \cup {NoThread}
  /\ exports \in BOOLEAN
  /\ context \in {"live", "released", "overReleased"}
  /\ runtime \in {"live", "freed"}
  /\ holders \subseteq Threads
  /\ pins \subseteq Threads
  /\ wraps \subseteq Threads
  /\ leaked \subseteq Kinds
  /\ fault \in {"none", "fatalError", "badAccess"}
  /\ fuel \in [Threads -> Nat]

-----------------------------------------------------------------------------
(* The engine as JSEngine.init leaves it, its reference shared with some    *)
(* threads; scripts that ran before may have left wrappers with any thread. *)
Init ==
  /\ shuttingDown = FALSE
  /\ owner = NoThread
  /\ depth = [t \in Threads |-> 0]
  /\ pc = [t \in Threads |-> "idle"]
  /\ suspended = [t \in Threads |-> <<>>]
  /\ opaque = TRUE
  /\ closedBy = NoThread
  /\ exports = TRUE
  /\ context = "live"
  /\ runtime = "live"
  /\ holders \in (SUBSET Threads) \ {{}}
  /\ pins = {}
  /\ wraps \in SUBSET Threads
  /\ leaked = {}
  /\ fault = "none"
  /\ fuel = MaxCalls

Goto(t, label) == pc' = [pc EXCEPT ![t] = label]

(* The call that is d frames deep ends: control is back in the native code *)
(* that made it.  A thread keeps its JSContext references until it is out. *)
Return(t, d) ==
  /\ Goto(t, IF d = 0 THEN "idle" ELSE "native")
  /\ pins' = IF d = 0 THEN pins \ {t} ELSE pins

(* Mutant: a lock that is not recursive. *)
AcquirePlain(t) ==
  /\ owner = NoThread
  /\ owner' = t
  /\ depth' = [depth EXCEPT ![t] = @ + 1]

(* NSRecursiveLock.lock: free, or already held by the caller. *)
Acquire(t) ==
  /\ owner \in {NoThread, t}
  /\ owner' = t
  /\ depth' = [depth EXCEPT ![t] = @ + 1]

(* Mutant: the first of the nested unlocks frees the lock. *)
ReleaseAtOnce(t) ==
  /\ depth' = [depth EXCEPT ![t] = @ - 1]
  /\ owner' = NoThread

(* NSRecursiveLock.unlock: the last of the nested unlocks frees the lock. *)
Release(t) ==
  /\ depth' = [depth EXCEPT ![t] = @ - 1]
  /\ owner' = IF depth[t] = 1 THEN NoThread ELSE owner

(* Native code runs, outside the engine or in a callback, and may call.    *)
AtCallSite(t) ==
  /\ pc[t] \in {"idle", "native"}
  /\ depth[t] < MaxDepth
  /\ fuel[t] > 0
  /\ fuel' = [fuel EXCEPT ![t] = @ - 1]

-----------------------------------------------------------------------------
(* Calls that run JavaScript.                                              *)

(* evaluate, setValue, export, isExported, setLimits, perform: methods of  *)
(* JSEngine, called through a strong reference.                            *)
CallEngine(t) ==
  /\ AtCallSite(t)
  /\ t \in holders
  /\ Goto(t, "gate")
  /\ UNCHANGED <<shuttingDown, lockVars, jsVars, refVars, leaked, fault>>

(* The weak reference of a wrapper can be upgraded: somebody still holds    *)
(* the JSContext strongly.                                                  *)
ContextObjectAlive == runtime = "live" \/ pins # {}

(* JSFunction.call, JSClass.call, value(for:), setValue: `guard let context`*)
(* upgrades the weak reference or the call returns nil.                     *)
CallWrapper(t) ==
  /\ AtCallSite(t)
  /\ t \in wraps
  /\ ContextObjectAlive
  /\ pins' = pins \cup {t}
  /\ Goto(t, "gate")
  /\ UNCHANGED <<shuttingDown, lockVars, jsVars, holders, wraps, leaked, fault>>

(* Mutant: performThreadSafe does not ask whether the context shuts down. *)
GateOpen(t) ==
  /\ pc[t] = "gate"
  /\ Goto(t, "lock")
  /\ UNCHANGED <<shuttingDown, lockVars, jsVars, refVars, leaked, fault, fuel>>

(* performThreadSafe reads isShuttingDown under exportLock ...              *)
Gate(t) ==
  /\ pc[t] = "gate"
  /\ \/ /\ ~shuttingDown
        /\ Goto(t, "lock")
        /\ UNCHANGED pins
     \/ /\ shuttingDown
        /\ Return(t, depth[t])
  /\ UNCHANGED <<shuttingDown, lockVars, jsVars, holders, wraps, leaked, fault,
                 fuel>>

(* ... and takes executionLock afterwards; the flag is not read again.      *)
Lock(t) ==
  /\ pc[t] = "lock"
  /\ Acquire(t)
  /\ Goto(t, "js")
  /\ UNCHANGED <<shuttingDown, jsVars, refVars, leaked, fault, fuel>>

(* JavaScript calls an exported function, method, getter, setter or         *)
(* constructor: QuickJS enters typedCall, typedGetter, ...                  *)
EnterCallback(t) ==
  /\ pc[t] = "js"
  /\ fuel[t] > 0
  /\ fuel' = [fuel EXCEPT ![t] = @ - 1]
  /\ Goto(t, "opaque")
  /\ UNCHANGED <<shuttingDown, lockVars, jsVars, refVars, leaked, fault>>

(* The callback finds its JSContext through the opaque pointer, or returns  *)
(* undefined.  typedCall, typedConstruct and typedSetter convert arguments   *)
(* before they look for the export; typedGetter and typedInstanceMethod look *)
(* first.                                                                    *)
FindContext(t) ==
  /\ pc[t] = "opaque"
  /\ \/ opaque /\ \E next \in {"args", "lookup"} : Goto(t, next)
     \/ ~opaque /\ Goto(t, "js")
  /\ UNCHANGED <<shuttingDown, lockVars, jsVars, refVars, leaked, fault, fuel>>

(* A JS function or class instance becomes a wrapper: its initializer stops *)
(* the process when the context is shutting down.                           *)
MakeWrapper(t, next) ==
  \/ /\ shuttingDown
     /\ fault' = "fatalError"
     /\ UNCHANGED <<pc, wraps>>
  \/ /\ ~shuttingDown
     /\ wraps' = wraps \cup {t}
     /\ Goto(t, next)
     /\ UNCHANGED fault

(* A value that needs no wrapper.                                           *)
ConvertPlain(t, next) == Goto(t, next) /\ UNCHANGED <<wraps, fault>>

(* A conversion, or the making of an object, reads or writes a property whose *)
(* accessor is JavaScript, which may call exports in turn.                    *)
RunGetter(t) ==
  /\ pc[t] \in Converting
  /\ fuel[t] > 0
  /\ fuel' = [fuel EXCEPT ![t] = @ - 1]
  /\ suspended' = [suspended EXCEPT ![t] = Append(@, [at |-> pc[t], depth |-> depth[t]])]
  /\ Goto(t, "js")
  /\ UNCHANGED <<shuttingDown, lockVars, opaque, closedBy, exports, context, runtime,
                 refVars, leaked, fault>>

(* The JavaScript that runs at the current depth is a getter's. *)
InGetter(t) == suspended[t] # <<>> /\ Last(suspended[t]).depth = depth[t]

(* The conversion goes on, whatever the getter has done to the engine. *)
GetterReturns(t) ==
  /\ pc[t] = "js"
  /\ InGetter(t)
  /\ Goto(t, Last(suspended[t]).at)
  /\ suspended' = [suspended EXCEPT ![t] = Front(@)]
  /\ UNCHANGED <<shuttingDown, lockVars, opaque, closedBy, exports, context, runtime,
                 refVars, leaked, fault, fuel>>

(* jsArgsToTypes *)
ConvertArgs(t) ==
  /\ pc[t] = "args"
  /\ MakeWrapper(t, "find") \/ ConvertPlain(t, "find")
  /\ UNCHANGED <<shuttingDown, lockVars, jsVars, holders, pins, leaked, fuel>>

(* context.findExport, then the exported native code, or for a constructor   *)
(* the making of its object; undefined if nothing is found.                  *)
FindExport(t) ==
  /\ pc[t] = "find"
  /\ \/ exports /\ \E next \in {"native", "create"} : Goto(t, next)
     \/ ~exports /\ Goto(t, "js")
  /\ UNCHANGED <<shuttingDown, lockVars, jsVars, refVars, leaked, fault, fuel>>

(* js_create_from_ctor and JS_SetProperty of __instanceAtom: both look at       *)
(* prototypes that scripts can change.  Then the native construct.             *)
CreateObject(t) ==
  /\ pc[t] = "create"
  /\ Goto(t, "native")
  /\ UNCHANGED <<shuttingDown, lockVars, jsVars, refVars, leaked, fault, fuel>>

(* The same for typedGetter, which goes on to the native getter, and         *)
(* typedInstanceMethod, which now reads __instanceAtom of the object and      *)
(* converts its arguments.                                                   *)
LookupExport(t) ==
  /\ pc[t] = "lookup"
  /\ \/ exports /\ \E next \in {"native", "methodArgs"} : Goto(t, next)
     \/ ~exports /\ Goto(t, "js")
  /\ UNCHANGED <<shuttingDown, lockVars, jsVars, refVars, leaked, fault, fuel>>

ConvertMethodArgs(t) ==
  /\ pc[t] = "methodArgs"
  /\ MakeWrapper(t, "native") \/ ConvertPlain(t, "native")
  /\ UNCHANGED <<shuttingDown, lockVars, jsVars, holders, pins, leaked, fuel>>

(* Native code that runs inside the closure without a callback: the         *)
(* exceptionHandler called for a thrown value, and perform's own closure.   *)
EnterHandler(t) ==
  /\ pc[t] = "js"
  /\ fuel[t] > 0
  /\ fuel' = [fuel EXCEPT ![t] = @ - 1]
  /\ Goto(t, "native")
  /\ UNCHANGED <<shuttingDown, lockVars, jsVars, refVars, leaked, fault>>

(* returnJSValueRef: the native function returned or threw; either way a    *)
(* JS value goes back to the script.                                        *)
NativeReturns(t) ==
  /\ pc[t] = "native"
  /\ Goto(t, "js")
  /\ UNCHANGED <<shuttingDown, lockVars, jsVars, refVars, leaked, fault, fuel>>

(* JS_Eval or JS_Call is back in the closure.                               *)
ScriptReturns(t) ==
  /\ pc[t] = "js"
  /\ ~InGetter(t)
  /\ Goto(t, "convert")
  /\ UNCHANGED <<shuttingDown, lockVars, jsVars, refVars, leaked, fault, fuel>>

(* result.toJSConvertible *)
ConvertResult(t) ==
  /\ pc[t] = "convert"
  /\ MakeWrapper(t, "free") \/ ConvertPlain(t, "free")
  /\ UNCHANGED <<shuttingDown, lockVars, jsVars, holders, pins, leaked, fuel>>

(* result.free goes through performThreadSafe itself: JS_FreeValue is       *)
(* skipped once the flag is up.                                             *)
FreeResult(t) ==
  /\ pc[t] = "free"
  /\ leaked' = IF shuttingDown THEN leaked \cup {"result"} ELSE leaked
  /\ Goto(t, "unlock")
  /\ UNCHANGED <<shuttingDown, lockVars, jsVars, refVars, fault, fuel>>

Unlock(t) ==
  /\ pc[t] = "unlock"
  /\ Release(t)
  /\ Return(t, depth[t] - 1)
  /\ UNCHANGED <<shuttingDown, jsVars, holders, wraps, leaked, fault, fuel>>

(* QuickJS code that runs on a freed runtime may do anything; the outcomes  *)
(* kept are that it goes on, as above, and that the process dies.           *)
UseFreedRuntime(t) ==
  /\ pc[t] \in {"js", "wFree"}
  /\ runtime = "freed"
  /\ fault' = "badAccess"
  /\ UNCHANGED <<shuttingDown, lockVars, pc, jsVars, refVars, leaked, fuel>>

-----------------------------------------------------------------------------
(* The deinit of a JSFunction or JSClass: value.free(context).              *)

DropWrapper(t) ==
  /\ pc[t] \in {"idle", "native"}
  /\ depth[t] < MaxDepth
  /\ t \in wraps
  /\ wraps' = wraps \ {t}
  /\ \/ /\ ContextObjectAlive
        /\ pins' = pins \cup {t}
        /\ Goto(t, "wGate")
     \/ /\ ~ContextObjectAlive
        /\ UNCHANGED <<pins, pc>>
  /\ UNCHANGED <<shuttingDown, lockVars, jsVars, holders, leaked, fault, fuel>>

WrapperGate(t) ==
  /\ pc[t] = "wGate"
  /\ \/ /\ ~shuttingDown
        /\ Goto(t, "wLock")
        /\ UNCHANGED <<leaked, pins>>
     \/ /\ shuttingDown
        /\ leaked' = leaked \cup {"wrapper"}
        /\ Return(t, depth[t])
  /\ UNCHANGED <<shuttingDown, lockVars, jsVars, holders, wraps, fault, fuel>>

WrapperLock(t) ==
  /\ pc[t] = "wLock"
  /\ Acquire(t)
  /\ Goto(t, "wFree")
  /\ UNCHANGED <<shuttingDown, jsVars, refVars, leaked, fault, fuel>>

FreeWrapper(t) ==
  /\ pc[t] = "wFree"
  /\ Goto(t, "wUnlock")
  /\ UNCHANGED <<shuttingDown, lockVars, jsVars, refVars, leaked, fault, fuel>>

WrapperUnlock(t) ==
  /\ pc[t] = "wUnlock"
  /\ Release(t)
  /\ Return(t, depth[t] - 1)
  /\ UNCHANGED <<shuttingDown, jsVars, holders, wraps, leaked, fault, fuel>>

-----------------------------------------------------------------------------
(* JSContext.shutdown, called by JSEngine.shutdown and by deinit.           *)

CallShutdown(t) ==
  /\ AtCallSite(t)
  /\ t \in holders
  /\ Goto(t, "sdFlag")
  /\ UNCHANGED <<shuttingDown, lockVars, jsVars, refVars, leaked, fault>>

(* The last strong reference goes: deinit runs on the thread that drops it. *)
(* Bound: the host drops its reference outside callbacks.                   *)
DropEngine(t) ==
  /\ pc[t] = "idle"
  /\ t \in holders
  /\ holders' = holders \ {t}
  /\ IF holders = {t} THEN Goto(t, "sdFlag") ELSE UNCHANGED pc
  /\ UNCHANGED <<shuttingDown, lockVars, jsVars, pins, wraps, leaked, fault, fuel>>

RaiseFlag(t) ==
  /\ pc[t] = "sdFlag"
  /\ shuttingDown' = TRUE
  /\ Goto(t, "sdLock")
  /\ UNCHANGED <<lockVars, jsVars, refVars, leaked, fault, fuel>>

(* Mutant: shutdown does its work without waiting for the lock. *)
ShutdownNoLock(t) ==
  /\ pc[t] = "sdLock"
  /\ owner' = t
  /\ depth' = [depth EXCEPT ![t] = @ + 1]
  /\ Goto(t, "detach")
  /\ UNCHANGED <<shuttingDown, jsVars, refVars, leaked, fault, fuel>>

ShutdownLock(t) ==
  /\ pc[t] = "sdLock"
  /\ Acquire(t)
  /\ Goto(t, "detach")
  /\ UNCHANGED <<shuttingDown, jsVars, refVars, leaked, fault, fuel>>

(* builtIns?.free, the opaque pointer, globalRef.free.  Both frees go       *)
(* through performThreadSafe, which this shutdown has already closed.       *)
Detach(t) ==
  /\ pc[t] = "detach"
  /\ opaque' = FALSE
  /\ (opaque /\ closedBy' = t) \/ (~opaque /\ UNCHANGED closedBy)
  /\ leaked' = IF shuttingDown THEN leaked \cup {"builtins", "globalRef"}
                               ELSE leaked
  /\ Goto(t, "freeContext")
  /\ UNCHANGED <<shuttingDown, lockVars, suspended, exports, context, runtime, refVars,
                 fault, fuel>>

(* JS_FreeContext drops one reference.  shutdown does not ask whether an     *)
(* earlier shutdown dropped the JSContext's: the second one drops another's. *)
FreeContext(t) ==
  /\ pc[t] = "freeContext"
  /\ context' = IF context = "live" THEN "released" ELSE "overReleased"
  /\ Goto(t, "clear")
  /\ UNCHANGED <<shuttingDown, lockVars, suspended, opaque, closedBy, exports, runtime, refVars,
                 leaked, fault, fuel>>

ClearExports(t) ==
  /\ pc[t] = "clear"
  /\ exports' = FALSE
  /\ Goto(t, "sdUnlock")
  /\ UNCHANGED <<shuttingDown, lockVars, suspended, opaque, closedBy, context, runtime, refVars,
                 leaked, fault, fuel>>

(* Mutant: shutdown() frees the runtime too, whoever still holds the engine. *)
ShutdownUnlockAndFree(t) ==
  /\ pc[t] = "sdUnlock"
  /\ Release(t)
  /\ Goto(t, "freeRuntime")
  /\ UNCHANGED <<shuttingDown, jsVars, refVars, leaked, fault, fuel>>

(* shutdown ends; deinit goes on to JS_FreeRuntime, outside the lock.  No   *)
(* holder is left only in deinit.                                           *)
ShutdownUnlock(t) ==
  /\ pc[t] = "sdUnlock"
  /\ Release(t)
  /\ IF holders = {} THEN Goto(t, "freeRuntime") /\ UNCHANGED pins
                     ELSE Return(t, depth[t] - 1)
  /\ UNCHANGED <<shuttingDown, jsVars, holders, wraps, leaked, fault, fuel>>

FreeRuntime(t) ==
  /\ pc[t] = "freeRuntime"
  /\ runtime' = "freed"
  /\ Return(t, 0)
  /\ UNCHANGED <<shuttingDown, lockVars, suspended, opaque, closedBy, exports, context, holders,
                 wraps, leaked, fault, fuel>>

-----------------------------------------------------------------------------
(* What a thread must go on with once it has called, and what it may begin. *)
Continue(t) ==
  \/ Gate(t) \/ Lock(t)
  \/ FindContext(t) \/ ConvertArgs(t) \/ FindExport(t) \/ CreateObject(t)
  \/ LookupExport(t) \/ ConvertMethodArgs(t) \/ NativeReturns(t)
  \/ GetterReturns(t) \/ ScriptReturns(t) \/ ConvertResult(t) \/ FreeResult(t) \/ Unlock(t)
  \/ WrapperGate(t) \/ WrapperLock(t) \/ FreeWrapper(t) \/ WrapperUnlock(t)
  \/ RaiseFlag(t) \/ ShutdownLock(t) \/ Detach(t) \/ FreeContext(t)
  \/ ClearExports(t) \/ ShutdownUnlock(t) \/ FreeRuntime(t)

Begin(t) ==
  \/ CallEngine(t) \/ CallWrapper(t) \/ CallShutdown(t)
  \/ DropWrapper(t) \/ DropEngine(t)
  \/ EnterCallback(t) \/ EnterHandler(t) \/ RunGetter(t)
  \/ UseFreedRuntime(t)

(* The process died, or every thread is out of the engine.                  *)
Terminated ==
  /\ fault # "none" \/ \A t \in Threads : pc[t] = "idle"
  /\ UNCHANGED vars

Next ==
  \/ /\ fault = "none"
     /\ \E t \in Threads : Continue(t) \/ Begin(t)
  \/ Terminated

Spec == Init /\ [][Next]_vars

(* Scripts and native functions return and the scheduler runs every thread  *)
(* that can run.  Nothing is assumed of the lock beyond that: a waiting     *)
(* thread gets it once it stays free.                                       *)
Fairness == \A t \in Threads : WF_vars(fault = "none" /\ Continue(t))

FairSpec == Spec /\ Fairness

-----------------------------------------------------------------------------
(* Properties.                                                             *)

(* Calls into JavaScript are serialized: at any time one thread at most is  *)
(* between executionLock.lock and the matching unlock (Context.swift:117,   *)
(* 54), nested calls and shutdowns from a callback included, and a thread    *)
(* that is out again has given the lock back.                               *)
OneThreadInside ==
  \A t \in Threads :
    /\ \A u \in Threads : (pc[t] \in Inside /\ pc[u] \in Inside) => t = u
    /\ pc[t] \in {"idle", "freeRuntime"} => owner # t

(* The callbacks that found their JSContext and have not come to their native  *)
(* code: the one a thread is in, and those that wait for a getter.            *)
HasFoundContext(t) ==
  \/ pc[t] \in InCallback
  \/ \E i \in DOMAIN suspended[t] : suspended[t][i].at \in InCallback

(* A callback that found its JSContext through the opaque pointer loses it to  *)
(* nobody but itself: a getter that its own conversion runs may shut the       *)
(* engine down, and no other thread's shutdown detaches the context or clears  *)
(* the tables under it, however deep the callback is (Callbacks.swift, all     *)
(* five entry points).                                                        *)
ContextLostOnlyToItself ==
  \A t \in Threads : HasFoundContext(t) => (opaque /\ exports) \/ closedBy = t

(* Once deinit has freed the runtime the only threads still on their way     *)
(* through the engine came in through a wrapper: no method of JSEngine is     *)
(* running (Engine.swift:30).                                                *)
OnlyWrappersOutliveEngine ==
  runtime = "freed" => \A t \in Threads : pc[t] # "idle" => t \in pins

(* No thread is in the engine or past its gate, shutdowns excepted.          *)
Quiet ==
  /\ shuttingDown
  /\ \A t \in Threads :
       \/ depth[t] = 0 /\ pc[t] \notin {"lock", "wLock"}
       \/ depth[t] = 1 /\ pc[t] \in Closing

(* The engine stays dead: after shutdown() has begun and the calls it         *)
(* overtook are gone, no call runs JavaScript again, whatever wrappers and    *)
(* engine references the threads still have (Context.swift:117).             *)
DeadStaysDead == [][Quiet => Quiet']_vars

(* A shutdown that begins ends with the context released, even one called     *)
(* from a callback deep in a script, or beside threads that go on calling     *)
(* (Context.swift:49).                                                       *)
ShutdownCompletes ==
  \A t \in Threads :
    pc[t] = "sdFlag" ~> (context # "live" \/ fault # "none")

(* Every call comes back: callbacks that evaluate scripts, call wrappers or   *)
(* shut the engine down do not leave their thread waiting for itself or in a  *)
(* circle with another (Locks.swift:10).                                     *)
CallsReturn ==
  \A t \in Threads : []<>(pc[t] = "idle" \/ fault # "none")

-----------------------------------------------------------------------------
(* The parts of the inductive invariant behind these properties.            *)

(* Whoever is inside has locked, and the lock's owner and count agree.       *)
LockInv ==
  \A t \in Threads :
    /\ depth[t] > 0 <=> owner = t
    /\ pc[t] \in Inside => owner = t
    /\ pc[t] \in {"idle", "freeRuntime"} => depth[t] = 0

(* The order of shutdown: flag, detach, release, clear, and then the runtime. *)
OrderInv ==
  /\ opaque => exports
  /\ context # "live" => shuttingDown
  /\ runtime = "freed" => context # "live"
  /\ \A t \in Threads :
       /\ pc[t] \in Closing \cup {"sdLock", "freeRuntime"} => shuttingDown
       /\ pc[t] \in {"freeContext", "clear"} => ~opaque
       /\ pc[t] \in {"clear", "sdUnlock", "freeRuntime"} => context # "live"

(* The thread that runs deinit: it is shutting down and holds no reference.  *)
InDeinit(t) ==
  /\ pc[t] \in Closing \cup {"sdFlag", "sdLock", "freeRuntime"}
  /\ t \notin holders

(* deinit runs on one thread, outside callbacks, when nobody holds the        *)
(* engine; whoever else is on the way through holds the engine or a wrapper   *)
(* call's context.                                                            *)
DeinitInv ==
  /\ runtime = "freed" => holders = {}
  /\ \A t \in Threads :
       /\ pc[t] # "idle" => t \in holders \/ t \in pins \/ InDeinit(t)
       /\ pc[t] = "freeRuntime" => InDeinit(t)
       /\ InDeinit(t) =>
            /\ holders = {}
            /\ runtime = "live"
            /\ depth[t] = (IF pc[t] \in Closing THEN 1 ELSE 0)
            /\ \A u \in Threads : InDeinit(u) => u = t

(* A conversion that waits for a getter waits inside the lock.  The one of a   *)
(* result is the last of its call, and nothing of a call is left when it       *)
(* converts, frees and unlocks.                                               *)
SuspendedInv ==
  /\ suspended \in [Threads -> Seq([at : Converting, depth : Nat])]
  /\ \A t \in Threads : \A i \in 1..Len(suspended[t]) :
       /\ suspended[t][i].depth \in 1..depth[t]
       /\ pc[t] \in Ending => suspended[t][i].depth < depth[t]
       /\ \A j \in 1..Len(suspended[t]) : i < j =>
            /\ suspended[t][i].depth <= suspended[t][j].depth
            /\ suspended[t][j].at = "convert" => suspended[t][i].depth < suspended[t][j].depth

LifecycleInv ==
  /\ TypeOK
  /\ LockInv
  /\ OrderInv
  /\ DeinitInv
  /\ SuspendedInv
  /\ ContextLostOnlyToItself

-----------------------------------------------------------------------------
(* What the repository says of shutdown, and the code does not do.           *)

(* "call is already thread-safe" (Conversion.swift:492): a closure that      *)
(* performThreadSafe admits starts on a context that is still there.         *)
ClosureStartsOnLiveContext ==
  [][\A t \in Threads :
       (pc[t] = "lock" /\ pc'[t] = "js") => context = "live"]_vars

(* "Calls into JavascriptCore are all synchronized on the same serial         *)
(* dispatch queue." (README.md:13): a shutdown queued behind a running call   *)
(* does not stop the process in the middle of that call.                     *)
ShutdownSparesRunningCalls == fault # "fatalError"

(* "make sure everything gets dropped" (Context.swift:61): the handles that   *)
(* shutdown frees are freed.                                                 *)
ShutdownFreesItsHandles ==
  context # "live" => leaked \cap {"builtins", "globalRef"} = {}

(* The promise of SerialEngine, with the threads between the gate and the     *)
(* lock as the ones waiting.                                                  *)
Waiting == {t \in Threads : pc[t] \in {"lock", "wLock", "sdLock"}}

Phase ==
  CASE runtime = "freed"                       -> "gone"
    [] runtime = "live" /\ context # "live"    -> "closed"
    [] runtime = "live" /\ context = "live" /\ shuttingDown -> "closing"
    [] OTHER                                   -> "open"

Serial == INSTANCE SerialEngine
            WITH active <- owner, waiting <- Waiting, phase <- Phase

(* The engine implements SerialEngine: one activity at a time, admission      *)
(* only while the engine is open, the context released only by a shutdown    *)
(* that holds the lock, the runtime freed only after that.                   *)
SerialSpec == Serial!Spec
=============================================================================
