# Substrata-Swift: models, checks and proofs

Substrata wraps the QuickJS engine in Swift: a host program makes a
`JSEngine`, exports native functions, classes and instances to JavaScript,
evaluates scripts, and gets values back, some of them as wrappers
(`JSFunction`, `JSClass`) that call into the engine later and may outlive it.
Several threads may use one engine. QuickJS itself is vendored, as C, under
`src/Sources/SubstrataQuickJS`. This directory holds TLA+ models of the parts
that carry the library's own logic and of the parts of QuickJS whose state is
hardest to get right, the TLC configurations that check them, and TLAPS proofs.

Swift paths below are relative to `src/Sources/Substrata/`; `quickjs.c` is
`src/Sources/SubstrataQuickJS/quickjs.c`.

## Inventory

| Component | State | Operations | Hard behaviour | What makes it correct |
|---|---|---|---|---|
| `JSEngine`, `JSContext` gate (`Engine.swift`, `Internals/Context.swift`, `Utilities/Locks.swift`) | `shuttingDown` under `exportLock`; recursive `executionLock`; QuickJS context, runtime, opaque pointer | init, `performThreadSafe`, evaluate/setValue/perform, shutdown, deinit | check then lock; recursion from callbacks; shutdown beside running scripts; deinit beside wrappers | one thread in QuickJS at a time; shutdown completes, takes nothing from a callback on another thread, and is final; the runtime is freed last |
| Native callbacks (`Internals/Callbacks.swift`) | none of their own | typedCall, typedGetter, typedSetter, typedConstruct, typedInstanceMethod | re-entrance; getters that their conversions run; the context they look up may be shutting down | find the export they were made for; lose the context to nobody but themselves |
| Wrappers (`JSFunction`, `JSClass` in `Internals/Conversion.swift`) | a QuickJS value, weak context, cached methods | call, value, setValue, deinit | outlive the engine; calls and deinit race with shutdown; unlocked method cache | never use a freed engine; release what they hold |
| Export registry (`Context.swift`, `Engine.swift`, `Types.swift`, `Internals/InternalTypes.swift`) | id counters, five tables, class infos with `waitingToAttach`, names bound in JavaScript, JSExport's static tables | export function/type/instance, isExported, addExport/findExport, typedConstruct | check-then-act over two critical sections; failed scripts half-way; ids wider than QuickJS's magic; tables shared by all types | a name is not taken twice; an instance ends up behind its own object; callbacks find their export |
| Value conversion (`Conversion.swift`, `Utilities/Extensions.swift`, `typed` in `Types.swift`) | none | toJSConvertible, toJSValue of twelve types | order of kind tests; integer widths and traps; cycles | round trips keep values or fail visibly |
| Reference ownership (same files) | QuickJS reference counts | every JS_DupValue, JS_FreeValue and consuming call | a consuming call followed by a free; early returns | count = owners: no leak, no over-free |
| Key paths, `JSDataBridge` (`Engine.swift`, `DataBridge.swift`), bundle loading | JavaScript objects | value, setValue, loadBundle | failing paths, pending exceptions, error reporting | reads see writes; failures are reported |
| `Builtins`, `ConsoleJS` (`Objects/`) | a wrapper; log | init, free, log, error | freed during shutdown | – |
| Bundle loading (`Engine.swift`) | none | loadBundle | – | an error is reported |
| Memory (`quickjs.c`) | reference counts, GC lists, weak references | JS_DupValue, JS_FreeValue, JS_RunGC, JS_FreeContext, JS_FreeRuntime | the collector runs at any allocation; counts the host got wrong | exactly what nobody refers to is freed |
| Promises, jobs, async functions (`quickjs.c`) | promise state, reaction lists, job queue, async frames | resolve, reject, then, await, jobs | user code called from the middle of C functions | settled once, reactions once and in order |
| Async generators (`quickjs.c`) | state, request queue | next, return, throw, yield, await | requests while it runs or awaits | one driver, answers in order |
| Modules (`quickjs.c`) | status, DFS indices, cycle roots, pending counts, timestamps | link, evaluate, execution fulfilled or rejected | cycles, top-level await, errors, repeated imports | dependencies first, honest promises, everything runs |
| Map and Set records (`quickjs.c`) | record list, hash table, locked records | set, delete, clear, iterate, forEach, resize | changes under an iteration; failing reallocation | an ordered map |
| Rest of QuickJS | – | – | – | not modelled |

Components call each other directly; there are no messages. The shared state
is the `JSContext`; the only concurrency control is its two locks. Callbacks
run on the thread that evaluates, inside `executionLock`, and may call the
engine again.

## Modules

### EngineLifecycle

The life of one engine seen from the threads that share it. `pc[t]` says where
a thread is: at `gate` (the flag is about to be read), `lock` (waiting for
`executionLock`), `js` (QuickJS runs), in a callback (`opaque`, `args`, `find`,
`create` for a constructor, or `lookup`, `methodArgs`
for the entry points that look the export up first), in `native` code, converting
and freeing a result, dropping a wrapper (`wGate` to `wUnlock`), or in shutdown
(`sdFlag` to `sdUnlock`, then `freeRuntime` in deinit).

* `executionLock` is `owner` and `depth`; an `exportLock` section reads or
  writes one field and is one step.
* A call nests in another through native code that JavaScript called: the
  frame below is at `native` and `depth` counts it. A conversion of arguments
  or of a result reads properties (`Conversion.swift:305`, `Extensions.swift:173`,
  `Callbacks.swift:122`) and a constructor sets one (`Callbacks.swift:58`), so
  accessors may run JavaScript in the middle of it, which may call exports and so
  shut the engine down on the same thread. `suspended` is the stack of
  conversions that wait for an accessor (`RunGetter`, `GetterReturns`), each with
  the depth at which it waits. `typedGetter` and `typedInstanceMethod` look their
  export up right after the opaque pointer, with no JavaScript in between.
* `holders` are threads with a strong reference to the engine. The last one to
  let go runs deinit (`DropEngine`). A thread in a method of the engine holds
  it, so it drops it only from `idle`. Dropping the last reference from inside a
  callback is not modelled.
* A wrapper call upgrades its weak reference: `pins`. The `JSContext` object
  lives while the runtime does or somebody pins it. Pins are given back when the
  thread is out; a nested pin given back earlier would make no difference, since
  the outer frame keeps the object alive anyway.
* `leaked` records the kinds of handle whose `JS_FreeValue` the closed gate
  skipped; `fault` that the process stopped: `fatalError` in a wrapper's
  initializer, or `badAccess` for QuickJS code on a freed runtime, whose other
  outcome is that it goes on.
* A second `JS_FreeContext` is recorded as `overReleased`.

### SerialEngine

What the engine promises: admission while open, one activity at a time, closing
announced and then done by an announcer in its turn, the runtime last. It keeps
admission and turn apart, as the code does: a thread admitted before the close may
get its turn after it. `EngineLifecycle` implements it with `owner` as the active
thread, the threads between gate and lock as waiting, and the phase read off the
flag, the context and the runtime.

### ExportRegistry

The tables of an open engine (release build: a taken name makes the export
return). One step is one `performThreadSafe` closure. `export(name:)` and
`export(type:)` are two steps, check and define; `export(instance:)` is the check,
perhaps the steps of `export(type:)`, and the closure with the script
`let v = new C(); v`. `StartScript` finds a class info by type and sets
`waitingToAttach`, `EndScript` is the `new` and clears it. Between them the
script may run any JavaScript, for C may be a class or function that a script
defined (`class C extends T`): it constructs exported classes, which then take the
instance that waits, and changes globals. `script` is the script that runs;
no other thread gets the lock until it ends. `callbacks` holds
the native functions QuickJS got: the table they use, their magic, and what they were
made for. Dictionary order is arbitrary (`Orders`). Scripts construct objects, bare or
into `let` variables, and scripts or `setValue` replace and delete global names. What a
script puts under a name is one value, `Scripted`, which may be data, a function or a class.

A `let` is not a global property, shadows one, cannot be declared twice, and stays
uninitialized if its initializer throws. Getters of an object's properties are
registered with it. The static tables are JSExport's, shared by all types; `Init` is the
state after `JSEngine.init` has exported the console.

Left out: what happens after shutdown (EngineLifecycle), properties that a script
made non-configurable, static and instance properties without a setter (they take one
id instead of two), and native code that exports when JavaScript calls it: exported
functions and accessors, and the `init`, `staticInit` and `construct` of exported types. On the
thread of a running attach script such a call could replace the instance that waits or clear it.

### Conversion, KeyPaths

`Conversion` has both directions of the value conversion as operators: `ToSwift`
is `toJSConvertible` with the tests in its order, `ToJS` the `toJSValue` of each
type, over a heap of objects with a class, named properties and array elements.
Numbers are scaled: a double is a count of halves with a 4-bit mantissa, Int has
6 bits, UInt32 has 3, so that, as with 53, 64 and 32, every UInt32 is exact, large
integers are not, and Int.max rounds to a double that no longer fits in an Int.
A conversion that traps, or recurses round a cycle, gives `Stops`. Of an Error the four
properties of a JSError are converted (name, message, cause and stack), each with the same
conversion and its dangers. Getters and prototypes of a script's own are left out, and so are
exceptions that a script throws itself.

`KeyPaths` is `value(for:)` and `setValue(_:for:)` of the engine, of the data
bridge and of a JSClass, beside scripts that assign, declare by `let`, construct
and link objects. `last` remembers what the host has just written, for the property.
A failing path changes nothing: `JS_SetPropertyStr` on the exception value throws once
more, the new value is freed, the call returns false. The exception that stays pending is
overwritten by the next one and never read. (A debug build stops at an exception that no
handler takes; the model is of the release build.) A path that leads to a constructor of the
language (`x = Object; setValue(…, "x.a")`) is left out: the built-ins' own properties are no state
of the model.

### QuickJSHeap, HostReferences

`QuickJSHeap` is the memory of a runtime: the C functions are operators from heaps to heaps,
loops are folds over the code's lists (`gc_obj_list`, `tmp_obj_list`,
`gc_zero_ref_count_list`), and `JS_RunGC` is its three passes. Assertions of the code, and
any use of freed memory, are collected in `failed`. The assertion that the package disables in
`gc_decref_child` is recorded in `tolerated` instead.

`HostReferences` is who owns what: the running script (`stack`), wrappers, the engine's
global reference and context. `unowned` is the ledger of what the code gets wrong: +1 for the
value `JSClass.value(for:)` never frees and for the handles that shutdown skips, −1 for the
context that shutdown and then deinit release. `ExportFunction` is apart, in `ExportSpec`,
because it over-releases at once.

### Promises, AsyncGenerator, ModuleGraph

`Promises` follows the C functions between their calls of user code: `frames` is the stack
of C functions that wait for user code (a handler, a `then` method, a `then` getter, the body of an
async function), and while one waits user code may do all that a script may. Jobs start
on an empty stack. `then` is an ordinary property: of the promises in `Patched` user code replaces it, for a time or
for good, on the promise or on the prototype, and then what a resolving function finds there is as much up to user code
as it is for any other object. `constructor` is not followed: it is taken to be the built-in Promise, so that `await`
uses a promise as it is and `then` makes an ordinary one. To await a thenable is to make a promise, resolve it
with the thenable and await it.

`AsyncGenerator` is one generator: `js_async_generator_resume_next` is a loop whose passes are
the `Loop...` actions; the body is user code that yields, awaits, returns or throws and may call its
own generator. Iterator results are taken to have no `then` property, and memory not to run out.

`ModuleGraph` links and evaluates: the recursive C functions are recursive operators on the
state `g` of all modules. The graph, the modules with top-level await, the throwing ones and
the ones that cannot be linked are chosen in the initial state.

### MapRecords, OrderedMap

`OrderedMap` is what the language says a Map does: entries in insertion order, iterations as
positions. `MapRecords` is the code: a list of records, the hash chains, records kept alive and
empty while an iteration stands on them. It implements `OrderedMap`; an iteration's
position is the number of non-empty records up to its record. A freed record may be used again by the next
`map_add_record`. `&` is a parameter, of which only `x & m \in 0..m` is assumed; `MCMapRecords` gives it the operator of
`Bitwise`. What `list_del` leaves of a list is stated by places (`Sublist`) and what `js_map_clear` does to all records at
once (`DeleteAll`); `MapRecords_inv.cfg` has TLC check in every state of its instance that they are what `SelectSeq` selects
(`SublistSelects`) and what `map_delete_record` does record by record (`DeletesEach`). A failed `js_realloc2` leaves the table as
it is, and a successful one may give more than was asked for, so that the size need not be the power of two
that the comment at `quickjs.c:46943` asks for; `TableExact` holds all the same.

### Proof modules

`EngineLifecycleProofs`, `ExportRegistryProofs`, `AsyncGeneratorProofs`, `PromiseLemmas`, `PromisesProofs`,
`ReactionsProofs`, `MapLemmas` and `MapRecordsProofs` prove what is said under Proofs, for every value of the constants.

## Runs

| Run | Instance | Distinct states | Shows |
|---|---|---|---|
| `lifecycle` | 2 threads, nesting 2, 4 calls, callbacks and getters of one and 2 of the other, fair | 136,342 | `OneThreadInside`, `ContextLostOnlyToItself`, `OnlyWrappersOutliveEngine`, `DeadStaysDead`, refinement of `SerialEngine`, `ShutdownCompletes`, `CallsReturn` |
| `registry_threads` | 2 threads (symmetric), 2 exports, 2 objects of scripts, names `console`, `A` | 803,589 | `TypeOK`, `CallbacksFindTheirExport`, `HostsAttachedByExport` |
| `key_paths` | 18 native values, 8 paths, 5 objects, 2 script steps, 1 write | 332,669 | `ReadsWhatWasSet`, `StopsExactly` |
| `refs` | 2 objects beside the global and a builtin, 1 closure variable, 1 wrapper, 1 leak | 406,671 | `CountsAreReferences`, `NothingDangles`, `CollectsExactlyGarbage`, `ToleranceHidesOverRelease`, `TypeOK` (no list or mark is left over) |
| `promises` | 2 promises, one of them with a replaced `then`, 1 thenable, 1 async function, 2 reactions, 2 nested C frames, fair | 169,095 | `OneSettler`, `SettledForever`, `IntactPromisesAdopted`, `ReactionsRunInOrder`, `ReactionsRun`, `ResumedOnlyWhenWaiting`, `TrackerExact` |
| `async_generator` | 4 requests, 3 awaits, fair | 3,367 | `OneDriver`, `DoneIsFinal`, `AnsweredOrCompleted` |
| `modules` | all graphs of 3 modules, all forests of 4, 1 fault, 3 imports | 1,558,832 | `AssertionsHold`, `DependenciesFirst`, `PromiseIsHonest`, `ReadyInTimestampOrder`, `HangsOnlyOnStaleFlag` |
| `maps` | 2 colliding keys, 4 records, 1 iterator, 1 forEach, slack 1 | 110,463 | `RecordsCounted`, `TableExact`, refinement of `OrderedMap` |
| `lifecycle_closure` | 2 threads | | violation: a closure admitted before shutdown starts on a released context |
| `registry_attach` | 1 thread, two class names | | violation: `export(instance:)` returns an object of another instance |
| `refs_export` | as `refs`, with `export(name:)` | | violation: an exported function is freed under its name |
| `modules_run` | a chain of 3 modules, fair | | violation: an import waits for ever for a module that has finished |

Five further configurations give counterexamples to texts of the repository and can be run by hand:

| Command | Shows |
|---|---|
| `tlc -config EngineLifecycle_fatal.cfg MCEngineLifecycle` | shutdown on one thread makes a call on another stop the process (`Conversion.swift:551`) |
| `tlc -config EngineLifecycle_handles.cfg MCEngineLifecycle` | the frees in shutdown go through the gate it has closed, and never happen (`Context.swift:55-58`) |
| `tlc -config ExportRegistry_race.cfg MCExportRegistry` | two threads export one name (`Engine.swift:145`) |
| `tlc -config ExportRegistry_statics.cfg MCExportRegistry` | constructors get the statics of other types (`Types.swift:57`) |
| `tlc -config ExportRegistry_magic.cfg MCExportRegistry` | property ids outgrow QuickJS's 16-bit magic (`quickjs.c:983`) |

Why the bounds suffice.

* Lifecycle: nesting 2 gives a call inside a callback and a shutdown inside that; two calls of the second
  thread give a second shutdown, or a call after one; four of the first are a call, its callback, a getter of that
  callback's conversion and a callback or shutdown of that getter. The proofs remove these bounds.
* Registry: the name check races need two exports; attaching needs a type and an instance; the names
  include the console's, so exports collide with it; two objects of scripts let one be made in a running attach
  script and one after it.
* Key paths: a write makes an object and a script closes a cycle through it, or two scripts
  build the cycle and the write goes through it; the values include both sides of every edge (16 and 17,
  31 and 32, 7 and 8, the last valid time and one beyond).
* References: two objects make a cycle, with a closure variable between; the builtin function refers to the
  context, as all of QuickJS's do, so that contexts are part of cycles.
* Promises: adoption needs two promises; two pairs of resolving functions per promise are the
  original and the one a thenable job makes; two frames put user code inside a C function inside user code.
  One promise has the built-in `then` throughout and one may lose it, so that both ways to resolve with a promise
  occur; until it is replaced the second behaves like the first.
* Generator: a request behind a running one, behind an await and behind a return.
* Modules: three modules have every shape of cycle with an entry; the fourth, in forests, has two
  modules becoming ready together; three imports include a repeated one and one of a part of a loaded graph.
* Maps: two keys that share a chain in one table size and not in the next; one iterator and one loop on
  the same record; memory for a record of each key and for an empty one under each iteration. The proofs remove these
  bounds.

Deadlock is checked in `lifecycle`, `registry_threads` and `maps`. The other
systems may stop: a script ends, promises stay pending for ever, a bound is used up.

Fairness.

* `lifecycle`: weak fairness of each thread's `Continue`, i.e. a thread that can go on with what it has
  begun does. It says that scripts and native functions return and that the scheduler runs every
  thread; nothing is assumed about the order in which `NSRecursiveLock` serves waiters. `MaxCalls` bounds
  how often others may take the lock first.
* `promises`: user code that C code called returns, and jobs run, as in `js_std_loop`
  (`src/Sources/SubstrataQuickJS/quickjs-libc.c:4179`). Substrata itself never calls `JS_ExecutePendingJob`: in an
  engine that only Substrata drives, no reaction ever runs.
* `async_generator`: the loop goes on, the body ends or suspends, and what is awaited settles.
* `modules_run`: what the body of a module awaits settles.

## Proofs

Each specification has an inductive invariant, a conjunction of named parts at the end of the module it is about. The
configurations `EngineLifecycle_inv.cfg` (with `MCEngineLifecycle`), `AsyncGenerator_inv.cfg`, `ExportRegistry_inv.cfg` (with
`MCExportRegistry`), `Promises_inv.cfg` and `MapRecords_inv.cfg` (with `MCMapRecords`) let TLC check these invariants on the
instances of the runs. The theorems hold for any sets of threads, names, types, promises, async functions, keys and
iterators, and any bounds.

### EngineLifecycleProofs

`LifecycleInv` is inductive. None of the properties is inductive alone:

* `LockInv`: owner and count agree, and whoever is inside owns the lock. Mutual exclusion
  follows; so does that no other thread is in a callback while shutdown detaches.
* `OrderInv`: the order flag, detach, release, clear, runtime.
* `DeinitInv`: the thread in deinit is alone, holds no lock frame below, nobody holds
  the engine; anyone else on the way holds the engine or pins the context. From this, only
  wrapper calls can be overtaken by `JS_FreeRuntime`.
* `SuspendedInv`: a conversion that waits for a getter waits inside the lock, and no later than the call it belongs
  to. Otherwise a callback could still wait after its thread gave the lock back, and another thread's shutdown could
  take its context.
* `ContextLostOnlyToItself` itself. `closedBy`, the thread whose shutdown took the opaque pointer away, is a history
  variable for it.

`InitInv`, `StepInv`, `SuspendedStep` and `ContextStep` give `LifecycleInvariance`. `StepInv` has one case per action;
the other two follow from what each action may do to the conversions and to the context (`StepKinds`).
`MutualExclusion`, `CallbackContext` and `RuntimeOutlivesEngineCalls` follow.
`QuietStep` gives `EngineStaysDead`, `SerialStep` the refinement `ImplementsSerialEngine`. The
only assumption is `LifecycleAssumption`: `NoThread` is not a thread, the bounds are naturals.

### ExportRegistryProofs

`RegistryInv`: the tables are typed and the ids in them are below the counters (`Typed`), the script that runs is that of the
thread which is there (`ScriptInv`), an instance waits only during the script of its export, at a class of its type
(`WaitingInv`), `HostsAttachedByExport`, and each native function finds what it was
made for as long as no id has outgrown `magic`. `CallbacksFindTheirExport` is not inductive without the first part: an
entry is safe from a later export only because the later one takes an id nobody has. `HostsAttachedByExport` is not
inductive without the next two: a constructor call finds an instance waiting only if that instance's script made the call. The proof needs
that a type has finitely many members (`RegistryAssumption`), since ids are counted by them; Swift dictionaries are finite.

### AsyncGeneratorProofs

`GeneratorInv` adds three facts to `OneDriver` and `DoneIsFinal`: the loop is entered only when the body awaits nothing
(otherwise the loop could start the body a second time), answered and queued requests are together exactly the requests
made, in order, and after an answer that ends the iteration the state is completed or awaiting a return. The second is
itself a result, `RequestsInOrder`. The bounds are only assumed to be naturals.

### PromiseLemmas, PromisesProofs, ReactionsProofs

* `SettlingInv`. `OneSettler` counts what can settle a promise: a pair of resolving functions not yet called, a queued
  thenable job, a lookup of `then` that has not come back. A step moves the one settler from one sort to another, so
  `SettlerInv` says it without numbers: of the three sorts at most one is present, once, and one is present
  exactly if the promise is pending. That a job makes a new pair and not an old one again needs `PairsNumbered` and
  `JobsCanRun`. `TrackerExact` needs that `is_handled` says whether reactions were registered (`HandledInv`), and
  `IntactPromisesAdopted` that only promises of `Patched` are asked for `then` as other objects are. Values in jobs,
  results and promises whose `then` is looked up have been made (`JobsCanRun`, `ResultsBorn`, `GettersBorn`). `IdsInOrder` is about the history
  variable only: the next id is unused and one is left for each adoption that is queued.
* `AwaitInv`, `AsyncInv`. A function that awaits is resumed by one thing, a reaction at one promise or one queued job, and
  nothing can resume it while it runs or after it is done. This ties together the job list, all the reaction lists and
  the stack, and gives `ResumesOnlyWaiting`.
* `OrderInv`. The ids of the reactions registered at one promise increase; those that wait at it increase along its
  list, those queued increase along the job list and belong to settled promises; a reaction that has not run waits
  or is queued. The last part is what makes the order inductive: all that came before a reaction about
  to run has run, since it neither waits (the promise is settled) nor is queued later (the queue is in
  order). `OrderOf(jl, rn)` states it of a job list and a count, so that a job is followed in two moves: it is taken
  and counted (`JobCounted`), then what it does is done to the rest.

`PromiseLemmas` has the lemmas on the two sequences (what `Append`, `Tail` and concatenation do to the positions of
jobs and frames) and one lemma for each C function the actions share: `FulfillKeeps`, `ResolveKeeps`, `ThenKeeps`. Then
each of the three proofs has one lemma for scripts, one for returns and one for jobs, with a step per action. The
assumption is `PromisesAssumption`: the sorts of values are disjoint and the bounds are naturals, positive where the
model needs one.

### MapLemmas, MapRecordsProofs

All four properties of `maps` are proved, the refinement of `OrderedMap` included (`RecordsAreCounted`, `TableIsExact`,
`MapTypes`, `MapImplementsOrderedMap`). `MapInv` is inductive:

* `WellFormed` has the types, a list without repetitions that holds every record with an entry, no two records for one
  key, the exact hash table (`Exact`), and the threshold that belongs to the size of the table. `TableExact` needs all of them:
  that a table with n entries is resized only with 2n records in it (or from 1 to 4) bounds its size, and only a key that no record
  has makes appending to one chain right.
* `RecordsCounted` ties the list to the iterators and loops. `TableExact` is not inductive without it: a record that is
  unlinked when its last iteration leaves must have no entry. The proofs use it as `CountedBy(t, c)`, for any
  map state and any count of iterations, so that leaving one record and locking the next are two moves
  (`LeaveCounted`, `LockCounted`, `MoveCounted`).
* `IteratorsWellFormed`: an iterator that has let go of its map is at no record.

No induction over lists is needed. A list without repetitions is determined by its members and their order
(`SameList`, by counting the members up to a place), and `Sublist` keeps both (`SublistFacts`); from these two follow all that
the proofs need of sublists of sublists, of longer lists, and of one member less. For each C function there is one lemma
on what it does to any well formed map (`DecrefEffect`, `LockEffect`, `ValueEffect`, `LinkEffect`, `ResizeEffect`, `DeleteEffect`,
`ClearEffect`); steps of iterations only are `SameEntries`.

For the refinement, the position of a record with an entry is the place of its entry (`PositionFacts`), the next record of an
iteration is the entry after its position (`FollowingRefine`), a key has one entry (`KeyFacts`), and deleting an entry
moves the positions behind it by one (`DeleteRefine`). Each action has a lemma `...Refines`; `NextRefines` collects them.

The assumptions are `MapAssumption` (finitely many keys and iterators; `NegZero` is no key, since keys are normalized; the
bounds are naturals and the first threshold is positive) and `AndAssumption` (`x & m` is at most `m`).

### Only model-checked

* Liveness (`ShutdownCompletes`, `CallsReturn`, `ReactionsRun`, `AnsweredOrCompleted`): fairness is out of the
  prover's reach.
* `ModuleGraph`, `Conversion` and `KeyPaths` are recursive as the code is, and the prover does not take recursive operators.
* `QuickJSHeap` and `HostReferences` fold over lists that change on the way; the provers cannot expand a fold.
  `CollectsExactlyGarbage` moreover compares with reachability, which is an induction over data.
* That `Sublist` and `DeleteAll` of `MapRecords` are what `SelectSeq` and `map_delete_record` in a loop compute.

## What the checks found

1. `performThreadSafe` reads the flag before it waits (`lifecycle_closure`).
2. A type exported under two names breaks `export(instance:)` (`registry_attach`).
3. `export(name:)` releases a reference it has given away (`refs_export`).
4. A module without top-level await that had to wait for one keeps `async_evaluation` when it is done (the flag of
   the module with the await is cleared, `quickjs.c:27775`), and a later import that requires it never
   runs (`modules_run`).
5. The five configurations listed under Runs that are not part of the regular runs.

Two properties state exactly how far a promise goes, because it does not go further:

* `ReadsWhatWasSet` has to except names hidden by a `let`, last components that are no identifiers, and
  writes on cyclic objects that divert their own path; a dictionary with a member `constructor` and a
  date out of range come back as JSClass.
* `AnsweredOrCompleted`: `js_async_generator_resume_next` answers one request when it meets a completed
  generator, so requests queued behind the last one stay unanswered until the next call.

`PROJECT.json` quotes the text each violation disagrees with, and lists the hazards of
the code with the properties that cover them.

## Not modelled

* QuickJS beyond the five parts above. The parser, the bytecode compiler and interpreter, shapes, atoms,
  the built-in objects, `libregexp.c`, `libbf.c` and the Unicode tables are 80,000 lines of sequential
  algorithms on strings, numbers and tables. Their errors are in the data that a model with small sets leaves
  out, and none of them keeps state that two actors share.
* Running out of memory, except where `map_hash_resize` and `js_map_set` handle it. In particular `JS_EnqueueJob` then drops a reaction.
* Promise combinators, a promise's `constructor` and species, WeakMap and WeakSet, module loading and export resolution.
* `JSClass.methods`, filled without a lock by threads that share a wrapper: a data race on a Swift reference,
  with no defined outcome to choose from.
* Native functions, and the `init`, `staticInit` or `construct` of exported types, that export when JavaScript calls them.
* `loadBundle`: a file read and one `evaluate`. `typed(as:)`, descriptions and printing: pure functions of one value.

## Plan

1. EngineLifecycle, SerialEngine and their proofs: done.
2. ExportRegistry, Conversion and KeyPaths, QuickJSHeap and HostReferences, Promises, AsyncGenerator, ModuleGraph,
   MapRecords and OrderedMap: modelled and checked.
3. AsyncGenerator, ExportRegistry, Promises and MapRecords: all their safety properties proved, and the refinements of
   SerialEngine and OrderedMap.
4. Open: QuickJSHeap with its lists as sets and its passes as steps, each visiting one object, would bring
   `CountsAreReferences` and `NothingDangles` within the prover's reach; so would ModuleGraph with the stack of the
   depth-first search as state instead of recursion. Both are other models than the present ones, which follow the C functions.
