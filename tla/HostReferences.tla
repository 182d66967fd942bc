--------------------------- MODULE HostReferences ---------------------------
(***************************************************************************)
(* Who owns which reference to a QuickJS object while an engine lives: the  *)
(* running script, the JSFunction and JSClass wrappers of the Swift host,   *)
(* the global object reference of the JSContext, and the heap itself.       *)
(*                                                                          *)
(* Every step is one call of the QuickJS API, made with executionLock held  *)
(* (see EngineLifecycle), so steps do not overlap.                          *)
(***************************************************************************)
EXTENDS QuickJSHeap

CONSTANTS
  Global,     \* the global object
  Builtin,    \* the built-in C functions: each refers to its realm, the context
  Wrappers,   \* JSFunction and JSClass instances of the host
  MaxStack,   \* bound: values a script holds at once
  MaxLeaks    \* bound: values read by JSClass.value(for:)

VARIABLES
  heap,       \* the JSRuntime
  stack,      \* values that the running script owns
  wrappers,   \* what each wrapper refers to
  engine,     \* "open", "shut" after JSEngine.shutdown, "freed" after deinit
  unowned     \* ghost: references counted for nobody (leaked); negative if released twice

vars == <<heap, stack, wrappers, engine, unowned>>

ASSUME HeapAssumption ==
  /\ Global \in Objects /\ Builtin \in Objects /\ Global # Builtin
  /\ Slots >= 2 /\ MaxStack \in Nat /\ MaxLeaks \in Nat
  /\ Objects \cap Cells = {} /\ Context \notin VarRefs /\ None \notin Nodes

Scripted == Objects \ {Builtin}
Fields == 1..Slots

(* JSContext.init: JS_NewContext, then JS_GetGlobalObject for globalRef. *)
Init ==
  LET base == [i \in Fields |-> CASE i = 1 -> Global [] i = 2 -> Builtin [] OTHER -> None]
      h1 == NewNode(EmptyHeap, Context, base)
      h2 == NewNode(h1, Global, NoChildren)
      h3 == NewNode(h2, Builtin, [i \in Fields |-> Context])
  IN  /\ heap = [h3 EXCEPT !.ref_count[Context] = 1 + Slots, !.ref_count[Global] = 2]
      /\ stack = {}
      /\ wrappers = [w \in Wrappers |-> None]
      /\ engine = "open"
      /\ unowned = [p \in Nodes |-> 0]

-----------------------------------------------------------------------------
(* The script. *)
CanPush == engine = "open" /\ Cardinality(stack) < MaxStack

Fresh == {p \in Nodes : heap.mem[p] = "free"}

(* What a script can name: its own values and the global object. *)
InHand == stack \cup {Global}

Push(h, o) == heap' = h /\ stack' = stack \cup {o}

(* js_trigger_gc in JS_NewObjectFromShape: any allocation may run the collector. *)
NewObject(o) ==
  /\ CanPush /\ o \in Fresh \cap Objects
  /\ \E h \in {heap, RunGC(heap)} : Push(NewNode(h, o, NoChildren), o)
  /\ UNCHANGED <<wrappers, engine, unowned>>

(* js_closure and close_var_refs: the captured variable outlives its frame. *)
(* The function also refers to its realm, through its bytecode.             *)
NewClosure(f, v, x) ==
  /\ CanPush /\ f \in Fresh \cap Objects /\ v \in Fresh \cap VarRefs
  /\ x \in stack \cup {None}
  /\ LET h == IF x = None THEN heap ELSE DupValue(heap, x)
         g == NewNode(h, v, [NoChildren EXCEPT ![1] = x])
         k == [g EXCEPT !.ref_count[Context] = @ + 1]
     IN  Push(NewNode(k, f, [NoChildren EXCEPT ![1] = v, ![2] = Context]), f)
  /\ UNCHANGED <<wrappers, engine, unowned>>

(* js_weakref_constructor. *)
NewWeakRef(w, o) ==
  /\ CanPush /\ w \in Fresh \cap Objects /\ o \in stack
  /\ Push([NewNode(heap, w, NoChildren) EXCEPT !.target[w] = o], w)
  /\ UNCHANGED <<wrappers, engine, unowned>>

(* js_weakref_deref. *)
Deref(w) ==
  /\ CanPush /\ w \in stack
  /\ heap.target[w] \notin stack \cup {None}
  /\ Push(DupValue(heap, heap.target[w]), heap.target[w])
  /\ UNCHANGED <<wrappers, engine, unowned>>

(* JS_GetProperty; a closure reads its variable through the JSVarRef. *)
Holder(p, s) == IF heap.child[p][s] \in VarRefs THEN heap.child[p][s] ELSE p
Slot(p, s) == IF heap.child[p][s] \in VarRefs THEN 1 ELSE s
Field(p, s) == heap.child[Holder(p, s)][Slot(p, s)]

GetField(p, s) ==
  /\ CanPush /\ p \in InHand
  /\ Field(p, s) \in Objects \ stack
  /\ Push(DupValue(heap, Field(p, s)), Field(p, s))
  /\ UNCHANGED <<wrappers, engine, unowned>>

(* Mutant: set_value forgets what the field held. *)
StoreOver(h, p, s, x) ==
  [(IF x = None THEN h ELSE DupValue(h, x)) EXCEPT !.child[p][s] = x]

(* set_value: the new value is in place before the old one is freed. *)
Store(h, p, s, x) ==
  LET old == h.child[p][s]
      g == [(IF x = None THEN h ELSE DupValue(h, x)) EXCEPT !.child[p][s] = x]
  IN  IF old = None THEN g ELSE FreeValue(g, old)

SetField(p, s, x) ==
  /\ engine = "open" /\ p \in InHand /\ x \in stack \cup {None}
  /\ Field(p, s) \in Objects \cup {None} /\ Field(p, s) # x
  /\ heap' = Store(heap, Holder(p, s), Slot(p, s), x)
  /\ UNCHANGED <<stack, wrappers, engine, unowned>>

(* JS_FreeValue of a value that the script no longer needs. *)
Pop(o) ==
  /\ engine = "open" /\ o \in stack
  /\ heap' = FreeValue(heap, o) /\ stack' = stack \ {o}
  /\ UNCHANGED <<wrappers, engine, unowned>>

-----------------------------------------------------------------------------
(* Mutant: the wrapper keeps the value without duplicating it. *)
WrapBorrowed(w, o) ==
  /\ engine = "open" /\ wrappers[w] = None /\ o \in stack
  /\ heap' = FreeValue(heap, o)
  /\ stack' = stack \ {o} /\ wrappers' = [wrappers EXCEPT ![w] = o]
  /\ UNCHANGED <<engine, unowned>>

(* The host.  JSFunction.init and JSClass.init duplicate the result of an     *)
(* evaluation or a call, which is then freed.                                *)
Wrap(w, o) ==
  /\ engine = "open" /\ wrappers[w] = None /\ o \in stack
  /\ heap' = FreeValue(DupValue(heap, o), o)
  /\ stack' = stack \ {o} /\ wrappers' = [wrappers EXCEPT ![w] = o]
  /\ UNCHANGED <<engine, unowned>>

(* toJSValue of a wrapper passed as an argument; the call frees its arguments. *)
PassArgument(w) ==
  /\ CanPush /\ wrappers[w] \notin stack \cup {None}
  /\ Push(DupValue(heap, wrappers[w]), wrappers[w])
  /\ UNCHANGED <<wrappers, engine, unowned>>

(* JSClass.setValue: the property takes over what toJSValue duplicated. *)
ClassSetValue(w, s, x) ==
  /\ engine = "open" /\ wrappers[w] # None /\ wrappers[x] # None
  /\ Field(wrappers[w], s) \in Objects \cup {None}
  /\ Field(wrappers[w], s) # wrappers[x]
  /\ heap' = Store(heap, Holder(wrappers[w], s), Slot(wrappers[w], s), wrappers[x])
  /\ UNCHANGED <<stack, wrappers, engine, unowned>>

Leaks == Cardinality({p \in Nodes : unowned[p] > 0})

(* JSClass.value: what JS_GetPropertyStr returns is converted, never freed. *)
ClassValue(w, s) ==
  /\ engine = "open" /\ wrappers[w] # None /\ Leaks < MaxLeaks
  /\ Field(wrappers[w], s) \in Objects
  /\ unowned[Field(wrappers[w], s)] = 0
  /\ heap' = DupValue(heap, Field(wrappers[w], s))
  /\ unowned' = [unowned EXCEPT ![Field(wrappers[w], s)] = @ + 1]
  /\ UNCHANGED <<stack, wrappers, engine>>

(* deinit of a wrapper.  JSValue.free does nothing once the gate is closed. *)
DropWrapper(w) ==
  /\ engine # "freed" /\ wrappers[w] # None
  /\ wrappers' = [wrappers EXCEPT ![w] = None]
  /\ IF engine = "open"
     THEN heap' = FreeValue(heap, wrappers[w]) /\ unowned' = unowned
     ELSE heap' = heap /\ unowned' = [unowned EXCEPT ![wrappers[w]] = @ + 1]
  /\ UNCHANGED <<stack, engine>>

(* JSContext.shutdown: the gate is closed before globalRef is freed, so that *)
(* reference is lost.  The first JS_FreeContext returns the reference that    *)
(* JS_NewContext gave; a second one returns a reference of somebody else.     *)
Shutdown ==
  /\ engine = "open" /\ stack = {}
  /\ heap' = FreeContext(heap) /\ engine' = "shut"
  /\ unowned' = [unowned EXCEPT ![Global] = @ + 1]
  /\ UNCHANGED <<stack, wrappers>>

(* JSEngine.deinit: shutdown again, then JS_FreeRuntime, which collects. *)
Deinit ==
  /\ engine # "freed" /\ stack = {}
  /\ heap' = RunGC(FreeContext(heap)) /\ engine' = "freed"
  /\ unowned' = IF engine = "open" THEN [unowned EXCEPT ![Global] = @ + 1]
                ELSE [unowned EXCEPT ![Context] = @ - 1]
  /\ UNCHANGED <<stack, wrappers>>

Next ==
  \/ \E o \in Objects : NewObject(o) \/ Deref(o) \/ Pop(o)
  \/ \E f \in Objects, v \in VarRefs, x \in Scripted \cup {None} : NewClosure(f, v, x)
  \/ \E w, o \in Objects : NewWeakRef(w, o)
  \/ \E p \in Objects, s \in Fields : GetField(p, s)
  \/ \E p \in Objects, s \in Fields, x \in Scripted \cup {None} : SetField(p, s, x)
  \/ \E w \in Wrappers, o \in Objects : Wrap(w, o)
  \/ \E w \in Wrappers : PassArgument(w) \/ DropWrapper(w)
  \/ \E w \in Wrappers, s \in Fields : ClassValue(w, s) \/ \E x \in Wrappers : ClassSetValue(w, s, x)
  \/ Shutdown \/ Deinit

Spec == Init /\ [][Next]_vars

(* export(name:): JS_SetPropertyStr takes over the reference to the new      *)
(* function, the JSFunction duplicates it, and newFunction.free releases it   *)
(* once more.                                                                 *)
ExportFunction(f, s, w) ==
  /\ engine = "open" /\ wrappers[w] = None
  /\ f \in Fresh \cap Objects /\ heap.child[Global][s] = None
  /\ LET g == NewNode(heap, f, [NoChildren EXCEPT ![1] = Context])
         k == [g EXCEPT !.ref_count[Context] = @ + 1, !.child[Global][s] = f]
     IN  heap' = FreeValue(DupValue(k, f), f)
  /\ wrappers' = [wrappers EXCEPT ![w] = f]
  /\ unowned' = [unowned EXCEPT ![f] = @ - 1]
  /\ UNCHANGED <<stack, engine>>

(* A host that exports functions by name. *)
ExportSpec ==
  Init /\ [][Next \/ \E f \in Objects, s \in Fields, w \in Wrappers : ExportFunction(f, s, w)]_vars
-----------------------------------------------------------------------------
Owners(p) ==
  (IF p \in stack THEN 1 ELSE 0)
  + Cardinality({w \in Wrappers : wrappers[w] = p})
  + (IF engine = "open" /\ p \in {Global, Context} THEN 1 ELSE 0)

(* A GC object is in gc_obj_list exactly when it exists, the zero-count and   *)
(* temporary lists are empty and no mark is left between calls.               *)
TypeOK ==
  /\ \A p \in Nodes : heap.mem[p] \in {"free", "live"}
  /\ ToSet(heap.gc_obj_list) = Live(heap)
  /\ Len(heap.gc_obj_list) = Cardinality(Live(heap))
  /\ heap.tmp_obj_list = <<>> /\ heap.gc_zero_ref_count_list = <<>>
  /\ heap.gc_phase = "none"
  /\ \A p \in Live(heap) : heap.mark[p] = 0

(* The count of every GC object is the number of references to it: fields of  *)
(* live objects, the script, the wrappers, the engine, and what the host       *)
(* leaked or released twice.  The runtime's last collection may restore one    *)
(* count too many for a context that was released twice, never too few.        *)
CountsAreReferences ==
  \A p \in Live(heap) :
    LET count == References(heap, p) + Owners(p) + unowned[p]
    IN  heap.ref_count[p] = count
        \/ (engine = "freed" /\ p = Context /\ heap.ref_count[p] > count)

(* No live object, script value, wrapper or WeakRef refers to freed memory,   *)
(* and no assertion of the collector fails.                                   *)
NothingDangles ==
  /\ heap.failed = {}
  /\ ChildrenOf(heap, Live(heap)) \subseteq Live(heap)
  /\ stack \subseteq Live(heap)
  /\ \A w \in Wrappers : wrappers[w] \in Live(heap) \cup {None}
  /\ \A r \in Live(heap) \cap Objects : heap.target[r] \in Live(heap) \cup {None}

(* The assertion of gc_decref_child that the package disables only fails when   *)
(* the host has released a reference that it did not own.                      *)
ToleranceHidesOverRelease ==
  heap.tolerated => \E p \in Nodes : unowned[p] < 0

(* The function behind an exported name stays as long as the global object    *)
(* refers to it, whatever the host does with the JSFunction that              *)
(* export(name:) returned.                                                    *)
GlobalsStayAlive == ChildrenOf(heap, {Global}) \subseteq Live(heap)

(* Run at any moment, JS_RunGC frees what nobody can reach and nothing else,  *)
(* keeps the counts exact, and empties the WeakRefs whose target it freed.    *)
CollectsExactlyGarbage ==
  LET roots == {p \in Live(heap) : Owners(p) + unowned[p] > 0}
  IN  engine = "open" =>
        LET g == RunGC(heap)
        IN  /\ Live(g) = Reachable(heap, roots)
            /\ \A p \in Live(g) : g.ref_count[p] = References(g, p) + Owners(p) + unowned[p]
            /\ \A w \in Live(g) \cap Objects :
                 g.target[w] = IF heap.target[w] \in Live(g) THEN heap.target[w] ELSE None
=============================================================================
