----------------------------- MODULE QuickJSHeap -----------------------------
(***************************************************************************)
(* The memory of a JSRuntime: reference counts, the list of objects whose   *)
(* count reached zero, weak references, and the collector of cycles.        *)
(*                                                                          *)
(* QuickJS runs on one thread and no finalizer runs JavaScript, so a call   *)
(* of its API is a function from heaps to heaps.  The loops of the code are *)
(* folds over its lists.                                                    *)
(*                                                                          *)
(* A GC object is a JSObject, a detached JSVarRef or the JSContext.  What an *)
(* object refers to (property values, prototype, captured variables, realm) *)
(* is in its slots.  failed collects the assertions that did not hold and   *)
(* the use of freed memory.                                                 *)
(***************************************************************************)
EXTENDS Integers, FiniteSets, Sequences, SequencesExt

CONSTANTS
  Objects,   \* JSObject and JSFunctionBytecode: counted JavaScript values
  VarRefs,   \* variables that outlived their frame
  Context,   \* the JSContext, itself a GC object
  Slots,     \* how many references a GC object holds at most
  None

Cells == VarRefs \cup {Context}
Nodes == Objects \cup Cells
NoChildren == [s \in 1..Slots |-> None]

EmptyHeap ==
  [mem    |-> [p \in Nodes |-> "free"],    \* free, live, or zombie: free_mark is set
   ref_count |-> [p \in Nodes |-> 0],
   mark   |-> [p \in Nodes |-> 0],
   child  |-> [p \in Nodes |-> NoChildren],
   target |-> [p \in Objects |-> None],    \* JSWeakRefData.target of a WeakRef
   gc_obj_list |-> <<>>,
   tmp_obj_list |-> <<>>,
   gc_zero_ref_count_list |-> <<>>,
   gc_phase |-> "none",
   failed |-> {},
   tolerated |-> FALSE]   \* the assertion that Substrata disabled would have failed

Verify(h, condition, what) ==
  IF condition THEN h ELSE [h EXCEPT !.failed = @ \cup {what}]

Touch(h, p) == Verify(h, h.mem[p] # "free", "use of freed memory")

(* list_del, from whichever list the header is in. *)
Unlink(h, p) ==
  [h EXCEPT !.gc_obj_list = Remove(@, p),
            !.tmp_obj_list = Remove(@, p),
            !.gc_zero_ref_count_list = Remove(@, p)]

(* Over the references a GC object holds: mark_children. *)
ForChildren(Op(_, _), h, p) ==
  FoldLeft(LAMBDA g, c : IF c = None THEN g ELSE Op(g, c), h, h.child[p])

-----------------------------------------------------------------------------
(* js_malloc of an object and add_gc_object; the caller owns the reference. *)
NewNode(h, p, children) ==
  [h EXCEPT !.mem[p] = "live", !.ref_count[p] = 1, !.mark[p] = 0,
            !.child[p] = children, !.gc_obj_list = Append(@, p)]

DupValue(h, p) == [Touch(h, p) EXCEPT !.ref_count[p] = @ + 1]

(* JS_FreeValueRT without the loop that follows when no phase is active. *)
Release(h, p) ==
  LET g == [Touch(h, p) EXCEPT !.ref_count[p] = @ - 1]
  IN  IF g.ref_count[p] > 0 \/ g.gc_phase = "remove cycles" THEN g
      ELSE [Unlink(g, p) EXCEPT !.gc_zero_ref_count_list = <<p>> \o @]

(* free_var_ref and JS_FreeContext, from a finalizer. *)
FreeCell(h, c) ==
  LET g == [Verify(Touch(h, c), c = Context \/ h.ref_count[c] > 0, "ref_count of a cell")
              EXCEPT !.ref_count[c] = @ - 1]
  IN  IF g.ref_count[c] # 0 THEN g
      ELSE [Unlink(ForChildren(Release, g, c), c) EXCEPT
              !.mem[c] = "free", !.child[c] = NoChildren]

FreeChild(h, c) == IF c \in Objects THEN Release(h, c) ELSE FreeCell(h, c)

(* Mutant: reset_weak_ref is not called. *)
FreeObjectKeepWeak(h, p) ==
  LET g == ForChildren(FreeChild, [Touch(h, p) EXCEPT !.mem[p] = "zombie"], p)
      u == Unlink([g EXCEPT !.child[p] = NoChildren, !.target[p] = None], p)
  IN  IF u.gc_phase = "remove cycles" /\ u.ref_count[p] # 0
      THEN [u EXCEPT !.gc_zero_ref_count_list = Append(@, p)]
      ELSE [u EXCEPT !.mem[p] = "free"]

(* free_object: what it refers to, the weak references to it (reset_weak_ref), *)
(* and its finalizer, which for a WeakRef removes the record at the target.    *)
FreeObject(h, p) ==
  LET g == ForChildren(FreeChild, [Touch(h, p) EXCEPT !.mem[p] = "zombie"], p)
      u == Unlink([g EXCEPT
             !.child[p] = NoChildren,
             !.target = [w \in Objects |-> IF w = p \/ @[w] = p THEN None ELSE @[w]]], p)
  IN  IF u.gc_phase = "remove cycles" /\ u.ref_count[p] # 0
      THEN [u EXCEPT !.gc_zero_ref_count_list = Append(@, p)]
      ELSE [u EXCEPT !.mem[p] = "free"]

FreeZeroRefcount(h) ==
  LET Free1(g, i) ==
        IF g.gc_zero_ref_count_list = <<>> THEN g
        ELSE LET p == Head(g.gc_zero_ref_count_list)
             IN  FreeObject(Verify(g, g.ref_count[p] = 0, "zero list"), p)
      rounds == [i \in 1..Cardinality(Objects) |-> i]
  IN  [FoldLeft(Free1, [h EXCEPT !.gc_phase = "decref"], rounds) EXCEPT !.gc_phase = "none"]

FreeValue(h, p) == FreeZeroRefcount(Release(h, p))

(* JS_FreeContext from the host: the context goes after all it referred to. *)
FreeContext(h) ==
  LET g == [Touch(h, Context) EXCEPT !.ref_count[Context] = @ - 1]
  IN  IF g.ref_count[Context] # 0 THEN g
      ELSE [Unlink(ForChildren(FreeValue, g, Context), Context) EXCEPT
              !.mem[Context] = "free", !.child[Context] = NoChildren]

-----------------------------------------------------------------------------
(* JS_RunGC. *)
Move(h, p, list) ==
  CASE list = "tmp" -> [Unlink(h, p) EXCEPT !.tmp_obj_list = Append(@, p)]
    [] list = "gc"  -> [Unlink(h, p) EXCEPT !.gc_obj_list = Append(@, p)]

(* Substrata replaced assert(p->ref_count > 0) by a return. *)
DecrefChild(h, c) ==
  IF h.ref_count[c] <= 0 THEN [Touch(h, c) EXCEPT !.tolerated = TRUE]
  ELSE LET g == [Touch(h, c) EXCEPT !.ref_count[c] = @ - 1]
       IN  IF g.ref_count[c] = 0 /\ g.mark[c] = 1 THEN Move(g, c, "tmp") ELSE g

Decref(h) ==
  LET Visit(g, p) ==
        LET d == [ForChildren(DecrefChild, Verify(g, g.mark[p] = 0, "mark"), p)
                    EXCEPT !.mark[p] = 1]
        IN  IF d.ref_count[p] = 0 THEN Move(d, p, "tmp") ELSE d
  IN  FoldLeft(Visit, h, h.gc_obj_list)

(* Mutant: what a kept object refers to is not kept. *)
IncrefChildOnly(h, c) == [h EXCEPT !.ref_count[c] = @ + 1]

IncrefChild(h, c) ==
  LET g == [h EXCEPT !.ref_count[c] = @ + 1]
  IN  IF g.ref_count[c] = 1 THEN [Move(g, c, "gc") EXCEPT !.mark[c] = 0] ELSE g

IncrefChild2(h, c) == [h EXCEPT !.ref_count[c] = @ + 1]

(* Mutant: the marks of the objects that stay are not reset. *)
ScanMarked(h) ==
  LET Keep(g, i) ==
        IF i > Len(g.gc_obj_list) THEN g
        ELSE ForChildren(IncrefChild, g, g.gc_obj_list[i])
      Restore(g, p) == ForChildren(IncrefChild2, g, p)
      kept == FoldLeft(Keep, h, [i \in 1..Cardinality(Nodes) |-> i])
  IN  FoldLeft(Restore, kept, kept.tmp_obj_list)

(* gc_obj_list grows while it is traversed. *)
Scan(h) ==
  LET Keep(g, i) ==
        IF i > Len(g.gc_obj_list) THEN g
        ELSE LET p == g.gc_obj_list[i]
             IN  ForChildren(IncrefChild,
                   [Verify(g, g.ref_count[p] > 0, "gc_scan") EXCEPT !.mark[p] = 0], p)
      Restore(g, p) == ForChildren(IncrefChild2, g, p)
      kept == FoldLeft(Keep, h, [i \in 1..Cardinality(Nodes) |-> i])
  IN  FoldLeft(Restore, kept, kept.tmp_obj_list)

(* Cells wait in gc_zero_ref_count_list for the objects that refer to them. *)
FreeCycles(h) ==
  LET Free1(g, i) ==
        IF g.tmp_obj_list = <<>> THEN g
        ELSE LET p == Head(g.tmp_obj_list)
             IN  IF p \in Objects THEN FreeObject(g, p)
                 ELSE [Unlink(g, p) EXCEPT !.gc_zero_ref_count_list = Append(@, p)]
      swept == FoldLeft(Free1, [h EXCEPT !.gc_phase = "remove cycles"],
                        [i \in 1..Cardinality(Nodes) |-> i])
      zombies == ToSet(swept.gc_zero_ref_count_list)
  IN  [Verify(swept, zombies \subseteq Objects, "gc_free_cycles") EXCEPT
         !.gc_phase = "none",
         !.mem = [p \in Nodes |-> IF p \in zombies THEN "free" ELSE @[p]],
         !.gc_zero_ref_count_list = <<>>]

RunGC(h) == FreeCycles(Scan(Decref(h)))

-----------------------------------------------------------------------------
(* What the heap should be: reachability, without counts or lists. *)
Live(h) == {p \in Nodes : h.mem[p] = "live"}

ChildrenOf(h, P) ==
  {c \in Nodes : \E p \in P, s \in 1..Slots : h.child[p][s] = c}

Reachable(h, roots) ==
  LET within[n \in 0..Cardinality(Nodes)] ==
        IF n = 0 THEN roots ELSE within[n - 1] \cup ChildrenOf(h, within[n - 1])
  IN  within[Cardinality(Nodes)]

References(h, c) ==
  Cardinality({ps \in Live(h) \X (1..Slots) : h.child[ps[1]][ps[2]] = c})
=============================================================================
