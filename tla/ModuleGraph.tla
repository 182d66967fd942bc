----------------------------- MODULE ModuleGraph -----------------------------
(***************************************************************************)
(* Linking and evaluating a graph of ECMAScript modules (quickjs.c): depth  *)
(* first, with Tarjan's strongly connected components, top-level await and   *)
(* errors.                                                                  *)
(*                                                                          *)
(* One step is one call into QuickJS: an import, or the job that runs when   *)
(* the body of a module with top-level await has ended.  The C functions are  *)
(* operators on the state g of the loaded modules.                           *)
(***************************************************************************)
EXTENDS Integers, FiniteSets, Sequences, SequencesExt

CONSTANTS
  Modules,      \* a set of numbers: the order of the requests of a module
  None,
  Graphs,       \* which modules each module requires: functions to sets of modules
  MaxFaults,    \* bound: modules that throw or cannot be linked
  MaxImports    \* bound: imports by the host and by import()

VARIABLES
  requests,  \* req_module_entries of each module, as a set; constant
  has_tla,   \* modules with top-level await; constant
  throws,    \* modules whose body throws; constant
  unlinkable,\* modules with an import that cannot be resolved; constant
  g,         \* the loaded modules
  settled,   \* modules with top-level await whose body has ended
  imports    \* history: how many imports were made

vars == <<requests, has_tla, throws, unlinkable, g, settled, imports>>

ASSUME ModulesAssumption ==
  /\ Modules \subseteq Nat /\ None \notin Modules
  /\ Graphs \subseteq [Modules -> SUBSET Modules]
  /\ MaxFaults \in Nat /\ MaxImports \in Nat

NewModule ==
  [status |-> "UNLINKED", dfs_index |-> 0, dfs_ancestor_index |-> 0,
   cycle_root |-> None, pending_async_dependencies |-> 0,
   async_evaluation |-> FALSE, timestamp |-> 0, async_parent_modules |-> <<>>,
   eval_exception |-> None, promise |-> "none"]

(* started and ended are the history of the bodies. *)
NoModules ==
  [mod |-> [m \in Modules |-> NewModule], stack |-> <<>>, index |-> 0, error |-> None,
   next_timestamp |-> 0, started |-> <<>>, ended |-> {}, failed |-> {}]

Init ==
  /\ requests \in Graphs
  /\ has_tla \in SUBSET Modules
  /\ throws \in SUBSET Modules
  /\ unlinkable \in SUBSET Modules
  /\ Cardinality(throws) + Cardinality(unlinkable) <= MaxFaults
  /\ g = NoModules /\ settled = {} /\ imports = 0

Requests(m) == SetToSortSeq(requests[m], <)

Verify(h, condition, what) ==
  IF condition THEN h ELSE [h EXCEPT !.failed = @ \cup {what}]

Least(a, b) == IF a < b THEN a ELSE b

(* The modules above and including m on the stack. *)
Component(h, m) ==
  {h.stack[i] : i \in 1..(CHOOSE k \in 1..Len(h.stack) : h.stack[k] = m)}

PopComponent(h, m) == [h EXCEPT !.stack = SelectSeq(@, LAMBDA x : x \notin Component(h, m))]

(* Entering a module: its index, and the push on the stack. *)
Enter(h, m, status) ==
  [h EXCEPT !.mod[m].status = status, !.mod[m].dfs_index = h.index,
            !.mod[m].dfs_ancestor_index = h.index, !.index = @ + 1,
            !.stack = <<m>> \o @]

LowerAncestor(h, m, m1) ==
  [h EXCEPT !.mod[m].dfs_ancestor_index = Least(@, h.mod[m1].dfs_ancestor_index)]

-----------------------------------------------------------------------------
(* js_inner_module_linking. *)
RECURSIVE InnerModuleLinking(_, _)
InnerModuleLinking(h, m) ==
  IF h.mod[m].status # "UNLINKED"
  THEN Verify(h, h.mod[m].status \in {"LINKING", "LINKED", "EVALUATING_ASYNC", "EVALUATED"}, "linking")
  ELSE
    LET Visit(a, m1) ==
          IF a.error # None THEN a
          ELSE LET b == InnerModuleLinking(a, m1)
               IN  IF b.error = None /\ b.mod[m1].status = "LINKING" THEN LowerAncestor(b, m, m1) ELSE b
        v == FoldLeft(Visit, Enter(h, m, "LINKING"), Requests(m))
        w == IF v.error = None /\ m \in unlinkable THEN [v EXCEPT !.error = m] ELSE v
    IN  IF w.error # None \/ w.mod[m].dfs_index # w.mod[m].dfs_ancestor_index THEN w
        ELSE [PopComponent(w, m) EXCEPT
                !.mod = [x \in Modules |->
                           IF x \in Component(w, m) THEN [@[x] EXCEPT !.status = "LINKED"] ELSE @[x]]]

(* Mutant: on failure the modules stay as they are. *)
LinkModuleKeeping(h, m) ==
  LET l == InnerModuleLinking([h EXCEPT !.index = 0], m) IN [l EXCEPT !.stack = <<>>]

(* js_link_module: on failure every module on the stack is unlinked again. *)
LinkModule(h, m) ==
  LET l == InnerModuleLinking([h EXCEPT !.index = 0], m)
  IN  IF l.error = None THEN Verify(l, l.stack = <<>>, "link stack")
      ELSE [l EXCEPT !.stack = <<>>,
              !.mod = [x \in Modules |-> IF x \in ToSet(l.stack)
                                         THEN [@[x] EXCEPT !.status = "UNLINKED"] ELSE @[x]]]

-----------------------------------------------------------------------------
Start(h, m) == [h EXCEPT !.started = Append(@, m)]

(* js_execute_async_module: the job after the body comes later. *)
ExecuteAsync(h, m) == Start(h, m)

(* js_execute_sync_module. *)
ExecuteSync(h, m) ==
  IF m \in throws THEN [Start(h, m) EXCEPT !.error = m]
  ELSE [Start(h, m) EXCEPT !.ended = @ \cup {m}]

AsyncEvaluation(h, m) ==
  [Verify(h, ~h.mod[m].async_evaluation, "async_evaluation") EXCEPT
     !.mod[m].async_evaluation = TRUE, !.mod[m].timestamp = h.next_timestamp,
     !.next_timestamp = @ + 1]

(* The body of m, or its turn to wait for the modules it requires. *)
Execute(h, m) ==
  CASE h.mod[m].pending_async_dependencies > 0 -> AsyncEvaluation(h, m)
    [] h.mod[m].pending_async_dependencies = 0 /\ m \in has_tla -> ExecuteAsync(AsyncEvaluation(h, m), m)
    [] OTHER -> ExecuteSync(h, m)

(* Mutant: what a required module still waits for is not counted. *)
AfterRequestUncounted(h, m, m1) ==
  IF h.mod[m1].status = "EVALUATING" THEN LowerAncestor(h, m, m1) ELSE h

(* What m learns from a module m1 that it requires. *)
AfterRequest(h, m, m1) ==
  LET evaluating == h.mod[m1].status = "EVALUATING"
      root == IF evaluating THEN m1 ELSE h.mod[m1].cycle_root
      a == IF evaluating THEN LowerAncestor(h, m, m1)
           ELSE Verify(h, h.mod[root].status \in {"EVALUATING_ASYNC", "EVALUATED"}, "cycle_root")
  IN  CASE ~evaluating /\ a.mod[root].eval_exception # None ->
             [a EXCEPT !.error = a.mod[root].eval_exception]
        [] (evaluating \/ a.mod[root].eval_exception = None) /\ a.mod[root].async_evaluation ->
             [a EXCEPT !.mod[m].pending_async_dependencies = @ + 1,
                       !.mod[root].async_parent_modules = Append(@, m)]
        [] OTHER -> a

(* js_inner_module_evaluation. *)
RECURSIVE InnerModuleEvaluation(_, _)
InnerModuleEvaluation(h, m) ==
  CASE h.mod[m].status \in {"EVALUATING_ASYNC", "EVALUATED"} ->
         [h EXCEPT !.error = h.mod[m].eval_exception]
    [] h.mod[m].status = "EVALUATING" -> h
    [] OTHER ->
         LET Visit(a, m1) ==
               IF a.error # None THEN a
               ELSE LET b == InnerModuleEvaluation(a, m1)
                    IN  IF b.error = None THEN AfterRequest(b, m, m1) ELSE b
             e == [Verify(h, h.mod[m].status = "LINKED", "evaluation") EXCEPT
                     !.mod[m].pending_async_dependencies = 0]
             v == FoldLeft(Visit, Enter(e, m, "EVALUATING"), Requests(m))
             x == IF v.error = None THEN Execute(v, m) ELSE v
         IN  IF x.error # None \/ x.mod[m].dfs_index # x.mod[m].dfs_ancestor_index THEN x
             ELSE [PopComponent(x, m) EXCEPT
                     !.mod = [y \in Modules |->
                        IF y \notin Component(x, m) THEN @[y]
                        ELSE [@[y] EXCEPT !.cycle_root = m,
                                !.status = IF x.mod[y].async_evaluation THEN "EVALUATING_ASYNC" ELSE "EVALUATED"]]]

(* js_evaluate_module, for a module that may own a promise. *)
EvaluateRoot(h, m) ==
  LET e == InnerModuleEvaluation([h EXCEPT !.mod[m].promise = "pending", !.index = 0], m)
      unwound == [e EXCEPT !.stack = <<>>, !.error = None,
                    !.mod = [x \in Modules |->
                       IF x \notin ToSet(e.stack) THEN @[x]
                       ELSE [@[x] EXCEPT !.status = "EVALUATED", !.cycle_root = m,
                                         !.eval_exception = e.error]]]
  IN  IF h.mod[m].promise # "none" THEN h
      ELSE IF e.error # None
      THEN [Verify(unwound, unwound.mod[m].status = "EVALUATED" /\ unwound.mod[m].eval_exception # None,
                   "evaluate error") EXCEPT !.mod[m].promise = "rejected"]
      ELSE Verify([e EXCEPT !.mod[m].promise = IF e.mod[m].async_evaluation THEN @ ELSE "fulfilled"],
                  e.stack = <<>> /\ e.mod[m].eval_exception = None
                    /\ e.mod[m].status \in {"EVALUATING_ASYNC", "EVALUATED"}, "evaluate")

(* Mutant: the promise is made on the module that was asked for. *)
EvaluateModuleItself(h, m) == EvaluateRoot(h, m)

(* js_evaluate_module: the promise of a cycle is the one of its root. *)
EvaluateModule(h, m) ==
  EvaluateRoot(h, IF h.mod[m].status \in {"EVALUATING_ASYNC", "EVALUATED"}
                  THEN h.mod[m].cycle_root ELSE m)

-----------------------------------------------------------------------------
(* Mutant: the promise of the import is forgotten. *)
SetModuleEvaluatedSilently(h, m) == [h EXCEPT !.mod[m].status = "EVALUATED"]

(* js_set_module_evaluated. *)
SetModuleEvaluated(h, m) ==
  [Verify(h, h.mod[m].promise = "none" \/ h.mod[m].cycle_root = m, "promise at the root") EXCEPT
     !.mod[m].status = "EVALUATED",
     !.mod[m].promise = IF @ = "none" THEN @ ELSE "fulfilled"]

(* gather_available_ancestors: list is the modules that can run now. *)
RECURSIVE GatherAvailableAncestors(_, _)
GatherAvailableAncestors(acc, module) ==
  LET Visit(a, m) ==
        IF m \in ToSet(a.list) \/ a.h.mod[a.h.mod[m].cycle_root].eval_exception # None THEN a
        ELSE LET b == [a EXCEPT !.h = [Verify(a.h,
                          /\ a.h.mod[m].status = "EVALUATING_ASYNC" /\ a.h.mod[m].eval_exception = None
                          /\ a.h.mod[m].async_evaluation /\ a.h.mod[m].pending_async_dependencies > 0,
                          "gather") EXCEPT !.mod[m].pending_async_dependencies = @ - 1]]
             IN  IF b.h.mod[m].pending_async_dependencies > 0 THEN b
                 ELSE LET c == [b EXCEPT !.list = Append(@, m)]
                      IN  IF m \in has_tla THEN c ELSE GatherAvailableAncestors(c, m)
  IN  FoldLeft(Visit, acc, acc.h.mod[module].async_parent_modules)

(* js_async_module_execution_rejected. *)
RECURSIVE ExecutionRejected(_, _, _)
ExecutionRejected(h, m, error) ==
  IF h.mod[m].status = "EVALUATED" THEN Verify(h, h.mod[m].eval_exception # None, "rejected")
  ELSE
    LET a == [Verify(h, h.mod[m].status = "EVALUATING_ASYNC" /\ h.mod[m].eval_exception = None
                          /\ h.mod[m].async_evaluation, "rejected") EXCEPT
                !.mod[m].eval_exception = error, !.mod[m].status = "EVALUATED"]
        b == FoldLeft(LAMBDA x, parent : ExecutionRejected(x, parent, error), a,
                      a.mod[m].async_parent_modules)
    IN  [Verify(b, b.mod[m].promise = "none" \/ b.mod[m].cycle_root = m, "promise at the root") EXCEPT
           !.mod[m].promise = IF @ = "none" THEN @ ELSE "rejected"]

(* Mutant: the modules run in the order in which they were found. *)
SortByTimestampNot(h, list) == list

(* rqsort with exec_module_list_cmp. *)
SortByTimestamp(h, list) ==
  SortSeq(list, LAMBDA a, b : h.mod[a].timestamp < h.mod[b].timestamp)

(* js_async_module_execution_fulfilled. *)
ExecutionFulfilled(h, m) ==
  LET checked == Verify(h, h.mod[m].status = "EVALUATING_ASYNC" /\ h.mod[m].eval_exception = None
                             /\ h.mod[m].async_evaluation, "fulfilled")
      done == SetModuleEvaluated([checked EXCEPT !.mod[m].async_evaluation = FALSE], m)
      found == GatherAvailableAncestors([h |-> done, list |-> <<>>], m)
      Run(a, x) ==
        IF a.mod[x].status = "EVALUATED"
        THEN Verify(a, a.mod[x].eval_exception # None, "exec list")
        ELSE IF x \in has_tla THEN ExecuteAsync(a, x)
        ELSE LET b == ExecuteSync(a, x)
             IN  IF b.error # None THEN ExecutionRejected([b EXCEPT !.error = None], x, b.error)
                 ELSE SetModuleEvaluated(b, x)
  IN  IF h.mod[m].status = "EVALUATED" THEN Verify(h, h.mod[m].eval_exception # None, "fulfilled")
      ELSE FoldLeft(Run, found.h, SortByTimestamp(found.h, found.list))

-----------------------------------------------------------------------------
(* JS_EvalFunctionInternal for a module, from the host or from import(). *)
Import(m) ==
  /\ imports < MaxImports
  /\ imports' = imports + 1
  /\ LET l == LinkModule(g, m)
     IN  g' = IF l.error # None THEN [l EXCEPT !.error = None] ELSE EvaluateModule(l, m)
  /\ UNCHANGED <<requests, has_tla, throws, unlinkable, settled>>

Awaiting == (ToSet(g.started) \cap has_tla) \ settled

Settles(m) == m \in Awaiting /\ settled' = settled \cup {m}

(* The job after the body of a module with top-level await. *)
BodyEnds(m) ==
  /\ Settles(m)
  /\ g' = IF m \in throws THEN ExecutionRejected(g, m, m)
          ELSE ExecutionFulfilled([g EXCEPT !.ended = @ \cup {m}], m)
  /\ UNCHANGED <<requests, has_tla, throws, unlinkable, imports>>

Next == \E m \in Modules : Import(m) \/ BodyEnds(m)

Spec == Init /\ [][Next]_vars

(* What a body awaits settles, and its job runs: only BodyEnds(m) takes a       *)
(* Settles(m) step.                                                           *)
FairSpec == Spec /\ \A m \in Modules : WF_settled(Settles(m))
-----------------------------------------------------------------------------
Reach(m) ==
  LET r[n \in 0..Cardinality(Modules)] ==
        IF n = 0 THEN {m} ELSE r[n - 1] \cup UNION {requests[x] : x \in r[n - 1]}
  IN  r[Cardinality(Modules)]

SameCycle(a, b) == a \in Reach(b) /\ b \in Reach(a)

TypeOK ==
  /\ g.stack = <<>> /\ g.error = None
  /\ \A m \in Modules :
       /\ g.mod[m].status \in {"UNLINKED", "LINKED", "EVALUATING_ASYNC", "EVALUATED"}
       /\ g.mod[m].promise \in {"none", "pending", "fulfilled", "rejected"}
       /\ g.mod[m].pending_async_dependencies \in 0..Cardinality(Modules)

(* The assertions of the code hold, for every graph, every choice of           *)
(* top-level awaits and errors, and every order in which the bodies end.       *)
AssertionsHold == g.failed = {}

(* A body starts at most once, and only after the bodies of the modules it      *)
(* requires outside its own cycle, and of all that these require, have ended   *)
(* without an error.                                                          *)
DependenciesFirst ==
  /\ IsInjective(g.started)
  /\ \A m \in ToSet(g.started), d \in Modules :
       (d \in requests[m] /\ ~SameCycle(d, m)) => Reach(d) \subseteq g.ended

(* Modules that become ready together run in the order of the graph: if two     *)
(* modules without await of their own both waited, the one that the depth-first *)
(* visit left first (and which got its timestamp then) runs first.              *)
ReadyInTimestampOrder ==
  [][\A m \in Modules :
       BodyEnds(m) =>
         LET fresh == SubSeq(g'.started, Len(g.started) + 1, Len(g'.started))
         IN  \A i, j \in 1..Len(fresh) :
               i < j => g.mod[fresh[i]].timestamp < g.mod[fresh[j]].timestamp]_vars

(* The promise of an import is fulfilled only when every module below it has    *)
(* ended, and rejected only when one of them threw.                            *)
PromiseIsHonest ==
  \A m \in Modules :
    /\ g.mod[m].promise = "fulfilled" => Reach(m) \subseteq g.ended
    /\ g.mod[m].promise = "rejected" => Reach(m) \cap throws # {}

(* An import that hangs when nothing is awaited any more hangs on a module that *)
(* has ended but still has async_evaluation set.                               *)
HangsOnlyOnStaleFlag ==
  \A m \in Modules :
    (Awaiting = {} /\ g.mod[m].promise = "pending") =>
      \E d \in Reach(m) : d \in g.ended /\ g.mod[d].async_evaluation
                            /\ g.mod[d].status = "EVALUATED"

(* An import runs the bodies of the module and of all the modules it requires,  *)
(* or its promise is rejected: what the comment above js_evaluate_module says.  *)
ImportsRun ==
  \A m \in Modules :
    g.mod[m].promise # "none" ~>
      g.mod[m].promise = "rejected" \/ Reach(m) \subseteq ToSet(g.started)
=============================================================================
